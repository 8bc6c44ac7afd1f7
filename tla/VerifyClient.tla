---------------------------- MODULE VerifyClient ----------------------------
(***************************************************************************)
(* The submitting client of the SDK, verifyOnChain and verifyBatchOnChain  *)
(* of sdk/src/verify.ts, and estimateVerifyFee, its dry run, with the      *)
(* network they talk to and the verifier contract that executes what is    *)
(* submitted.                                                              *)
(*                                                                         *)
(* A call reads the account, builds a transaction, has it simulated, signs *)
(* and sends it, and polls for its outcome; between any two of these steps *)
(* other calls run, ledgers close and the contract changes.  The network   *)
(* may lose an answer, drop a transaction or report it late.               *)
(***************************************************************************)
EXTENDS Verifier

CONSTANTS
  Calls,        \* the calls of the SDK
  Requests,     \* what they may ask for: [caller, method, items, bundle]
  NoBundle,     \* a request without a bundle; one without calldata has no items
  NoRequest,    \* nothing asked yet
  Networks,     \* network passphrases
  Network,      \* the one the RPC node answers to getNetwork
  Stamps,       \* seconds a transaction can be built in; they make its time bounds
  NoTx,         \* no transaction
  Faults,       \* messages of the errors that an RPC request may throw
  HasValue,     \* whether the RPC node's answers carry a return value
  HasEvents,    \* and diagnostic events
  MaxPolls      \* bound: how many polls fit DEFAULT_TIMEOUT_MS

Methods == {"verify_proof", "verify_batch"}
Bundles == [proof : Proofs, inputs : Inputs, network : Networks]
ASSUME RequestsAssumption ==
  /\ NoBundle \notin Bundles
  /\ Requests \subseteq [caller : Callers, method : Methods \cup {"estimate"},
                        items : Seq(Items), bundle : Bundles \cup {NoBundle}]
ASSUME NetworkAssumption ==
  /\ HasValue \subseteq BOOLEAN /\ HasEvents \subseteq BOOLEAN
  /\ MaxPolls \in Nat \ {0}
  /\ Faults \subseteq {"network", "limit", "other"}

VARIABLES
  asked,      \* the options of each call
  pc,         \* where it is
  tx,         \* the transaction it built
  polls,      \* how often it polled
  answer,     \* what it returned or threw
  sequence,   \* the sequence number of each account on the ledger
  mempool,    \* the transactions the network has accepted and not applied
  applying,   \* the transaction whose batch is running
  applied     \* the transactions on the ledger, with their outcomes

callVars == <<asked, pc, tx, polls, answer>>
netVars == <<sequence, mempool, applying, applied>>
clientVars == <<callVars, netVars>>
allVars == <<vars, clientVars>>

NoAnswer == [code |-> "none", verified |-> <<>>, ledger |-> 0]
Thrown(code) == [code |-> code, verified |-> <<>>, ledger |-> 0]
Returned(verified, l) == [code |-> "ok", verified |-> verified, ledger |-> l]

ClientInit ==
  /\ Init
  /\ asked = [c \in Calls |-> NoRequest]
  /\ pc = [c \in Calls |-> "idle"]
  /\ tx = [c \in Calls |-> NoTx]
  /\ polls = [c \in Calls |-> 0]
  /\ answer = [c \in Calls |-> NoAnswer]
  /\ sequence = [a \in Callers |-> 0]
  /\ mempool = {}
  /\ applying = NoTx
  /\ applied = {}

Ends(c, with) ==
  /\ pc' = [pc EXCEPT ![c] = "done"]
  /\ answer' = [answer EXCEPT ![c] = with]

-----------------------------------------------------------------------------
(* Errors. *)

\* CONTRACT_ERROR_CODES, for the errors that a verification answers.
ContractErrorCode ==
  [RateLimitExceeded |-> "RATE_LIMIT_EXCEEDED",
   ProofExpired |-> "PROOF_EXPIRED",
   CallerNotAllowed |-> "CALLER_NOT_ALLOWED",
   ContractPaused |-> "CONTRACT_PAUSED"]

\* A contract error is known by its number, anything else by words in its message.
ClassifyError(error) ==
  IF error \in DOMAIN ContractErrorCode THEN ContractErrorCode[error]
  ELSE IF error = "limit" THEN "RESOURCE_LIMIT_EXCEEDED"
  ELSE IF error = "network" THEN "NETWORK_ERROR"
  ELSE "CONTRACT_INVOCATION_FAILED"

-----------------------------------------------------------------------------
(* A call of the SDK. *)

\* Calldata goes before a bundle; a bundle's proof is formatted without an expiry
\* ledger; neither, or a batch without items, is refused.
ResolveCalldata(req) ==
  IF req.items # <<>> \/ req.bundle = NoBundle THEN req.items
  ELSE <<[proof |-> req.bundle.proof, inputs |-> req.bundle.inputs]>>

\* Fault: the network matters only when the bundle is what is submitted.
AssertBundleNetworkOfSubmitted(req) ==
  req.items = <<>> /\ req.bundle # NoBundle => req.bundle.network = Network

AssertBundleNetwork(req) == req.bundle # NoBundle => req.bundle.network = Network

\* The parts of a proof have their lengths; an item that is not WellSized stands for
\* any malformed one, the public signals of a bundle or of a batch included.
ValidateCalldata(items) ==
  items # <<>> /\ \A i \in DOMAIN items : items[i].proof \in WellSized

\* What is found wanting in the options: calldata before any request, with the code of
\* the part that is malformed, and the network after getNetwork.
Objections(req) ==
  IF ResolveCalldata(req) = <<>> THEN {"INVALID_PROOF_FORMAT"}
  ELSE IF ~ValidateCalldata(ResolveCalldata(req))
    THEN {"INVALID_PROOF_FORMAT", "INVALID_PUBLIC_INPUT"}
  ELSE IF ~AssertBundleNetwork(req) THEN {"NETWORK_MISMATCH"}
  ELSE {}

AskRefused(c) ==
  /\ pc[c] = "idle"
  /\ \E req \in Requests : \E code \in Objections(req) :
       /\ asked' = [asked EXCEPT ![c] = req]
       /\ Ends(c, Thrown(code))
  /\ UNCHANGED <<tx, polls, netVars, vars>>

\* reads, writes: the counter entries of its footprint, none before it is prepared.
Transaction(who, method, items, number, stamp, reads, writes) ==
  [caller |-> who, method |-> method, items |-> items, sequence |-> number,
   stamp |-> stamp, reads |-> reads, writes |-> writes]

\* getAccount, and a transaction under the account's next sequence number.
Built(c, method, contractMethod) ==
  /\ pc[c] = "idle"
  /\ \E req \in Requests, stamp \in Stamps :
       /\ req.method = method
       /\ ValidateCalldata(ResolveCalldata(req))
       /\ AssertBundleNetwork(req)
       /\ asked' = [asked EXCEPT ![c] = req]
       /\ tx' = [tx EXCEPT ![c] =
                Transaction(req.caller, contractMethod, ResolveCalldata(req),
                            sequence[req.caller] + 1, stamp, {}, {})]
  /\ pc' = [pc EXCEPT ![c] = "built"]
  /\ UNCHANGED <<polls, answer, netVars, vars>>

BuildProof(c) == Built(c, "verify_proof", "verify_proof")
BuildBatch(c) == Built(c, "verify_batch", "verify_batch")
BuildEstimate(c) == Built(c, "estimate", "verify_proof")

\* The store as each entry of a batch finds it.
StoresInBatch(s, who, items) ==
  LET before[n \in 1..Len(items)] ==
        IF n = 1 THEN s ELSE VerifyOne(before[n - 1], who, items[n - 1])
  IN before

\* What a run of the transaction on the present state comes to.
Simulated(t) ==
  IF t.method = "verify_proof" THEN Outcome(store, t.caller, t.items[1])
  ELSE IF paused THEN "ContractPaused"
  ELSE IF \E n \in 1..Len(t.items) :
            Outcome(StoresInBatch(store, t.caller, t.items)[n], t.caller, t.items[n]) \in Fatal
    THEN "trap"
  ELSE "true"

\* Fault: the dry run goes on like the call it imitates.
EstimateFeeSubmits(c) ==
  /\ pc[c] = "built" /\ asked[c].method = "estimate"
  /\ Simulated(tx[c]) \in {"true", "false"}
  /\ pc' = [pc EXCEPT ![c] = "signed"]
  /\ UNCHANGED <<asked, tx, polls, answer, netVars, vars>>

\* simulateTransaction: its error, or the sum of the fees, and nothing is sent.
EstimateFee(c) ==
  /\ pc[c] = "built" /\ asked[c].method = "estimate"
  /\ Ends(c, IF Simulated(tx[c]) \in {"true", "false"} THEN Thrown("estimated")
             ELSE Thrown(ClassifyError(Simulated(tx[c]))))
  /\ UNCHANGED <<asked, tx, polls, netVars, vars>>

\* prepareTransaction: the simulation's error, or the transaction with the
\* counter entries that the simulation read and wrote as its footprint.
Prepare(c) ==
  LET t == tx[c]
  IN
  /\ pc[c] = "built" /\ asked[c].method # "estimate"
  /\ IF Simulated(t) \in {"true", "false"}
       THEN /\ tx' = [tx EXCEPT ![c] =
                 Transaction(t.caller, t.method, t.items, t.sequence, t.stamp,
                             IF Admitted(t.caller) THEN {Start} ELSE {},
                             IF Gate(store, t.caller) = "open" THEN {Start} ELSE {})]
            /\ pc' = [pc EXCEPT ![c] = "signed"]
            /\ UNCHANGED answer
       ELSE /\ Ends(c, Thrown(ClassifyError(Simulated(t))))
            /\ UNCHANGED tx
  /\ UNCHANGED <<asked, polls, netVars, vars>>

\* How the network takes a transaction: a node holds one pending transaction for
\* an account, and may be too busy for any.
Reception(t) ==
  IF t \in mempool THEN {"DUPLICATE"}
  ELSE IF t.sequence # sequence[t.caller] + 1 THEN {"ERROR"}
  ELSE IF \E u \in mempool : u.caller = t.caller THEN {"TRY_AGAIN_LATER"}
  ELSE {"PENDING", "TRY_AGAIN_LATER"}

Arrives(t, status) ==
  /\ status \in Reception(t)
  /\ mempool' = IF status = "PENDING" THEN mempool \cup {t} ELSE mempool
  /\ UNCHANGED <<sequence, applying, applied>>

\* sendTransaction, and the check of its status.
Send(c) ==
  /\ pc[c] = "signed"
  /\ \E status \in {"PENDING", "DUPLICATE", "TRY_AGAIN_LATER", "ERROR"} :
       /\ Arrives(tx[c], status)
       /\ IF status \in {"PENDING", "DUPLICATE"}
            THEN /\ pc' = [pc EXCEPT ![c] = "polling"]
                 /\ UNCHANGED answer
            ELSE Ends(c, Thrown("TRANSACTION_REJECTED"))
  /\ UNCHANGED <<asked, tx, polls, vars>>

\* The transaction arrives and the answer to sendTransaction does not.
SendAnswerLost(c) ==
  /\ pc[c] = "signed"
  /\ \E status \in Reception(tx[c]) : Arrives(tx[c], status)
  /\ \E fault \in Faults : Ends(c, Thrown(ClassifyError(fault)))
  /\ UNCHANGED <<asked, tx, polls, vars>>

\* Any other request throws: nothing is retried.
RequestFails(c) ==
  /\ pc[c] \in {"built", "signed", "polling"}
  /\ \E fault \in Faults : Ends(c, Thrown(ClassifyError(fault)))
  /\ UNCHANGED <<asked, tx, polls, netVars, vars>>

\* Fault: a transaction not found is taken for a failed one.
PollNotFoundRejects(c) ==
  /\ pc[c] = "polling"
  /\ polls[c] < MaxPolls
  /\ Ends(c, Thrown("TRANSACTION_REJECTED"))
  /\ UNCHANGED <<asked, tx, polls, netVars, vars>>

\* Fault: the deadline moves with every poll.
PollNotFoundForever(c) ==
  /\ pc[c] = "polling"
  /\ polls[c] < MaxPolls
  /\ polls' = [polls EXCEPT ![c] = 1 - @]
  /\ UNCHANGED <<asked, pc, tx, answer, netVars, vars>>

\* Fault: there is no deadline.
PollNotFoundNoDeadline(c) ==
  /\ pc[c] = "polling"
  /\ polls' = [polls EXCEPT ![c] = @ + 1]
  /\ UNCHANGED <<asked, pc, tx, answer, netVars, vars>>

\* getTransaction answers NOT_FOUND: the transaction is pending or dropped, or the
\* RPC node has not seen its ledger yet.
PollNotFound(c) ==
  /\ pc[c] = "polling"
  /\ polls[c] < MaxPolls
  /\ polls' = [polls EXCEPT ![c] = @ + 1]
  /\ UNCHANGED <<asked, pc, tx, answer, netVars, vars>>

\* Fault: a call that timed out submits once more, under a fresh sequence number.
PollTimesOutRebuilds(c) ==
  /\ pc[c] = "polling"
  /\ polls[c] > 0
  /\ pc' = [pc EXCEPT ![c] = "idle"]
  /\ polls' = [polls EXCEPT ![c] = 0]
  /\ UNCHANGED <<asked, tx, answer, netVars, vars>>

\* The deadline has passed after a poll that found nothing.
PollTimesOut(c) ==
  /\ pc[c] = "polling"
  /\ polls[c] > 0
  /\ Ends(c, Thrown("NETWORK_ERROR"))
  /\ UNCHANGED <<asked, tx, polls, netVars, vars>>

\* Fault: a value that is in neither place is taken for false.
DecodeVerifyReturnValueCoerces(found, value, diagnostics) ==
  IF value \/ diagnostics THEN found ELSE <<FALSE>>

\* The return value, or else the one in the diagnostic events, or else none.
DecodeVerifyReturnValue(found, value, diagnostics) ==
  IF value \/ diagnostics THEN found ELSE <<>>

\* The vector in the diagnostic events, or else an empty one.
DecodeBoolArray(found, diagnostics) == IF diagnostics THEN found ELSE <<>>

\* getTransaction answers with the outcome a on the ledger.
PollFinds(c, a, method) ==
  /\ pc[c] = "polling"
  /\ polls[c] < MaxPolls
  /\ a.tx = tx[c]
  /\ tx[c].method = method
  /\ UNCHANGED <<asked, tx, polls, netVars, vars>>

PollProofFound(c) ==
  \E a \in applied, value \in HasValue, diagnostics \in HasEvents :
    LET verified == DecodeVerifyReturnValue(a.results, value, diagnostics)
    IN
    /\ PollFinds(c, a, "verify_proof")
    /\ Ends(c, IF a.status = "failed" THEN Thrown("TRANSACTION_REJECTED")
               ELSE IF verified = <<>> THEN Thrown("CONTRACT_INVOCATION_FAILED")
               ELSE Returned(verified, a.ledger))

PollBatchFound(c) ==
  \E a \in applied, diagnostics \in HasEvents :
    /\ PollFinds(c, a, "verify_batch")
    /\ Ends(c, IF a.status = "failed" THEN Thrown("TRANSACTION_REJECTED")
               ELSE Returned(DecodeBoolArray(a.results, diagnostics), a.ledger))

CallStep(c) ==
  \/ AskRefused(c)
  \/ BuildProof(c)
  \/ BuildBatch(c)
  \/ BuildEstimate(c)
  \/ EstimateFee(c)
  \/ Prepare(c)
  \/ Send(c)
  \/ SendAnswerLost(c)
  \/ RequestFails(c)
  \/ PollNotFound(c)
  \/ PollTimesOut(c)
  \/ PollProofFound(c)
  \/ PollBatchFound(c)

-----------------------------------------------------------------------------
(* The network applies what it accepted. *)

Outcomes(t, status, res) == [tx |-> t, status |-> status, results |-> res, ledger |-> ledger]

\* Its sequence number is used, whatever the contract answers.
Leaves(t) ==
  /\ t \in mempool
  /\ mempool' = mempool \ {t}
  /\ sequence' = [sequence EXCEPT ![t.caller] = @ + 1]

\* The run stays within the footprint the simulation found.
Fits(t) ==
  /\ Admitted(t.caller) => Start \in t.reads
  /\ Gate(store, t.caller) = "open" => Start \in t.writes

ApplyProof(t) ==
  /\ t.method = "verify_proof"
  /\ Leaves(t)
  /\ Fits(t)
  /\ VerifyProof(t.caller, t.items[1])
  /\ applied' = applied \cup
       {Outcomes(t, "ok", <<Outcome(store, t.caller, t.items[1]) = "true">>)}
  /\ UNCHANGED <<applying, callVars>>

\* The contract answers Err or panics, the run leaves its footprint or exceeds the
\* resources that the simulation found.
ApplyFails(t) ==
  /\ Idle
  /\ Leaves(t)
  /\ applied' = applied \cup {Outcomes(t, "failed", <<>>)}
  /\ UNCHANGED <<applying, callVars, vars>>

ApplyBatch(t) ==
  /\ t.method = "verify_batch"
  /\ Leaves(t)
  /\ Fits(t)
  /\ BatchBegin(t.caller, t.items)
  /\ applying' = t
  /\ UNCHANGED <<applied, callVars>>

ApplyBatchEntry == BatchEntry /\ UNCHANGED clientVars

ApplyBatchReturn ==
  /\ BatchReturn
  /\ applied' = applied \cup {Outcomes(applying, "ok", results)}
  /\ applying' = NoTx
  /\ UNCHANGED <<sequence, mempool, callVars>>

ApplyBatchAborts ==
  /\ BatchFails \/ BatchOutOfBudget
  /\ applied' = applied \cup {Outcomes(applying, "failed", <<>>)}
  /\ applying' = NoTx
  /\ UNCHANGED <<sequence, mempool, callVars>>

\* A transaction outlives its time bounds, or is forgotten.
Drop(t) ==
  /\ t \in mempool
  /\ mempool' = mempool \ {t}
  /\ UNCHANGED <<sequence, applying, applied, callVars, vars>>

NetworkStep ==
  \/ \E t \in mempool : ApplyProof(t) \/ ApplyBatch(t) \/ ApplyFails(t) \/ Drop(t)
  \/ ApplyBatchEntry
  \/ ApplyBatchReturn
  \/ ApplyBatchAborts

\* The contract's admin and the passing of ledgers.
ContractStep ==
  /\ (\E auth \in Accounts : AdminStep(auth)) \/ AdvanceLedger
  /\ UNCHANGED clientVars

ClientNext == (\E c \in Calls : CallStep(c)) \/ NetworkStep \/ ContractStep

\* The event loop runs every continuation, and every request is answered or throws.
Fairness == \A c \in Calls : WF_allVars(CallStep(c))

ClientSpec == ClientInit /\ [][ClientNext]_allVars /\ Fairness

-----------------------------------------------------------------------------
TxTypes ==
  [caller : Callers, method : Methods, items : Seq(Items), sequence : Nat,
   stamp : Stamps, reads : SUBSET WindowStarts, writes : SUBSET WindowStarts]
ASSUME NoTxAssumption == NoTx \notin TxTypes
Refusals ==
  {"TRANSACTION_REJECTED", "INVALID_PROOF_FORMAT", "INVALID_PUBLIC_INPUT", "NETWORK_MISMATCH"} \cup
  {ContractErrorCode[e] : e \in DOMAIN ContractErrorCode}
AnswerCodes ==
  Refusals \cup {"none", "ok", "estimated", "NETWORK_ERROR", "RESOURCE_LIMIT_EXCEEDED",
               "CONTRACT_INVOCATION_FAILED"}

ClientTypeOK ==
  /\ TypeOK
  /\ asked \in [Calls -> Requests \cup {NoRequest}]
  /\ pc \in [Calls -> {"idle", "built", "signed", "polling", "done"}]
  /\ tx \in [Calls -> TxTypes \cup {NoTx}]
  /\ polls \in [Calls -> 0..MaxPolls]
  /\ answer \in [Calls -> [code : AnswerCodes, verified : Seq(BOOLEAN), ledger : WindowStarts]]
  /\ sequence \in [Callers -> Nat]
  /\ mempool \subseteq TxTypes
  /\ applying \in TxTypes \cup {NoTx} /\ (running <=> applying # NoTx)
  /\ \A a \in applied : a.tx \in TxTypes /\ a.status \in {"ok", "failed"}

\* What a call returns as verified is what the contract answered to its own
\* transaction: a missing value is never told as a rejection, and the state the
\* simulation saw never stands for the state the ledger applied it to.
TruthfulAnswer ==
  \A c \in Calls : \A i \in DOMAIN answer[c].verified :
    \E a \in applied :
      /\ a.tx = tx[c] /\ a.status = "ok" /\ a.ledger = answer[c].ledger
      /\ a.results[i] = answer[c].verified[i]
      /\ a.results[i] => a.ledger <= a.tx.items[i].inputs[2]

\* A call that throws TRANSACTION_REJECTED or a contract error has charged the
\* account nothing and never will: of the errors a caller may get, these are the
\* ones after which trying again cannot verify a proof twice.  (Two calls whose
\* transactions are equal to the last byte share one outcome.)
RefusedHasNoEffect ==
  \A c \in Calls :
    (answer[c].code \in Refusals /\ \A d \in Calls \ {c} : tx[d] # tx[c])
      => /\ tx[c] \notin (mempool \cup {applying}) \ {NoTx}
         /\ \A a \in applied : a.tx = tx[c] => a.status = "failed"

\* Whatever is on the ledger or on its way to it is the one transaction of a call
\* that submits: no call is charged for two attempts, whatever it was told of the
\* first, and an estimate sends nothing.  What the transaction proves is what that
\* call was given, and a bundle among its options, submitted or not, is for this
\* network (verify.ts:206-225, 227-328, 493-542).
OneTransactionPerCall ==
  \A t \in mempool \cup {a.tx : a \in applied} :
    \E c \in Calls :
      /\ tx[c] = t
      /\ asked[c].method = t.method
      /\ \/ t.items = asked[c].items
         \/ asked[c].items = <<>> /\ t.items[1].proof = asked[c].bundle.proof
      /\ asked[c].bundle # NoBundle => asked[c].bundle.network = Network

\* Every call ends: it returns, or it throws when the polling deadline has passed,
\* whether or not the network ever applies the transaction.
EveryCallEnds == \A c \in Calls : (pc[c] # "idle") ~> (pc[c] = "done")

\* What the tutorial says a run of the demo prints: a fresh bundle of this network,
\* with a genuine proof and the circuit's public signals, that verifyOnChain submits
\* to a running contract and gets an answer for, is verified.
BundleVerifies ==
  \A c \in Calls :
    (answer[c].code = "ok" /\ asked[c].items = <<>> /\ asked[c].bundle # NoBundle
      /\ Len(asked[c].bundle.inputs) = EXPECTED_PUBLIC_INPUT_COUNT - 1
      /\ Pairing[vk, asked[c].bundle.proof, asked[c].bundle.inputs[1]] = "accept")
    => answer[c].verified = <<TRUE>>

\* What the doc of VerifyBatchResult says: verified[i] corresponds to items[i].
\* So a batch that returns has an answer for every item.
AnswerForEveryItem ==
  \A c \in Calls :
    answer[c].code = "ok" => Len(answer[c].verified) = Len(tx[c].items)

=============================================================================
