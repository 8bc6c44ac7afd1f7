------------------------- MODULE VerifyClientProofs -------------------------
(* Theorems about VerifyClient, for every value of its constants: how many    *)
(* calls race, what they ask for, how long the batches are, and what the      *)
(* network loses.                                                             *)
EXTENDS VerifyClient, VerifierProofs

-----------------------------------------------------------------------------
(* The inductive invariant. *)

Places == {"idle", "built", "signed", "polling", "done"}

\* A transaction that the contract can be run on.
Runnable(t) ==
  /\ t.caller \in Callers
  /\ t.items \in Seq(Items)
  /\ t.items # <<>>
  /\ t.sequence \in Nat

\* The transaction carries out what was asked for.
CarriesOut(t, req) ==
  /\ req.method = t.method
  /\ t.items = req.items \/ (req.items = <<>> /\ t.items[1].proof = req.bundle.proof)
  /\ req.bundle # NoBundle => req.bundle.network = Network

Progress(where, req, t, told) ==
  /\ where \in Places
  /\ where \in {"built", "signed", "polling"} => Runnable(t)
  /\ where = "built" => (CarriesOut(t, req) \/ req.method = "estimate")
  /\ where \in {"signed", "polling"} => CarriesOut(t, req)
  /\ where # "done" => told = NoAnswer
CallsInv ==
  /\ DOMAIN asked = Calls /\ DOMAIN pc = Calls /\ DOMAIN tx = Calls /\ DOMAIN answer = Calls
  /\ \A c \in Calls : Progress(pc[c], asked[c], tx[c], answer[c])

\* A call has got as far as to submit t, whatever it was told of it.
Sent(t) == \E c \in Calls : pc[c] \in {"polling", "done"} /\ tx[c] = t /\ CarriesOut(t, asked[c])

\* What is pending is next in its account's sequence, what is applied is in the past.
LedgerInv ==
  /\ ledger \in Nat /\ running \in BOOLEAN
  /\ sequence \in [Callers -> Nat]
  /\ ~running => applying = NoTx
  /\ \A t \in mempool : Runnable(t) /\ t.sequence = sequence[t.caller] + 1
  /\ \A t, u \in mempool : t.caller = u.caller => t = u
  /\ running => /\ Runnable(applying)
                /\ applying.sequence <= sequence[applying.caller]
                /\ \A a \in applied : a.tx # applying
  /\ \A a \in applied : /\ Runnable(a.tx)
                        /\ a.tx.sequence <= sequence[a.tx.caller]
                        /\ a.status \in {"ok", "failed"}
  /\ \A a, b \in applied : a.tx = b.tx => a.status = b.status
SentInv ==
  /\ \A t \in mempool : Sent(t)
  /\ running => Sent(applying)
  /\ \A a \in applied : Sent(a.tx)

\* No success is older than the proof's expiry.
Timely(l, items, res) == \A i \in DOMAIN res : res[i] => l <= items[i].inputs[2]
TimelyInv ==
  /\ running => /\ batch = applying.items
                /\ results \in Seq(BOOLEAN)
                /\ Timely(ledger, batch, results)
  /\ \A a \in applied : Timely(a.ledger, a.tx.items, a.results)

\* Another call has submitted the same transaction.
Twin(c) == \E d \in Calls : d # c /\ pc[d] \in {"polling", "done"} /\ tx[d] = tx[c]
\* The transaction of the call is not on its way, and has charged nothing.
Gone(c) ==
  /\ tx[c] \notin mempool
  /\ running => applying # tx[c]
  /\ \A a \in applied : a.tx = tx[c] => a.status = "failed"
Reported(t, told) ==
  told.verified # <<>> =>
    \E a \in applied : /\ a.tx = t /\ a.status = "ok"
                       /\ a.ledger = told.ledger /\ a.results = told.verified
AnswersInv ==
  \A c \in Calls : /\ answer[c].code \in Refusals => Twin(c) \/ Gone(c)
                   /\ Reported(tx[c], answer[c])

ClientInv == CallsInv /\ LedgerInv /\ SentInv /\ TimelyInv /\ AnswersInv

-----------------------------------------------------------------------------
(* What the steps of a call have in common. *)

\* No step of a call touches the ledger or another call.
OtherCallsStay(c) ==
  /\ ledger' = ledger /\ running' = running /\ batch' = batch /\ results' = results
  /\ sequence' = sequence /\ applying' = applying /\ applied' = applied
  /\ DOMAIN asked' = Calls /\ DOMAIN pc' = Calls /\ DOMAIN tx' = Calls /\ DOMAIN answer' = Calls
  /\ \A d \in Calls : d # c => /\ asked'[d] = asked[d] /\ pc'[d] = pc[d]
                              /\ tx'[d] = tx[d] /\ answer'[d] = answer[d]

\* A call that gets its transaction, or has it signed.
GetsTransaction(c) ==
  /\ (pc[c] = "idle" /\ pc'[c] = "built") \/ (pc[c] = "built" /\ pc'[c] = "signed")
  /\ Runnable(tx'[c])
  /\ CarriesOut(tx'[c], asked'[c]) \/ (pc'[c] = "built" /\ asked'[c].method = "estimate")
  /\ answer'[c] = answer[c] /\ mempool' = mempool
\* A call that ends before it has submitted anything.
EndsUnsent(c) ==
  /\ pc[c] \in {"idle", "built", "signed"} /\ pc'[c] = "done"
  /\ tx'[c] = tx[c] /\ mempool' = mempool
  /\ answer'[c].verified = <<>>
\* The transaction arrives, and the call may learn that it did.
Sends(c) ==
  /\ pc[c] = "signed" /\ pc'[c] \in {"polling", "done"}
  /\ asked'[c] = asked[c] /\ tx'[c] = tx[c]
  /\ \/ mempool' = mempool
     \/ mempool' = mempool \cup {tx[c]} /\ "PENDING" \in Reception(tx[c])
  /\ IF pc'[c] = "polling" THEN answer'[c] = answer[c]
     ELSE answer'[c].verified = <<>> /\ answer'[c].code \notin Refusals
\* A call that goes on polling, or ends without knowing what became of it.
LearnsNothing(c) ==
  /\ pc[c] = "polling" /\ pc'[c] \in {"polling", "done"}
  /\ asked'[c] = asked[c] /\ tx'[c] = tx[c] /\ mempool' = mempool
  /\ IF pc'[c] = "polling" THEN answer'[c] = answer[c]
     ELSE answer'[c].verified = <<>> /\ answer'[c].code \notin Refusals
LearnsOutcome(c) ==
  /\ pc[c] = "polling" /\ pc'[c] = "done"
  /\ asked'[c] = asked[c] /\ tx'[c] = tx[c] /\ mempool' = mempool
  /\ \E a \in applied :
       /\ a.tx = tx[c]
       /\ answer'[c].code \in Refusals => a.status = "failed"
       /\ answer'[c].verified # <<>> =>
            /\ a.status = "ok" /\ a.ledger = answer'[c].ledger
            /\ a.results = answer'[c].verified

CallMoves(c) ==
  /\ OtherCallsStay(c)
  /\ \/ GetsTransaction(c)
     \/ EndsUnsent(c)
     \/ Sends(c)
     \/ LearnsNothing(c)
     \/ LearnsOutcome(c)

\* No fault of an RPC request is told as a refusal.
LEMMA FaultsAreNoRefusals ==
  /\ \A fault \in Faults : ClassifyError(fault) \notin Refusals
  /\ {"none", "ok", "NETWORK_ERROR", "CONTRACT_INVOCATION_FAILED"} \cap Refusals = {}
  /\ "TRANSACTION_REJECTED" \in Refusals
<1>1. Refusals = {"TRANSACTION_REJECTED", "INVALID_PROOF_FORMAT", "INVALID_PUBLIC_INPUT",
                  "NETWORK_MISMATCH",
                  "RATE_LIMIT_EXCEEDED", "PROOF_EXPIRED", "CALLER_NOT_ALLOWED",
                  "CONTRACT_PAUSED"}
  BY DEF Refusals, ContractErrorCode
<1>2. \A fault \in Faults : fault \in {"network", "limit", "other"}
  BY NetworkAssumption
<1>3. \A fault \in {"network", "limit", "other"} :
        ClassifyError(fault) \in {"RESOURCE_LIMIT_EXCEEDED", "NETWORK_ERROR",
                                  "CONTRACT_INVOCATION_FAILED"}
  BY DEF ClassifyError, ContractErrorCode
<1> QED BY <1>1, <1>2, <1>3

\* What resolveCalldata lets through can be run, and is what was asked for.
LEMMA ResolvedRuns ==
  ASSUME NEW req \in Requests, ValidateCalldata(ResolveCalldata(req)),
         AssertBundleNetwork(req)
  PROVE  /\ req.caller \in Callers
         /\ ResolveCalldata(req) \in Seq(Items) /\ ResolveCalldata(req) # <<>>
         /\ \/ ResolveCalldata(req) = req.items
            \/ req.items = <<>> /\ ResolveCalldata(req)[1].proof = req.bundle.proof
         /\ req.bundle # NoBundle => req.bundle.network = Network
<1>1. /\ req.caller \in Callers /\ req.items \in Seq(Items)
      /\ req.bundle # NoBundle => req.bundle \in Bundles
  BY RequestsAssumption
<1>2. ResolveCalldata(req) # <<>>
  BY DEF ValidateCalldata
<1>3. CASE req.items # <<>> \/ req.bundle = NoBundle
  BY <1>1, <1>2, <1>3 DEF ResolveCalldata, AssertBundleNetwork
<1>4. CASE req.items = <<>> /\ req.bundle # NoBundle
  <2> DEFINE item == [proof |-> req.bundle.proof, inputs |-> req.bundle.inputs]
  <2>1. ResolveCalldata(req) = <<item>>
    BY <1>4 DEF ResolveCalldata
  <2>2. item \in Items /\ item.proof = req.bundle.proof
    BY <1>1, <1>4 DEF Bundles, Items
  <2> HIDE DEF item
  <2>3. <<item>> \in Seq(Items) /\ <<item>>[1] = item
    BY <2>2
  <2> QED BY <1>1, <1>2, <1>4, <2>1, <2>2, <2>3 DEF AssertBundleNetwork
<1> QED BY <1>3, <1>4

LEMMA CallStepKinds ==
  ASSUME CallsInv, LedgerInv, NEW c \in Calls, CallStep(c)
  PROVE  CallMoves(c)
<1>0. /\ DOMAIN asked = Calls /\ DOMAIN pc = Calls /\ DOMAIN tx = Calls
      /\ DOMAIN answer = Calls
  BY DEF CallsInv
<1>p. Progress(pc[c], asked[c], tx[c], answer[c])
  BY DEF CallsInv
<1>c. \A code : Thrown(code).verified = <<>> /\ Thrown(code).code = code
  BY DEF Thrown
<1>1. CASE AskRefused(c)
  <2>1. OtherCallsStay(c)
    BY <1>0, <1>1 DEF AskRefused, Ends, vars, netVars, OtherCallsStay, adminVars, batchVars
  <2>2. EndsUnsent(c)
    BY <1>0, <1>1, <1>c DEF AskRefused, Ends, netVars, EndsUnsent
  <2> QED BY <2>1, <2>2 DEF CallMoves
<1>2. ASSUME NEW method, NEW contractMethod, Built(c, method, contractMethod),
             method = contractMethod \/ method = "estimate"
      PROVE  CallMoves(c)
  <2>1. OtherCallsStay(c)
    BY <1>0, <1>2 DEF Built, vars, netVars, OtherCallsStay, batchVars
  <2>2. PICK req \in Requests, stamp \in Stamps :
          /\ req.method = method
          /\ ValidateCalldata(ResolveCalldata(req)) /\ AssertBundleNetwork(req)
          /\ asked'[c] = req
          /\ tx'[c] = Transaction(req.caller, contractMethod, ResolveCalldata(req),
                                  sequence[req.caller] + 1, stamp, {}, {})
    BY <1>0, <1>2 DEF Built
  <2>3. /\ tx'[c].caller = req.caller /\ tx'[c].method = contractMethod
        /\ tx'[c].items = ResolveCalldata(req)
        /\ tx'[c].sequence = sequence[req.caller] + 1
    BY <2>2 DEF Transaction
  <2>4. sequence[req.caller] + 1 \in Nat
    BY <2>2, ResolvedRuns DEF LedgerInv
  <2>5. Runnable(tx'[c])
    BY <2>2, <2>3, <2>4, ResolvedRuns DEF Runnable
  <2>6. CarriesOut(tx'[c], asked'[c]) \/ asked'[c].method = "estimate"
    BY <1>2, <2>2, <2>3, ResolvedRuns DEF CarriesOut
  <2>7. pc[c] = "idle" /\ pc'[c] = "built" /\ answer' = answer /\ mempool' = mempool
    BY <1>0, <1>2 DEF Built, netVars
  <2> QED BY <2>1, <2>5, <2>6, <2>7 DEF CallMoves, GetsTransaction
<1>3. CASE EstimateFee(c)
  <2>1. OtherCallsStay(c)
    BY <1>0, <1>3 DEF EstimateFee, Ends, vars, netVars, OtherCallsStay, batchVars
  <2>2. EndsUnsent(c)
    BY <1>0, <1>3, <1>c DEF EstimateFee, Ends, netVars, EndsUnsent
  <2> QED BY <2>1, <2>2 DEF CallMoves
<1>4. CASE Prepare(c)
  <2>1. OtherCallsStay(c)
    BY <1>0, <1>4 DEF Prepare, Ends, vars, netVars, OtherCallsStay, batchVars
  <2>2. CASE Simulated(tx[c]) \in {"true", "false"}
    <3>1. PICK reads, writes :
            tx'[c] = Transaction(tx[c].caller, tx[c].method, tx[c].items, tx[c].sequence,
                                 tx[c].stamp, reads, writes)
      BY <1>0, <1>4, <2>2 DEF Prepare
    <3>2. /\ tx'[c].caller = tx[c].caller /\ tx'[c].method = tx[c].method
          /\ tx'[c].items = tx[c].items /\ tx'[c].sequence = tx[c].sequence
      BY <3>1 DEF Transaction
    <3>3. /\ pc[c] = "built" /\ pc'[c] = "signed" /\ asked' = asked
          /\ asked[c].method # "estimate"
          /\ answer' = answer /\ mempool' = mempool
      BY <1>0, <1>4, <2>2 DEF Prepare, netVars
    <3>4. Runnable(tx[c]) /\ CarriesOut(tx[c], asked[c])
      BY <1>p, <3>3 DEF Progress
    <3> QED BY <2>1, <3>2, <3>3, <3>4 DEF CallMoves, GetsTransaction, Runnable, CarriesOut
  <2>3. CASE Simulated(tx[c]) \notin {"true", "false"}
    BY <1>0, <1>4, <1>c, <2>1, <2>3 DEF Prepare, Ends, netVars, CallMoves, EndsUnsent
  <2> QED BY <2>2, <2>3
<1>5. CASE Send(c)
  <2>1. OtherCallsStay(c)
    BY <1>0, <1>5 DEF Send, Arrives, Ends, vars, OtherCallsStay, batchVars
  <2>2. PICK status \in {"PENDING", "DUPLICATE", "TRY_AGAIN_LATER", "ERROR"} :
          /\ Arrives(tx[c], status)
          /\ IF status \in {"PENDING", "DUPLICATE"}
               THEN pc' = [pc EXCEPT ![c] = "polling"] /\ UNCHANGED answer
               ELSE Ends(c, Thrown("TRANSACTION_REJECTED"))
    BY <1>5 DEF Send
  <2>3. pc[c] = "signed" /\ asked' = asked /\ tx' = tx
    BY <1>5 DEF Send
  <2>4. CASE status \in {"PENDING", "DUPLICATE"}
    BY <1>0, <2>1, <2>2, <2>3, <2>4 DEF Arrives, CallMoves, Sends
  <2>5. CASE status \notin {"PENDING", "DUPLICATE"}
    BY <1>0, <1>c, <2>1, <2>2, <2>3, <2>5 DEF Arrives, Ends, CallMoves, EndsUnsent
  <2> QED BY <2>4, <2>5
<1>6. CASE SendAnswerLost(c)
  <2>1. OtherCallsStay(c)
    BY <1>0, <1>6 DEF SendAnswerLost, Arrives, Ends, vars, OtherCallsStay, batchVars
  <2>2. PICK status \in Reception(tx[c]), fault \in Faults :
          Arrives(tx[c], status) /\ Ends(c, Thrown(ClassifyError(fault)))
    BY <1>6 DEF SendAnswerLost
  <2>3. answer'[c].verified = <<>> /\ answer'[c].code \notin Refusals /\ pc'[c] = "done"
    BY <1>0, <1>c, <2>2, FaultsAreNoRefusals DEF Ends
  <2> QED BY <1>6, <2>1, <2>2, <2>3 DEF SendAnswerLost, Arrives, CallMoves, Sends
<1>7. CASE RequestFails(c)
  <2>1. OtherCallsStay(c)
    BY <1>0, <1>7 DEF RequestFails, Ends, vars, netVars, OtherCallsStay, batchVars
  <2>2. PICK fault \in Faults : Ends(c, Thrown(ClassifyError(fault)))
    BY <1>7 DEF RequestFails
  <2>3. answer'[c].verified = <<>> /\ answer'[c].code \notin Refusals /\ pc'[c] = "done"
    BY <1>0, <1>c, <2>2, FaultsAreNoRefusals DEF Ends
  <2> QED BY <1>7, <2>1, <2>3 DEF RequestFails, netVars, CallMoves, EndsUnsent, LearnsNothing
<1>8. CASE PollNotFound(c)
  BY <1>0, <1>8 DEF PollNotFound, vars, netVars, OtherCallsStay, batchVars, CallMoves,
                    LearnsNothing
<1>9. CASE PollTimesOut(c)
  <2>1. OtherCallsStay(c)
    BY <1>0, <1>9 DEF PollTimesOut, Ends, vars, netVars, OtherCallsStay, batchVars
  <2>2. answer'[c].verified = <<>> /\ answer'[c].code \notin Refusals /\ pc'[c] = "done"
    BY <1>0, <1>9, <1>c, FaultsAreNoRefusals DEF PollTimesOut, Ends
  <2> QED BY <1>9, <2>1, <2>2 DEF PollTimesOut, netVars, CallMoves, LearnsNothing
<1>10. ASSUME NEW a \in applied, NEW method, PollFinds(c, a, method), NEW found,
              found = a.results \/ found = <<>>,
              \/ Ends(c, IF a.status = "failed" THEN Thrown("TRANSACTION_REJECTED")
                         ELSE Returned(found, a.ledger))
              \/ found = <<>> /\
                 Ends(c, IF a.status = "failed" THEN Thrown("TRANSACTION_REJECTED")
                         ELSE Thrown("CONTRACT_INVOCATION_FAILED"))
       PROVE  CallMoves(c)
  <2>1. OtherCallsStay(c)
    BY <1>0, <1>10 DEF PollFinds, Ends, vars, netVars, OtherCallsStay, batchVars
  <2>2. a.status \in {"ok", "failed"}
    BY <1>10 DEF LedgerInv
  <2>3. /\ pc[c] = "polling" /\ pc'[c] = "done" /\ asked' = asked /\ tx' = tx
        /\ mempool' = mempool /\ a.tx = tx[c]
    BY <1>0, <1>10 DEF PollFinds, Ends, netVars
  <2>4. answer'[c] \in {Thrown("TRANSACTION_REJECTED"), Returned(found, a.ledger),
                        Thrown("CONTRACT_INVOCATION_FAILED")}
        /\ (answer'[c] # Thrown("TRANSACTION_REJECTED") => a.status = "ok")
        /\ (answer'[c] = Thrown("TRANSACTION_REJECTED") => a.status = "failed")
    <3>1. Thrown("TRANSACTION_REJECTED") # Thrown("CONTRACT_INVOCATION_FAILED")
      BY <1>c
    <3>2. Thrown("TRANSACTION_REJECTED") # Returned(found, a.ledger)
      BY DEF Thrown, Returned
    <3> QED BY <1>0, <1>10, <2>2, <3>1, <3>2 DEF Ends
  <2>5. /\ Returned(found, a.ledger).code = "ok"
        /\ Returned(found, a.ledger).verified = found
        /\ Returned(found, a.ledger).ledger = a.ledger
    BY DEF Returned
  <2>6. /\ answer'[c].code \in Refusals => a.status = "failed"
        /\ answer'[c].verified # <<>> =>
             /\ a.status = "ok" /\ a.ledger = answer'[c].ledger
             /\ a.results = answer'[c].verified
    BY <1>10, <1>c, <2>4, <2>5, FaultsAreNoRefusals
  <2> QED BY <2>1, <2>3, <2>6 DEF CallMoves, LearnsOutcome
<1>11. CASE PollProofFound(c)
  <2>1. PICK a \in applied, value \in HasValue, diagnostics \in HasEvents :
          /\ PollFinds(c, a, "verify_proof")
          /\ Ends(c, IF a.status = "failed" THEN Thrown("TRANSACTION_REJECTED")
                     ELSE IF DecodeVerifyReturnValue(a.results, value, diagnostics) = <<>>
                       THEN Thrown("CONTRACT_INVOCATION_FAILED")
                     ELSE Returned(DecodeVerifyReturnValue(a.results, value, diagnostics),
                                   a.ledger))
    BY <1>11 DEF PollProofFound
  <2> DEFINE found == DecodeVerifyReturnValue(a.results, value, diagnostics)
  <2>2. found = a.results \/ found = <<>>
    BY DEF DecodeVerifyReturnValue
  <2> HIDE DEF found
  <2>3. CASE found = <<>>
    <3>1. Ends(c, IF a.status = "failed" THEN Thrown("TRANSACTION_REJECTED")
                  ELSE Thrown("CONTRACT_INVOCATION_FAILED"))
      BY <2>1, <2>3 DEF found
    <3> QED BY <1>10, <2>1, <2>2, <2>3, <3>1
  <2>4. CASE found # <<>>
    <3>1. Ends(c, IF a.status = "failed" THEN Thrown("TRANSACTION_REJECTED")
                  ELSE Returned(found, a.ledger))
      BY <2>1, <2>4 DEF found
    <3> QED BY <1>10, <2>1, <2>2, <3>1
  <2> QED BY <2>3, <2>4
<1>12. CASE PollBatchFound(c)
  <2>1. PICK a \in applied, diagnostics \in HasEvents :
          /\ PollFinds(c, a, "verify_batch")
          /\ Ends(c, IF a.status = "failed" THEN Thrown("TRANSACTION_REJECTED")
                     ELSE Returned(DecodeBoolArray(a.results, diagnostics), a.ledger))
    BY <1>12 DEF PollBatchFound
  <2>2. \/ DecodeBoolArray(a.results, diagnostics) = a.results
        \/ DecodeBoolArray(a.results, diagnostics) = <<>>
    BY DEF DecodeBoolArray
  <2> QED BY <1>10, <2>1, <2>2
<1> QED
  BY <1>1, <1>2, <1>3, <1>4, <1>5, <1>6, <1>7, <1>8, <1>9, <1>11, <1>12
  DEF CallStep, BuildProof, BuildBatch, BuildEstimate

-----------------------------------------------------------------------------
(* What the steps of the network and of the contract have in common. *)

CallsStay == asked' = asked /\ pc' = pc /\ tx' = tx /\ answer' = answer

\* An outcome that the ledger may record of t.
Recorded(t, o) ==
  /\ o.tx = t /\ o.status \in {"ok", "failed"}
  /\ Timely(o.ledger, t.items, o.results)

TakesAndApplies ==
  \E t \in mempool : \E o :
    /\ ~running /\ running' = running /\ applying' = applying
    /\ Leaves(t)
    /\ Recorded(t, o)
    /\ applied' = applied \cup {o}
TakesBatch ==
  \E t \in mempool :
    /\ ~running /\ running' = TRUE /\ applying' = t
    /\ Leaves(t)
    /\ batch' = t.items /\ results' = <<>> /\ applied' = applied
RunsBatch ==
  /\ running /\ running' = running /\ applying' = applying
  /\ mempool' = mempool /\ sequence' = sequence /\ applied' = applied
  /\ batch' = batch
  /\ results' \in Seq(BOOLEAN) /\ Timely(ledger, batch, results')
EndsBatch ==
  \E o :
    /\ running /\ running' = FALSE /\ applying' = NoTx
    /\ mempool' = mempool /\ sequence' = sequence
    /\ Recorded(applying, o)
    /\ applied' = applied \cup {o}
Drops ==
  \E t \in mempool :
    /\ running' = running /\ batch' = batch /\ results' = results /\ applying' = applying
    /\ mempool' = mempool \ {t} /\ sequence' = sequence /\ applied' = applied

\* The time goes on, and the admin acts, between two calls only.
TimePasses ==
  /\ ledger' \in Nat /\ running' = running
  /\ batch' = batch /\ results' = results
  /\ running => ledger' = ledger
  /\ netVars' = netVars

Elsewhere ==
  /\ CallsStay
  /\ \/ ledger' = ledger /\ (TakesAndApplies \/ TakesBatch \/ RunsBatch \/ EndsBatch \/ Drops)
     \/ TimePasses

\* An outcome of true tells that the proof has not expired.
LEMMA OutcomeIsTimely ==
  ASSUME NEW s, NEW who, NEW item \in Items, ledger \in Nat,
         Outcome(s, who, item) = "true"
  PROVE  ledger <= item.inputs[2]
<1>1. Check(item) = "true"
  BY DEF Outcome, Gate
<1>2. Len(item.inputs) = 2 /\ ~(ledger > item.inputs[2])
  BY <1>1 DEF Check, EXPECTED_PUBLIC_INPUT_COUNT
<1>3. item.inputs \in Seq(Words) /\ Words \subseteq Nat
  BY InputsAssumption DEF Items
<1>4. item.inputs[2] \in Nat
  <2>1. 2 \in 1..Len(item.inputs)
    BY <1>2
  <2>2. item.inputs[2] \in Words
    BY <1>3, <2>1
  <2> QED BY <1>3, <2>2
<1> QED BY <1>2, <1>4

LEMMA NetworkStepKinds ==
  ASSUME LedgerInv, TimelyInv, NetworkStep
  PROVE  Elsewhere
<1>0. \A t, status, res : /\ Outcomes(t, status, res).tx = t
                          /\ Outcomes(t, status, res).status = status
                          /\ Outcomes(t, status, res).results = res
                          /\ Outcomes(t, status, res).ledger = ledger
  BY DEF Outcomes
<1>1. ASSUME NEW t \in mempool, ApplyProof(t)
      PROVE  Elsewhere
  <2> DEFINE b == Outcome(store, t.caller, t.items[1]) = "true"
             o == Outcomes(t, "ok", <<b>>)
  <2>1. /\ CallsStay /\ ledger' = ledger /\ ~running /\ running' = running
        /\ applying' = applying /\ Leaves(t) /\ applied' = applied \cup {o}
    BY <1>1 DEF ApplyProof, callVars, CallsStay, VerifyProof, Idle, batchVars
  <2>2. t.items[1] \in Items
    BY DEF LedgerInv, Runnable
  <2>3. b => ledger <= t.items[1].inputs[2]
    BY <2>2, OutcomeIsTimely DEF LedgerInv
  <2> HIDE DEF b
  <2>4. DOMAIN <<b>> = {1} /\ <<b>>[1] = b
    OBVIOUS
  <2>5. Timely(ledger, t.items, <<b>>)
    BY <2>3, <2>4, Zenon DEF Timely
  <2>6. Recorded(t, o)
    BY <1>0, <2>5 DEF Recorded
  <2> HIDE DEF o
  <2> QED BY <2>1, <2>6 DEF Elsewhere, TakesAndApplies
<1>2. ASSUME NEW t \in mempool, ApplyFails(t)
      PROVE  Elsewhere
  <2>1. /\ CallsStay /\ ledger' = ledger /\ ~running /\ running' = running
        /\ applying' = applying /\ Leaves(t)
        /\ applied' = applied \cup {Outcomes(t, "failed", <<>>)}
    BY <1>2 DEF ApplyFails, callVars, CallsStay, Idle, batchVars, vars
  <2>2. Recorded(t, Outcomes(t, "failed", <<>>))
    BY <1>0 DEF Recorded, Timely
  <2> QED BY <2>1, <2>2 DEF Elsewhere, TakesAndApplies
<1>3. ASSUME NEW t \in mempool, ApplyBatch(t)
      PROVE  Elsewhere
  BY <1>3 DEF ApplyBatch, callVars, CallsStay, BatchBegin, Idle, Elsewhere, TakesBatch
<1>4. ASSUME NEW t \in mempool, Drop(t)
      PROVE  Elsewhere
  BY <1>4 DEF Drop, callVars, CallsStay, vars, batchVars, Elsewhere, Drops
<1>5. CASE ApplyBatchEntry
  <2> DEFINE n == Len(results)
             b == Outcome(wStore, caller, batch[Len(results) + 1]) = "true"
  <2>1. /\ CallsStay /\ ledger' = ledger /\ running /\ running' = running /\ applying' = applying
        /\ mempool' = mempool /\ sequence' = sequence /\ applied' = applied
        /\ batch' = batch /\ n < Len(batch)
        /\ results' = Append(results, b)
    BY <1>5 DEF ApplyBatchEntry, clientVars, netVars, callVars, CallsStay, BatchEntry
  <2>2. /\ results \in Seq(BOOLEAN) /\ n \in Nat
        /\ Timely(ledger, batch, results) /\ batch \in Seq(Items)
    BY <2>1 DEF LedgerInv, TimelyInv, Runnable
  <2>3. batch[n + 1] \in Items
    BY <2>1, <2>2
  <2>4. b => ledger <= batch[n + 1].inputs[2]
    BY <2>3, OutcomeIsTimely DEF LedgerInv
  <2>5. b \in BOOLEAN
    OBVIOUS
  <2> HIDE DEF b
  <2>6. /\ results' \in Seq(BOOLEAN) /\ DOMAIN results' = 1..(n + 1) /\ DOMAIN results = 1..n
        /\ \A i \in 1..n : results'[i] = results[i]
        /\ results'[n + 1] = b
    BY <2>1, <2>2, <2>5
  <2> HIDE DEF n
  <2>7. \A i \in 1..(n + 1) : i \in 1..n \/ i = n + 1
    BY <2>2
  <2>8. Timely(ledger, batch, results')
    BY <2>2, <2>4, <2>6, <2>7, Zenon DEF Timely
  <2> QED BY <2>1, <2>6, <2>8 DEF Elsewhere, RunsBatch
<1>6. CASE ApplyBatchReturn
  <2> DEFINE o == Outcomes(applying, "ok", results)
  <2>1. /\ CallsStay /\ ledger' = ledger /\ running /\ running' = FALSE /\ applying' = NoTx
        /\ mempool' = mempool /\ sequence' = sequence /\ applied' = applied \cup {o}
    BY <1>6 DEF ApplyBatchReturn, callVars, CallsStay, BatchReturn, EndBatch
  <2>2. Recorded(applying, o)
    BY <1>0, <2>1 DEF Recorded, TimelyInv
  <2> HIDE DEF o
  <2> QED BY <2>1, <2>2 DEF Elsewhere, EndsBatch
<1>7. CASE ApplyBatchAborts
  <2> DEFINE o == Outcomes(applying, "failed", <<>>)
  <2>1. /\ CallsStay /\ ledger' = ledger /\ running /\ running' = FALSE /\ applying' = NoTx
        /\ mempool' = mempool /\ sequence' = sequence /\ applied' = applied \cup {o}
    BY <1>7 DEF ApplyBatchAborts, callVars, CallsStay, BatchFails, BatchOutOfBudget, EndBatch
  <2>2. Recorded(applying, o)
    BY <1>0 DEF Recorded, Timely
  <2> HIDE DEF o
  <2> QED BY <2>1, <2>2 DEF Elsewhere, EndsBatch
<1> QED BY <1>1, <1>2, <1>3, <1>4, <1>5, <1>6, <1>7 DEF NetworkStep

LEMMA ContractStepKinds ==
  ASSUME LedgerInv, ContractStep
  PROVE  Elsewhere
<1>1. CallsStay /\ netVars' = netVars
  BY DEF ContractStep, clientVars, callVars, netVars, CallsStay
<1>2. ASSUME NEW auth \in Accounts, AdminStep(auth)
      PROVE  ledger' = ledger /\ running' = running /\ batch' = batch /\ results' = results
  BY <1>2
  DEF AdminStep, SetLimits, UpdateVk, SetAllowlistMode, SetPaused, AddToAllowlist,
      RemoveFromAllowlist, ProposeAdmin, AcceptAdmin, Upgrade, batchVars
<1>3. CASE AdvanceLedger
  BY <1>1, <1>3 DEF AdvanceLedger, batchVars, LedgerInv, Elsewhere, TimePasses
<1> QED BY <1>1, <1>2, <1>3 DEF ContractStep, LedgerInv, Elsewhere, TimePasses

-----------------------------------------------------------------------------
(* The invariant holds at first, and every step keeps it. *)

LEMMA ClientInitInv ==
  ASSUME ClientInit
  PROVE  ClientInv
<1>1. /\ asked = [c \in Calls |-> NoRequest] /\ pc = [c \in Calls |-> "idle"]
      /\ tx = [c \in Calls |-> NoTx] /\ answer = [c \in Calls |-> NoAnswer]
      /\ sequence = [a \in Callers |-> 0] /\ mempool = {} /\ applying = NoTx /\ applied = {}
      /\ ledger \in 0..MaxLedger /\ running = FALSE
  BY DEF ClientInit, Init
<1>2. CallsInv
  BY <1>1 DEF CallsInv, Progress, Places
<1>3. ledger \in Nat
  BY <1>1, LedgerAssumption, LimitsAssumption
<1>4. LedgerInv /\ SentInv /\ TimelyInv
  BY <1>1, <1>3 DEF LedgerInv, SentInv, TimelyInv
<1>5. NoAnswer.code = "none" /\ NoAnswer.verified = <<>>
  BY DEF NoAnswer
<1>6. AnswersInv
  BY <1>1, <1>5, FaultsAreNoRefusals DEF AnswersInv, Reported
<1> QED BY <1>2, <1>4, <1>6 DEF ClientInv

\* What a call has submitted stays submitted.
LEMMA SentStays ==
  ASSUME CallsInv, NEW c \in Calls, CallMoves(c), NEW t, Sent(t)
  PROVE  Sent(t)'
<1>1. PICK d \in Calls : pc[d] \in {"polling", "done"} /\ tx[d] = t /\ CarriesOut(t, asked[d])
  BY DEF Sent
<1>2. pc'[d] \in {"polling", "done"} /\ tx'[d] = t /\ asked'[d] = asked[d]
  BY <1>1
  DEF CallMoves, OtherCallsStay, GetsTransaction, EndsUnsent, Sends, LearnsNothing, LearnsOutcome
<1>3. CarriesOut(t, asked'[d])
  BY <1>1, <1>2
<1> QED BY <1>2, <1>3 DEF Sent, CarriesOut

LEMMA CallKeepsCalls ==
  ASSUME CallsInv, NEW c \in Calls, CallMoves(c)
  PROVE  CallsInv'
<1>1. \A d \in Calls : d # c => Progress(pc'[d], asked'[d], tx'[d], answer'[d])
  BY DEF CallsInv, CallMoves, OtherCallsStay
<1>2. Progress(pc'[c], asked'[c], tx'[c], answer'[c])
  <2>1. Progress(pc[c], asked[c], tx[c], answer[c])
    BY DEF CallsInv
  <2>2. CASE GetsTransaction(c)
    BY <2>1, <2>2 DEF GetsTransaction, Progress, Places
  <2>3. CASE EndsUnsent(c)
    BY <2>3 DEF EndsUnsent, Progress, Places
  <2>4. CASE Sends(c)
    BY <2>1, <2>4 DEF Sends, Progress, Places
  <2>5. CASE LearnsNothing(c)
    BY <2>1, <2>5 DEF LearnsNothing, Progress, Places
  <2>6. CASE LearnsOutcome(c)
    BY <2>6 DEF LearnsOutcome, Progress, Places
  <2> QED BY <2>2, <2>3, <2>4, <2>5, <2>6 DEF CallMoves
<1> QED BY <1>1, <1>2 DEF CallsInv, CallMoves, OtherCallsStay, Progress, CarriesOut, Runnable

LEMMA CallKeepsLedger ==
  ASSUME CallsInv, LedgerInv, NEW c \in Calls, CallMoves(c)
  PROVE  LedgerInv'
<1>1. /\ ledger' = ledger /\ running' = running /\ sequence' = sequence
      /\ applying' = applying /\ applied' = applied
  BY DEF CallMoves, OtherCallsStay
<1>2. CASE mempool' = mempool
  BY <1>1, <1>2 DEF LedgerInv, Runnable
<1>3. CASE /\ pc[c] = "signed"
           /\ mempool' = mempool \cup {tx[c]} /\ "PENDING" \in Reception(tx[c])
  <2>1. Runnable(tx[c])
    BY <1>3 DEF CallsInv, Progress
  <2>2. \/ tx[c] \in mempool
        \/ /\ tx[c].sequence = sequence[tx[c].caller] + 1
           /\ \A u \in mempool : u.caller # tx[c].caller
    BY <1>3 DEF Reception
  <2>3. \A t \in mempool' : Runnable(t) /\ t.sequence = sequence[t.caller] + 1
    BY <1>3, <2>1, <2>2 DEF LedgerInv
  <2>4. \A t, u \in mempool' : t.caller = u.caller => t = u
    BY <1>3, <2>2 DEF LedgerInv
  <2> QED BY <1>1, <2>3, <2>4 DEF LedgerInv, Runnable
<1> QED
  BY <1>2, <1>3 DEF CallMoves, GetsTransaction, EndsUnsent, Sends, LearnsNothing, LearnsOutcome

LEMMA CallKeepsSent ==
  ASSUME CallsInv, SentInv, NEW c \in Calls, CallMoves(c)
  PROVE  SentInv'
<1>1. running' = running /\ applying' = applying /\ applied' = applied
  BY DEF CallMoves, OtherCallsStay
<1>2. \A t \in mempool' : t \in mempool \/ (pc[c] = "signed" /\ Sends(c) /\ t = tx[c])
  BY DEF CallMoves, GetsTransaction, EndsUnsent, Sends, LearnsNothing, LearnsOutcome
<1>3. ASSUME NEW t \in mempool'
      PROVE  Sent(t)'
  <2>1. CASE t \in mempool
    BY <2>1, SentStays DEF SentInv
  <2>2. CASE pc[c] = "signed" /\ Sends(c) /\ t = tx[c]
    <3>1. CarriesOut(tx[c], asked[c])
      BY <2>2 DEF CallsInv, Progress
    <3>2. pc'[c] \in {"polling", "done"} /\ tx'[c] = tx[c] /\ asked'[c] = asked[c]
      BY <2>2 DEF Sends
    <3> QED BY <2>2, <3>1, <3>2 DEF Sent, CarriesOut
  <2> QED BY <1>2, <2>1, <2>2
<1>4. running' => Sent(applying)'
  BY <1>1, SentStays DEF SentInv
<1>5. \A a \in applied' : Sent(a.tx)'
  BY <1>1, SentStays DEF SentInv
<1> QED BY <1>1, <1>3, <1>4, <1>5 DEF SentInv, Sent

LEMMA CallKeepsTimely ==
  ASSUME TimelyInv, NEW c \in Calls, CallMoves(c)
  PROVE  TimelyInv'
BY DEF TimelyInv, Timely, CallMoves, OtherCallsStay

\* A transaction that no other call has submitted is settled by this call's part.
LEMMA UnsentIsGone ==
  ASSUME CallsInv, SentInv, NEW c \in Calls, pc[c] \in {"idle", "built", "signed"}
  PROVE  Twin(c) \/ Gone(c)
<1>1. \A t : Sent(t) /\ t = tx[c] => Twin(c)
  BY DEF Sent, Twin
<1> QED BY <1>1 DEF SentInv, Gone

LEMMA FailedIsGone ==
  ASSUME LedgerInv, NEW c \in Calls, NEW a \in applied, a.tx = tx[c], a.status = "failed"
  PROVE  Gone(c)
<1>1. tx[c] \notin mempool
  BY DEF LedgerInv, Runnable
<1> QED BY <1>1 DEF LedgerInv, Gone

LEMMA CallKeepsAnswers ==
  ASSUME CallsInv, LedgerInv, SentInv, AnswersInv, NEW c \in Calls, CallMoves(c)
  PROVE  AnswersInv'
<1>1. /\ running' = running /\ applying' = applying /\ applied' = applied
      /\ \A d \in Calls : d # c => pc'[d] = pc[d] /\ tx'[d] = tx[d] /\ answer'[d] = answer[d]
  BY DEF CallMoves, OtherCallsStay
<1>2. \A d \in Calls : pc[d] \in {"polling", "done"} =>
                         pc'[d] \in {"polling", "done"} /\ tx'[d] = tx[d]
  BY <1>1
  DEF CallMoves, GetsTransaction, EndsUnsent, Sends, LearnsNothing, LearnsOutcome
<1>3. \A d \in Calls : Twin(d) /\ tx'[d] = tx[d] => Twin(d)'
  BY <1>2 DEF Twin
<1>4. \A d \in Calls : Gone(d) /\ d # c => Twin(d)' \/ Gone(d)'
  <2> SUFFICES ASSUME NEW d \in Calls, Gone(d), d # c
               PROVE  Twin(d)' \/ Gone(d)'
    OBVIOUS
  <2>1. CASE tx[d] \notin mempool'
    BY <1>1, <2>1 DEF Gone
  <2>2. CASE tx[d] \in mempool'
    <3>1. pc'[c] \in {"polling", "done"} /\ tx'[c] = tx[c] /\ tx[c] = tx[d]
      BY <2>2 DEF Gone, CallMoves, GetsTransaction, EndsUnsent, Sends, LearnsNothing,
                  LearnsOutcome
    <3> QED BY <1>1, <3>1 DEF Twin
  <2> QED BY <2>1, <2>2
<1>5. \A d \in Calls : d # c => /\ answer'[d].code \in Refusals => Twin(d)' \/ Gone(d)'
                               /\ Reported(tx'[d], answer'[d])
  BY <1>1, <1>3, <1>4 DEF AnswersInv, Reported
<1>6. /\ answer'[c].code \in Refusals => Twin(c)' \/ Gone(c)'
      /\ Reported(tx'[c], answer'[c])
  <2>0. answer[c] = NoAnswer \/ pc[c] = "done"
    BY DEF CallsInv, Progress
  <2>n. NoAnswer.code \notin Refusals /\ NoAnswer.verified = <<>>
    BY FaultsAreNoRefusals DEF NoAnswer
  <2>1. CASE GetsTransaction(c)
    BY <2>0, <2>n, <2>1 DEF GetsTransaction, Reported
  <2>2. CASE EndsUnsent(c)
    <3>1. Twin(c) \/ Gone(c)
      BY <2>2, UnsentIsGone DEF EndsUnsent
    <3>2. Twin(c)' \/ Gone(c)'
      BY <1>1, <1>3, <2>2, <3>1 DEF EndsUnsent, Gone
    <3> QED BY <2>2, <3>2 DEF EndsUnsent, Reported
  <2>3. CASE Sends(c)
    BY <2>0, <2>n, <2>3 DEF Sends, Reported
  <2>4. CASE LearnsNothing(c)
    BY <2>0, <2>n, <2>4 DEF LearnsNothing, Reported
  <2>5. CASE LearnsOutcome(c)
    <3>1. PICK a \in applied :
            /\ a.tx = tx[c]
            /\ answer'[c].code \in Refusals => a.status = "failed"
            /\ answer'[c].verified # <<>> =>
                 /\ a.status = "ok" /\ a.ledger = answer'[c].ledger
                 /\ a.results = answer'[c].verified
      BY <2>5 DEF LearnsOutcome
    <3>2. tx'[c] = tx[c] /\ mempool' = mempool
      BY <2>5 DEF LearnsOutcome
    <3>3. Reported(tx'[c], answer'[c])
      BY <3>1, <3>2 DEF Reported
    <3>4. answer'[c].code \in Refusals => Gone(c)
      BY <3>1, FailedIsGone
    <3>5. answer'[c].code \in Refusals => Gone(c)'
      BY <1>1, <3>2, <3>4 DEF Gone
    <3> QED BY <3>3, <3>5
  <2> QED BY <2>1, <2>2, <2>3, <2>4, <2>5 DEF CallMoves
<1>7. \A d \in Calls : /\ answer'[d].code \in Refusals => Twin(d)' \/ Gone(d)'
                       /\ Reported(tx'[d], answer'[d])
  BY <1>5, <1>6
<1> QED BY <1>1, <1>7 DEF AnswersInv, Reported

LEMMA ElsewhereKeepsCalls ==
  ASSUME CallsInv, Elsewhere
  PROVE  CallsInv'
BY DEF CallsInv, Elsewhere, CallsStay, Progress, CarriesOut, Runnable

\* Applying a transaction uses its sequence number, and no other is pending for it.
LEMMA LeavingKeepsOrder ==
  ASSUME LedgerInv, NEW t \in mempool, Leaves(t)
  PROVE  /\ sequence' \in [Callers -> Nat]
         /\ \A u \in mempool' : /\ u \in mempool /\ Runnable(u)
                                /\ u.sequence = sequence'[u.caller] + 1
         /\ \A u, v \in mempool' : u.caller = v.caller => u = v
         /\ Runnable(t) /\ t.sequence <= sequence'[t.caller]
         /\ \A who \in Callers : sequence[who] <= sequence'[who]
         /\ \A a \in applied : a.tx # t
<1>1. /\ mempool' = mempool \ {t}
      /\ sequence' = [sequence EXCEPT ![t.caller] = @ + 1]
  BY DEF Leaves
<1>2. Runnable(t) /\ t.sequence = sequence[t.caller] + 1 /\ sequence \in [Callers -> Nat]
  BY DEF LedgerInv
<1>3. t.caller \in Callers
  BY <1>2 DEF Runnable
<1>4. /\ sequence' \in [Callers -> Nat]
      /\ sequence'[t.caller] = sequence[t.caller] + 1
      /\ \A who \in Callers : who # t.caller => sequence'[who] = sequence[who]
  BY <1>1, <1>2, <1>3
<1>5. \A u \in mempool' : u \in mempool /\ Runnable(u) /\ u.caller # t.caller
  BY <1>1 DEF LedgerInv
<1>6. \A u \in mempool' : /\ u \in mempool /\ Runnable(u)
                           /\ u.sequence = sequence'[u.caller] + 1
  BY <1>4, <1>5 DEF LedgerInv, Runnable
<1>7. \A u, v \in mempool' : u.caller = v.caller => u = v
  BY <1>1 DEF LedgerInv
<1>8. \A who \in Callers : sequence[who] <= sequence'[who]
  BY <1>2, <1>4
<1>9. \A a \in applied : a.tx # t
  <2> SUFFICES ASSUME NEW a \in applied, a.tx = t
               PROVE  FALSE
    OBVIOUS
  <2>1. t.sequence <= sequence[t.caller]
    BY DEF LedgerInv
  <2> QED BY <1>2, <1>3, <2>1
<1>10. t.sequence <= sequence'[t.caller]
  BY <1>2, <1>3, <1>4
<1> QED BY <1>2, <1>4, <1>6, <1>7, <1>8, <1>9, <1>10

LEMMA ElsewhereKeepsLedger ==
  ASSUME LedgerInv, Elsewhere
  PROVE  LedgerInv'
<1>0. LedgerInv
  OBVIOUS
<1>1. CASE TakesAndApplies /\ ledger' = ledger
  <2>1. PICK t \in mempool : \E o :
          /\ ~running /\ running' = running /\ applying' = applying /\ Leaves(t)
          /\ Recorded(t, o) /\ applied' = applied \cup {o}
    BY <1>1 DEF TakesAndApplies
  <2>2. PICK o :
          /\ ~running /\ running' = running /\ applying' = applying /\ Leaves(t)
          /\ Recorded(t, o) /\ applied' = applied \cup {o}
    BY <2>1
  <2>3. o.tx = t /\ o.status \in {"ok", "failed"}
    BY <2>2 DEF Recorded
  <2>4. /\ sequence' \in [Callers -> Nat]
        /\ \A u \in mempool' : /\ u \in mempool /\ Runnable(u)
                               /\ u.sequence = sequence'[u.caller] + 1
        /\ \A u, v \in mempool' : u.caller = v.caller => u = v
        /\ Runnable(t) /\ t.sequence <= sequence'[t.caller]
        /\ \A who \in Callers : sequence[who] <= sequence'[who]
        /\ \A a \in applied : a.tx # t
    BY <2>2, LeavingKeepsOrder
  <2>5. \A a \in applied' : /\ Runnable(a.tx)
                            /\ a.tx.sequence <= sequence'[a.tx.caller]
                            /\ a.status \in {"ok", "failed"}
    BY <1>0, <2>2, <2>3, <2>4 DEF LedgerInv, Runnable
  <2>6. \A a, b \in applied' : a.tx = b.tx => a.status = b.status
    BY <1>0, <2>2, <2>3, <2>4 DEF LedgerInv
  <2>7. ledger' \in Nat /\ running' \in BOOLEAN
    BY <1>0, <1>1, <2>2 DEF LedgerInv
  <2> QED BY <1>0, <2>2, <2>4, <2>5, <2>6, <2>7 DEF LedgerInv, Runnable
<1>2. CASE TakesBatch /\ ledger' = ledger
  <2>1. PICK t \in mempool :
          /\ ~running /\ running' = TRUE /\ applying' = t /\ Leaves(t) /\ applied' = applied
    BY <1>2 DEF TakesBatch
  <2>2. /\ sequence' \in [Callers -> Nat]
        /\ \A u \in mempool' : /\ u \in mempool /\ Runnable(u)
                               /\ u.sequence = sequence'[u.caller] + 1
        /\ \A u, v \in mempool' : u.caller = v.caller => u = v
        /\ Runnable(t) /\ t.sequence <= sequence'[t.caller]
        /\ \A who \in Callers : sequence[who] <= sequence'[who]
        /\ \A a \in applied : a.tx # t
    BY <2>1, LeavingKeepsOrder
  <2>3. \A a \in applied : /\ Runnable(a.tx)
                           /\ a.tx.sequence <= sequence'[a.tx.caller]
                           /\ a.status \in {"ok", "failed"}
    BY <1>0, <2>2 DEF LedgerInv, Runnable
  <2> QED BY <1>0, <1>2, <2>1, <2>2, <2>3 DEF LedgerInv, Runnable
<1>3. CASE RunsBatch /\ ledger' = ledger
  BY <1>0, <1>3 DEF RunsBatch, LedgerInv, Runnable
<1>4. CASE EndsBatch /\ ledger' = ledger
  <2>1. PICK o :
          /\ running /\ running' = FALSE /\ applying' = NoTx
          /\ mempool' = mempool /\ sequence' = sequence
          /\ Recorded(applying, o) /\ applied' = applied \cup {o}
    BY <1>4 DEF EndsBatch
  <2>2. o.tx = applying /\ o.status \in {"ok", "failed"}
    BY <2>1 DEF Recorded
  <2>3. \A a \in applied' : /\ Runnable(a.tx)
                            /\ a.tx.sequence <= sequence[a.tx.caller]
                            /\ a.status \in {"ok", "failed"}
    BY <1>0, <2>1, <2>2 DEF LedgerInv
  <2>4. \A a, b \in applied' : a.tx = b.tx => a.status = b.status
    BY <1>0, <2>1, <2>2 DEF LedgerInv
  <2> QED BY <1>0, <1>4, <2>1, <2>3, <2>4 DEF LedgerInv, Runnable
<1>5. CASE Drops /\ ledger' = ledger
  BY <1>0, <1>5 DEF Drops, LedgerInv, Runnable
<1>6. CASE TimePasses
  BY <1>0, <1>6 DEF TimePasses, netVars, LedgerInv, Runnable
<1> QED BY <1>1, <1>2, <1>3, <1>4, <1>5, <1>6 DEF Elsewhere

LEMMA ElsewhereKeepsSent ==
  ASSUME SentInv, Elsewhere
  PROVE  SentInv'
<1>1. \A t : Sent(t) => Sent(t)'
  BY DEF Elsewhere, CallsStay, Sent, CarriesOut
<1>2. \A t \in mempool' : t \in mempool
  BY DEF Elsewhere, TakesAndApplies, TakesBatch, RunsBatch, EndsBatch, Drops, TimePasses,
         netVars, Leaves
<1>3. running' => (running /\ applying' = applying) \/ applying' \in mempool
  BY DEF Elsewhere, TakesAndApplies, TakesBatch, RunsBatch, EndsBatch, Drops, TimePasses,
         netVars
<1>4. \A a \in applied' : a \in applied \/ a.tx \in mempool \/ (running /\ a.tx = applying)
  BY DEF Elsewhere, TakesAndApplies, TakesBatch, RunsBatch, EndsBatch, Drops, TimePasses,
         netVars, Recorded
<1>5. \A t \in mempool' : Sent(t)'
  BY <1>1, <1>2 DEF SentInv
<1>6. running' => Sent(applying)'
  BY <1>1, <1>3 DEF SentInv
<1>7. \A a \in applied' : Sent(a.tx)'
  BY <1>1, <1>4 DEF SentInv
<1> QED BY <1>5, <1>6, <1>7 DEF SentInv, Sent

LEMMA ElsewhereKeepsTimely ==
  ASSUME TimelyInv, Elsewhere
  PROVE  TimelyInv'
<1>1. CASE TakesAndApplies
  BY <1>1 DEF TakesAndApplies, TimelyInv, Recorded, Timely
<1>2. CASE TakesBatch
  BY <1>2 DEF TakesBatch, TimelyInv, Timely
<1>3. CASE RunsBatch /\ ledger' = ledger
  BY <1>3 DEF RunsBatch, TimelyInv, Timely
<1>4. CASE EndsBatch
  BY <1>4 DEF EndsBatch, TimelyInv, Recorded, Timely
<1>5. CASE Drops /\ ledger' = ledger
  BY <1>5 DEF Drops, TimelyInv, Timely
<1>6. CASE TimePasses
  BY <1>6 DEF TimePasses, netVars, TimelyInv, Timely
<1> QED BY <1>1, <1>2, <1>3, <1>4, <1>5, <1>6 DEF Elsewhere

LEMMA ElsewhereKeepsAnswers ==
  ASSUME AnswersInv, Elsewhere
  PROVE  AnswersInv'
<1>1. CallsStay
  BY DEF Elsewhere
<1>2. \A t \in mempool' : t \in mempool
  BY DEF Elsewhere, TakesAndApplies, TakesBatch, RunsBatch, EndsBatch, Drops, TimePasses,
         netVars, Leaves
<1>3. running' => (running /\ applying' = applying) \/ applying' \in mempool
  BY DEF Elsewhere, TakesAndApplies, TakesBatch, RunsBatch, EndsBatch, Drops, TimePasses,
         netVars
<1>4. \A a \in applied' : a \in applied \/ a.tx \in mempool \/ (running /\ a.tx = applying)
  BY DEF Elsewhere, TakesAndApplies, TakesBatch, RunsBatch, EndsBatch, Drops, TimePasses,
         netVars, Recorded
<1>5. applied \subseteq applied'
  BY DEF Elsewhere, TakesAndApplies, TakesBatch, RunsBatch, EndsBatch, Drops, TimePasses,
         netVars
<1>6. \A c \in Calls : Twin(c) => Twin(c)'
  BY <1>1 DEF CallsStay, Twin
<1>7. \A c \in Calls : Gone(c) => Gone(c)'
  BY <1>1, <1>2, <1>3, <1>4 DEF CallsStay, Gone
<1>8. \A c \in Calls : Reported(tx[c], answer[c]) => Reported(tx[c], answer[c])'
  BY <1>1, <1>5 DEF CallsStay, Reported
<1> QED BY <1>1, <1>6, <1>7, <1>8 DEF CallsStay, AnswersInv

LEMMA ClientStepInv ==
  ASSUME ClientInv, ClientNext
  PROVE  ClientInv'
<1>1. CallsInv /\ LedgerInv /\ SentInv /\ TimelyInv /\ AnswersInv
  BY DEF ClientInv
<1>2. ASSUME NEW c \in Calls, CallStep(c)
      PROVE  ClientInv'
  <2>1. CallMoves(c)
    BY <1>1, <1>2, CallStepKinds
  <2> QED
    BY <1>1, <2>1, CallKeepsCalls, CallKeepsLedger, CallKeepsSent, CallKeepsTimely,
       CallKeepsAnswers
    DEF ClientInv
<1>3. CASE NetworkStep \/ ContractStep
  <2>1. Elsewhere
    BY <1>1, <1>3, NetworkStepKinds, ContractStepKinds
  <2> QED
    BY <1>1, <2>1, ElsewhereKeepsCalls, ElsewhereKeepsLedger, ElsewhereKeepsSent,
       ElsewhereKeepsTimely, ElsewhereKeepsAnswers
    DEF ClientInv
<1> QED BY <1>2, <1>3 DEF ClientNext

LEMMA ClientStutters ==
  ASSUME ClientInv, UNCHANGED allVars
  PROVE  ClientInv'
<1>1. /\ CallsStay /\ netVars' = netVars
      /\ ledger' = ledger /\ running' = running /\ batch' = batch /\ results' = results
  BY DEF allVars, clientVars, callVars, netVars, vars, batchVars, CallsStay
<1>2. Elsewhere
  BY <1>1 DEF ClientInv, LedgerInv, Elsewhere, TimePasses
<1> QED
  BY <1>2, ElsewhereKeepsCalls, ElsewhereKeepsLedger, ElsewhereKeepsSent,
     ElsewhereKeepsTimely, ElsewhereKeepsAnswers
  DEF ClientInv

\* The invariant is one of the client, its network and the contract.
LEMMA ClientInvAlways == ClientSpec => []ClientInv
<1>1. ClientInit => ClientInv
  BY ClientInitInv
<1>2. ClientInv /\ [ClientNext]_allVars => ClientInv'
  BY ClientStepInv, ClientStutters
<1> QED BY <1>1, <1>2, PTL DEF ClientSpec

-----------------------------------------------------------------------------
(* The theorems. *)

\* However many calls race and whatever the network loses, what is pending or on the
\* ledger was submitted by a call that asked for it: once, not as an estimate, and
\* with a bundle of this network if it had one (verify.ts:206-225, 227-328, 493-542).
THEOREM OneTransactionPerCallAlways == ClientSpec => []OneTransactionPerCall
<1>1. ClientInv => OneTransactionPerCall
  BY DEF ClientInv, SentInv, Sent, CarriesOut, OneTransactionPerCall
<1> QED BY <1>1, ClientInvAlways, PTL

\* A refused call has charged nothing and never will, unless another call submitted
\* the same transaction: it is neither pending nor running, and the ledger records it
\* as failed if at all (verify.ts:114-133, 263-269, 300-303, 321-328).
THEOREM RefusedHasNoEffectAlways == ClientSpec => []RefusedHasNoEffect
<1>1. ASSUME ClientInv
      PROVE  RefusedHasNoEffect
  <2> SUFFICES ASSUME NEW c \in Calls, answer[c].code \in Refusals,
                      \A d \in Calls \ {c} : tx[d] # tx[c]
               PROVE  /\ tx[c] \notin (mempool \cup {applying}) \ {NoTx}
                      /\ \A a \in applied : a.tx = tx[c] => a.status = "failed"
    BY DEF RefusedHasNoEffect
  <2>1. ~Twin(c)
    BY DEF Twin
  <2>2. Gone(c)
    BY <1>1, <2>1 DEF ClientInv, AnswersInv
  <2>3. ~running => applying = NoTx
    BY <1>1 DEF ClientInv, LedgerInv
  <2> QED BY <2>2, <2>3 DEF Gone
<1> QED BY <1>1, ClientInvAlways, PTL

\* What a call returns as verified is what the ledger recorded of its transaction, in
\* a ledger that the proof had not outlived (verify.ts:135-204, 280-315, 410-434).
THEOREM TruthfulAnswerAlways == ClientSpec => []TruthfulAnswer
<1>1. ASSUME ClientInv
      PROVE  TruthfulAnswer
  <2> SUFFICES ASSUME NEW c \in Calls, NEW i \in DOMAIN answer[c].verified
               PROVE  \E a \in applied :
                        /\ a.tx = tx[c] /\ a.status = "ok" /\ a.ledger = answer[c].ledger
                        /\ a.results[i] = answer[c].verified[i]
                        /\ a.results[i] => a.ledger <= a.tx.items[i].inputs[2]
    BY DEF TruthfulAnswer
  <2>1. answer[c].verified # <<>>
    OBVIOUS
  <2>2. PICK a \in applied : /\ a.tx = tx[c] /\ a.status = "ok"
                             /\ a.ledger = answer[c].ledger
                             /\ a.results = answer[c].verified
    BY <1>1, <2>1 DEF ClientInv, AnswersInv, Reported
  <2>3. Timely(a.ledger, a.tx.items, a.results)
    BY <1>1 DEF ClientInv, TimelyInv
  <2>4. a.results[i] => a.ledger <= a.tx.items[i].inputs[2]
    BY <2>2, <2>3 DEF Timely
  <2> QED BY <2>2, <2>4
<1> QED BY <1>1, ClientInvAlways, PTL

-----------------------------------------------------------------------------
(* The types, and the contract that the calls share. *)

AnswerTypes == [code : AnswerCodes, verified : Seq(BOOLEAN), ledger : WindowStarts]

\* What a call has of its own is typed, and what it is about to submit is a transaction.
CallTypes ==
  /\ asked \in [Calls -> Requests \cup {NoRequest}]
  /\ pc \in [Calls -> Places]
  /\ tx \in [Calls -> TxTypes \cup {NoTx}]
  /\ polls \in [Calls -> 0..MaxPolls]
  /\ answer \in [Calls -> AnswerTypes]
  /\ \A c \in Calls : pc[c] \in {"built", "signed", "polling"} => tx[c] \in TxTypes
NetTypes ==
  /\ mempool \subseteq TxTypes
  /\ running => applying \in TxTypes
  /\ \A a \in applied : a.tx \in TxTypes /\ a.results \in Seq(BOOLEAN) /\ a.ledger \in WindowStarts

\* Every error becomes one of the codes the SDK names.
LEMMA ErrorsHaveCodes == \A error : ClassifyError(error) \in AnswerCodes
BY DEF ClassifyError, AnswerCodes, Refusals

\* What is thrown and what is returned is typed.
LEMMA AnswersAreTyped ==
  /\ \A code \in AnswerCodes : Thrown(code) \in AnswerTypes
  /\ \A verified \in Seq(BOOLEAN), l \in WindowStarts : Returned(verified, l) \in AnswerTypes
  /\ NoAnswer \in AnswerTypes
<1>1. 0 \in WindowStarts /\ <<>> \in Seq(BOOLEAN)
  BY LedgerAssumption, LimitsAssumption DEF WindowStarts
<1>2. "ok" \in AnswerCodes /\ "none" \in AnswerCodes
  BY DEF AnswerCodes
<1> QED BY <1>1, <1>2 DEF AnswerTypes, Thrown, Returned, NoAnswer

\* The steps of a call leave the contract as it is.
LEMMA CallLeavesContract ==
  ASSUME NEW c \in Calls, CallStep(c)
  PROVE  UNCHANGED vars
BY DEF CallStep, AskRefused, BuildProof, BuildBatch, BuildEstimate, Built, EstimateFee, Prepare,
       Send, SendAnswerLost, RequestFails, PollNotFound, PollTimesOut, PollProofFound,
       PollBatchFound, PollFinds

\* The contract keeps its invariant, whatever the clients make of its transactions.
LEMMA ClientKeepsContract ==
  ASSUME IInv, LedgerInv, [ClientNext]_allVars
  PROVE  IInv'
<1>1. CASE UNCHANGED vars
  BY <1>1, StutterKeepsIInv
<1>2. ASSUME NEW t \in mempool, ApplyProof(t)
      PROVE  IInv'
  <2>1. t.caller \in Callers /\ t.items[1] \in Items
    BY DEF LedgerInv, Runnable
  <2> QED BY <1>2, <2>1, VerifyProofKeepsIInv DEF ApplyProof
<1>3. ASSUME NEW t \in mempool, ApplyBatch(t)
      PROVE  IInv'
  <2>1. t.caller \in Callers /\ t.items \in Seq(Items)
    BY DEF LedgerInv, Runnable
  <2> QED BY <1>3, <2>1, BatchBeginKeepsIInv DEF ApplyBatch
<1>4. CASE ApplyBatchEntry
  BY <1>4, BatchEntryKeepsIInv DEF ApplyBatchEntry
<1>5. CASE ApplyBatchReturn
  BY <1>5, EndBatchKeepsIInv DEF ApplyBatchReturn, BatchReturn
<1>6. CASE ApplyBatchAborts
  BY <1>6, EndBatchKeepsIInv DEF ApplyBatchAborts, BatchFails, BatchOutOfBudget
<1>7. CASE ContractStep
  BY <1>7, AdminKeepsIInv, AdvanceLedgerKeepsIInv DEF ContractStep
<1>8. ASSUME NEW t \in mempool, ApplyFails(t) \/ Drop(t)
      PROVE  UNCHANGED vars
  BY <1>8 DEF ApplyFails, Drop
<1>9. UNCHANGED allVars => UNCHANGED vars
  BY DEF allVars
<1> QED
  BY <1>1, <1>2, <1>3, <1>4, <1>5, <1>6, <1>7, <1>8, <1>9, CallLeavesContract
  DEF ClientNext, NetworkStep

\* A step of a call keeps the types of the calls; what it sends is a transaction.
LEMMA CallKeepsTypes ==
  ASSUME TypeOK, LedgerInv, CallTypes, NetTypes, NEW c \in Calls, CallStep(c)
  PROVE  CallTypes' /\ NetTypes'
<1>0. UNCHANGED vars
  BY CallLeavesContract
<1>1. running' = running
  BY <1>0 DEF vars, batchVars
<1>2. \A code \in AnswerCodes : Thrown(code) \in AnswerTypes
  BY AnswersAreTyped
<1>3. \A fault : Thrown(ClassifyError(fault)) \in AnswerTypes
  BY <1>2, ErrorsHaveCodes
<1>4. {"TRANSACTION_REJECTED", "INVALID_PROOF_FORMAT", "INVALID_PUBLIC_INPUT",
       "NETWORK_MISMATCH", "NETWORK_ERROR",
       "CONTRACT_INVOCATION_FAILED", "estimated"} \subseteq AnswerCodes
  BY DEF AnswerCodes, Refusals
<1>5. Places = {"idle", "built", "signed", "polling", "done"}
  BY DEF Places
\* A call that ends, with its transaction as it is.
<1>6. ASSUME NEW with \in AnswerTypes, Ends(c, with), tx' = tx, polls' = polls,
             asked' \in [Calls -> Requests \cup {NoRequest}]
      PROVE  CallTypes'
  BY <1>5, <1>6 DEF Ends, CallTypes
<1>7. netVars' = netVars => NetTypes'
  BY <1>1 DEF netVars, NetTypes
<1>8. CASE AskRefused(c)
  <2>0. PICK req \in Requests : \E code \in Objections(req) :
          asked' = [asked EXCEPT ![c] = req] /\ Ends(c, Thrown(code))
    BY <1>8 DEF AskRefused
  <2>1. PICK code \in Objections(req) :
          asked' = [asked EXCEPT ![c] = req] /\ Ends(c, Thrown(code))
    BY <2>0
  <2>2. asked' \in [Calls -> Requests \cup {NoRequest}]
    BY <2>1 DEF CallTypes
  <2>3. tx' = tx /\ polls' = polls /\ netVars' = netVars
    BY <1>8 DEF AskRefused
  <2>4. Thrown(code) \in AnswerTypes
    BY <1>2, <1>4, <2>1 DEF Objections
  <2> QED BY <1>6, <1>7, <2>1, <2>2, <2>3, <2>4
<1>9. ASSUME NEW method, NEW contractMethod \in Methods, Built(c, method, contractMethod)
      PROVE  CallTypes' /\ NetTypes'
  <2>1. PICK req \in Requests, stamp \in Stamps :
          /\ ValidateCalldata(ResolveCalldata(req)) /\ AssertBundleNetwork(req)
          /\ asked' = [asked EXCEPT ![c] = req]
          /\ tx' = [tx EXCEPT ![c] =
                      Transaction(req.caller, contractMethod, ResolveCalldata(req),
                                  sequence[req.caller] + 1, stamp, {}, {})]
    BY <1>9 DEF Built
  <2> DEFINE t == Transaction(req.caller, contractMethod, ResolveCalldata(req),
                              sequence[req.caller] + 1, stamp, {}, {})
  <2>2. t \in TxTypes
    <3>1. req.caller \in Callers /\ ResolveCalldata(req) \in Seq(Items)
      BY <2>1, ResolvedRuns
    <3>2. sequence[req.caller] + 1 \in Nat
      BY <3>1 DEF LedgerInv
    <3> QED BY <3>1, <3>2, <1>9 DEF Transaction, TxTypes
  <2>3. pc' = [pc EXCEPT ![c] = "built"] /\ polls' = polls /\ answer' = answer /\ netVars' = netVars
    BY <1>9 DEF Built
  <2> HIDE DEF t
  <2>4. tx' = [tx EXCEPT ![c] = t]
    BY <2>1 DEF t
  <2> QED BY <1>5, <1>7, <2>1, <2>2, <2>3, <2>4 DEF CallTypes
<1>10. CASE EstimateFee(c)
  <2>1. PICK with \in AnswerTypes : Ends(c, with)
    BY <1>2, <1>3, <1>4, <1>10 DEF EstimateFee
  <2> QED BY <1>6, <1>7, <1>10, <2>1 DEF EstimateFee, CallTypes
<1>11. CASE Prepare(c)
  <2>1. pc[c] = "built" /\ asked' = asked /\ polls' = polls /\ netVars' = netVars
    BY <1>11 DEF Prepare
  <2>2. tx[c] \in TxTypes
    BY <2>1 DEF CallTypes
  <2>3. CASE Simulated(tx[c]) \in {"true", "false"}
    <3> DEFINE r == IF Admitted(tx[c].caller) THEN {Start} ELSE {}
               w == IF Gate(store, tx[c].caller) = "open" THEN {Start} ELSE {}
               t == Transaction(tx[c].caller, tx[c].method, tx[c].items, tx[c].sequence,
                                tx[c].stamp, r, w)
    <3>1. Start \in WindowStarts
      BY StartInRange DEF TypeOK, Start
    <3>2. r \in SUBSET WindowStarts /\ w \in SUBSET WindowStarts
      BY <3>1
    <3>3. tx' = [tx EXCEPT ![c] = t] /\ pc' = [pc EXCEPT ![c] = "signed"] /\ answer' = answer
      BY <1>11, <2>3 DEF Prepare
    <3> HIDE DEF r, w
    <3>4. t \in TxTypes
      BY <2>2, <3>2 DEF TxTypes, Transaction
    <3> HIDE DEF t
    <3> QED BY <1>5, <1>7, <2>1, <3>3, <3>4 DEF CallTypes
  <2>4. CASE Simulated(tx[c]) \notin {"true", "false"}
    <3>1. Ends(c, Thrown(ClassifyError(Simulated(tx[c])))) /\ tx' = tx
      BY <1>11, <2>4 DEF Prepare
    <3> QED BY <1>3, <1>6, <1>7, <2>1, <3>1 DEF CallTypes
  <2> QED BY <2>3, <2>4
<1>12. ASSUME NEW status, Arrives(tx[c], status), pc[c] = "signed"
       PROVE  NetTypes'
  BY <1>1, <1>12 DEF Arrives, NetTypes, CallTypes
<1>13. CASE Send(c)
  <2>1. PICK status : /\ Arrives(tx[c], status)
                      /\ \/ pc' = [pc EXCEPT ![c] = "polling"] /\ answer' = answer
                         \/ Ends(c, Thrown("TRANSACTION_REJECTED"))
    BY <1>13 DEF Send
  <2>2. pc[c] = "signed" /\ asked' = asked /\ tx' = tx /\ polls' = polls
    BY <1>13 DEF Send
  <2>3. CASE pc' = [pc EXCEPT ![c] = "polling"] /\ answer' = answer
    BY <1>5, <1>12, <2>1, <2>2, <2>3 DEF CallTypes
  <2>4. CASE Ends(c, Thrown("TRANSACTION_REJECTED"))
    BY <1>2, <1>4, <1>6, <1>12, <2>1, <2>2, <2>4 DEF CallTypes
  <2> QED BY <2>1, <2>3, <2>4
<1>14. CASE SendAnswerLost(c)
  <2>1. PICK status, fault : Arrives(tx[c], status) /\ Ends(c, Thrown(ClassifyError(fault)))
    BY <1>14 DEF SendAnswerLost
  <2> QED BY <1>3, <1>6, <1>12, <1>14, <2>1 DEF SendAnswerLost, CallTypes
<1>15. CASE RequestFails(c)
  BY <1>3, <1>6, <1>7, <1>15 DEF RequestFails, CallTypes
<1>16. CASE PollNotFound(c)
  <2>1. polls' = [polls EXCEPT ![c] = @ + 1] /\ polls[c] < MaxPolls
        /\ asked' = asked /\ pc' = pc /\ tx' = tx /\ answer' = answer /\ netVars' = netVars
    BY <1>16 DEF PollNotFound
  <2>2. polls' \in [Calls -> 0..MaxPolls]
    BY <2>1, NetworkAssumption DEF CallTypes
  <2> QED BY <1>7, <2>1, <2>2 DEF CallTypes
<1>17. CASE PollTimesOut(c)
  BY <1>2, <1>4, <1>6, <1>7, <1>17 DEF PollTimesOut, CallTypes
<1>18. ASSUME NEW a \in applied, NEW found, found = a.results \/ found = <<>>
       PROVE  Returned(found, a.ledger) \in AnswerTypes
  <2>1. <<>> \in Seq(BOOLEAN)
    OBVIOUS
  <2>2. found \in Seq(BOOLEAN) /\ a.ledger \in WindowStarts
    BY <1>18, <2>1 DEF NetTypes
  <2> QED BY <2>2, AnswersAreTyped
<1>19. CASE PollProofFound(c)
  <2>1. PICK a \in applied, value \in HasValue, diagnostics \in HasEvents :
          /\ PollFinds(c, a, "verify_proof")
          /\ Ends(c, IF a.status = "failed" THEN Thrown("TRANSACTION_REJECTED")
                     ELSE IF DecodeVerifyReturnValue(a.results, value, diagnostics) = <<>>
                       THEN Thrown("CONTRACT_INVOCATION_FAILED")
                     ELSE Returned(DecodeVerifyReturnValue(a.results, value, diagnostics),
                                   a.ledger))
    BY <1>19 DEF PollProofFound
  <2> DEFINE found == DecodeVerifyReturnValue(a.results, value, diagnostics)
  <2>2. found = a.results \/ found = <<>>
    BY DEF DecodeVerifyReturnValue
  <2>3. asked' = asked /\ tx' = tx /\ polls' = polls /\ netVars' = netVars
    BY <2>1 DEF PollFinds
  <2> HIDE DEF found
  <2>4. PICK with \in AnswerTypes : Ends(c, with)
    BY <1>2, <1>4, <1>18, <2>1, <2>2 DEF found
  <2> QED BY <1>6, <1>7, <2>3, <2>4 DEF CallTypes
<1>20. CASE PollBatchFound(c)
  <2>1. PICK a \in applied, diagnostics \in HasEvents :
          /\ PollFinds(c, a, "verify_batch")
          /\ Ends(c, IF a.status = "failed" THEN Thrown("TRANSACTION_REJECTED")
                     ELSE Returned(DecodeBoolArray(a.results, diagnostics), a.ledger))
    BY <1>20 DEF PollBatchFound
  <2> DEFINE found == DecodeBoolArray(a.results, diagnostics)
  <2>2. found = a.results \/ found = <<>>
    BY DEF DecodeBoolArray
  <2>3. asked' = asked /\ tx' = tx /\ polls' = polls /\ netVars' = netVars
    BY <2>1 DEF PollFinds
  <2> HIDE DEF found
  <2>4. PICK with \in AnswerTypes : Ends(c, with)
    BY <1>2, <1>4, <1>18, <2>1, <2>2 DEF found
  <2> QED BY <1>6, <1>7, <2>3, <2>4 DEF CallTypes
<1>21. "verify_proof" \in Methods /\ "verify_batch" \in Methods
  BY DEF Methods
<1> QED
  BY <1>8, <1>9, <1>10, <1>11, <1>13, <1>14, <1>15, <1>16, <1>17, <1>19, <1>20, <1>21
  DEF CallStep, BuildProof, BuildBatch, BuildEstimate

\* Neither the network nor the contract changes a call; what the ledger records is typed.
LEMMA NetworkKeepsTypes ==
  ASSUME TypeOK, LedgerInv, CallTypes, NetTypes, NetworkStep \/ ContractStep \/ UNCHANGED allVars
  PROVE  CallTypes' /\ NetTypes'
<1>1. callVars' = callVars
  BY DEF NetworkStep, ContractStep, allVars, clientVars, ApplyProof, ApplyFails, ApplyBatch, Drop,
         ApplyBatchEntry, ApplyBatchReturn, ApplyBatchAborts
<1>2. CallTypes'
  BY <1>1 DEF callVars, CallTypes
<1>3. ASSUME NEW t \in TxTypes, NEW status, NEW res \in Seq(BOOLEAN)
      PROVE  /\ Outcomes(t, status, res).tx \in TxTypes
             /\ Outcomes(t, status, res).results \in Seq(BOOLEAN)
             /\ Outcomes(t, status, res).ledger \in WindowStarts
  <2>1. ledger \in WindowStarts
    BY DEF TypeOK, WindowStarts
  <2> QED BY <1>3, <2>1 DEF Outcomes
<1>4. ASSUME NEW t \in mempool, ApplyProof(t)
      PROVE  NetTypes'
  <2> DEFINE b == Outcome(store, t.caller, t.items[1]) = "true"
             o == Outcomes(t, "ok", <<b>>)
  <2>1. /\ mempool' \subseteq mempool /\ applied' = applied \cup {o} /\ applying' = applying
        /\ running' = running /\ t \in TxTypes
    BY <1>4 DEF ApplyProof, Leaves, VerifyProof, batchVars, NetTypes
  <2>2. <<b>> \in Seq(BOOLEAN)
    <3>1. b \in BOOLEAN
      OBVIOUS
    <3> HIDE DEF b
    <3> QED BY <3>1
  <2>3. o.tx \in TxTypes /\ o.results \in Seq(BOOLEAN) /\ o.ledger \in WindowStarts
    <3> HIDE DEF b
    <3> QED BY <1>3, <2>1, <2>2
  <2> HIDE DEF o
  <2> QED BY <2>1, <2>3 DEF NetTypes
<1>5. ASSUME NEW t \in mempool, ApplyFails(t)
      PROVE  NetTypes'
  <2> DEFINE o == Outcomes(t, "failed", <<>>)
  <2>1. /\ mempool' \subseteq mempool /\ applied' = applied \cup {o} /\ applying' = applying
        /\ running' = running /\ t \in TxTypes
    BY <1>5 DEF ApplyFails, Leaves, vars, batchVars, NetTypes
  <2>2. o.tx \in TxTypes /\ o.results \in Seq(BOOLEAN) /\ o.ledger \in WindowStarts
    <3>1. <<>> \in Seq(BOOLEAN)
      OBVIOUS
    <3> QED BY <1>3, <2>1, <3>1
  <2> HIDE DEF o
  <2> QED BY <2>1, <2>2 DEF NetTypes
<1>6. ASSUME NEW t \in mempool, ApplyBatch(t)
      PROVE  NetTypes'
  BY <1>6 DEF ApplyBatch, Leaves, NetTypes
<1>7. ASSUME NEW t \in mempool, Drop(t)
      PROVE  NetTypes'
  BY <1>7 DEF Drop, vars, batchVars, NetTypes
<1>8. CASE ApplyBatchEntry
  BY <1>2, <1>8 DEF ApplyBatchEntry, clientVars, netVars, BatchEntry, NetTypes
<1>9. ASSUME NEW status, NEW res \in Seq(BOOLEAN), running, running' = FALSE,
             applied' = applied \cup {Outcomes(applying, status, res)}, mempool' = mempool
      PROVE  NetTypes'
  <2> DEFINE o == Outcomes(applying, status, res)
  <2>1. o.tx \in TxTypes /\ o.results \in Seq(BOOLEAN) /\ o.ledger \in WindowStarts
    BY <1>3, <1>9 DEF NetTypes
  <2>2. applied' = applied \cup {o}
    BY <1>9
  <2> HIDE DEF o
  <2> QED BY <1>9, <2>1, <2>2 DEF NetTypes
<1>10. CASE ApplyBatchReturn
  <2>1. results \in Seq(BOOLEAN)
    BY DEF TypeOK
  <2> QED BY <1>2, <1>9, <1>10, <2>1 DEF ApplyBatchReturn, BatchReturn, EndBatch
<1>11. CASE ApplyBatchAborts
  <2>1. <<>> \in Seq(BOOLEAN)
    OBVIOUS
  <2> QED BY <1>2, <1>9, <1>11, <2>1 DEF ApplyBatchAborts, BatchFails, BatchOutOfBudget, EndBatch
<1>12. CASE ContractStep \/ UNCHANGED allVars
  <2>1. netVars' = netVars
    BY <1>12 DEF ContractStep, allVars, clientVars
  <2>2. running' = running
    BY <1>12
    DEF ContractStep, AdminStep, SetLimits, UpdateVk, SetAllowlistMode, SetPaused, AddToAllowlist,
        RemoveFromAllowlist, ProposeAdmin, AcceptAdmin, Upgrade, AdvanceLedger, batchVars,
        allVars, vars
  <2> QED BY <1>2, <2>1, <2>2 DEF netVars, NetTypes
<1> QED BY <1>2, <1>4, <1>5, <1>6, <1>7, <1>8, <1>10, <1>11, <1>12 DEF NetworkStep

\* The invariants of the contract, of the calls and of their types hold together.
LEMMA TypedInvAlways == ClientSpec => [](IInv /\ ClientInv /\ CallTypes /\ NetTypes)
<1>1. ClientInit => IInv /\ ClientInv /\ CallTypes /\ NetTypes
  <2> SUFFICES ASSUME ClientInit PROVE IInv /\ ClientInv /\ CallTypes /\ NetTypes
    OBVIOUS
  <2>1. IInv /\ ClientInv
    BY InitIInv, ClientInitInv DEF ClientInit
  <2>2. CallTypes
    BY AnswersAreTyped, NetworkAssumption DEF ClientInit, CallTypes, Places
  <2>3. NetTypes
    BY DEF ClientInit, Init, NetTypes
  <2> QED BY <2>1, <2>2, <2>3
<1>2. IInv /\ ClientInv /\ CallTypes /\ NetTypes /\ [ClientNext]_allVars
        => (IInv /\ ClientInv /\ CallTypes /\ NetTypes)'
  <2> SUFFICES ASSUME IInv, ClientInv, CallTypes, NetTypes, [ClientNext]_allVars
               PROVE  IInv' /\ ClientInv' /\ CallTypes' /\ NetTypes'
    OBVIOUS
  <2>1. TypeOK /\ LedgerInv
    BY DEF IInv, ClientInv
  <2>2. IInv'
    BY <2>1, ClientKeepsContract
  <2>3. ClientInv'
    BY ClientStepInv, ClientStutters
  <2>4. CallTypes' /\ NetTypes'
    BY <2>1, CallKeepsTypes, NetworkKeepsTypes DEF ClientNext
  <2> QED BY <2>2, <2>3, <2>4
<1> QED BY <1>1, <1>2, PTL DEF ClientSpec

\* Calls, transactions, answers and the ledger's record have their types, and a
\* transaction is being applied exactly while the contract runs a batch.
THEOREM ClientTypeCorrect == ClientSpec => []ClientTypeOK
<1>1. ASSUME IInv, ClientInv, CallTypes, NetTypes
      PROVE  ClientTypeOK
  <2>1. TypeOK /\ sequence \in [Callers -> Nat]
    BY <1>1 DEF IInv, ClientInv, LedgerInv
  <2>2. \A a \in applied : a.tx \in TxTypes /\ a.status \in {"ok", "failed"}
    BY <1>1 DEF ClientInv, LedgerInv, NetTypes
  <2>3. applying \in TxTypes \cup {NoTx} /\ (running <=> applying # NoTx)
    BY <1>1, NoTxAssumption DEF ClientInv, LedgerInv, NetTypes
  <2> QED BY <1>1, <2>1, <2>2, <2>3
          DEF CallTypes, NetTypes, ClientTypeOK, Places, AnswerTypes
<1> QED BY <1>1, TypedInvAlways, PTL

\* What the contract promises holds while any number of SDK calls race to submit to it,
\* for batches of any length: budgets, counts, the answers of a batch, and who may
\* nominate an admin.
THEOREM ContractHoldsUnderClients ==
  ClientSpec => [](RateBound /\ BudgetExact /\ CountMatchesEvents /\ BatchAnswers
                     /\ NominationByCurrentAdmin)
<1>1. IInv => RateBound /\ BudgetExact /\ CountMatchesEvents /\ BatchAnswers
                /\ NominationByCurrentAdmin
  BY CurrentIsCounted
  DEF IInv, Agree, UsedWithin, RateBound, GetConfig, UsedExact, BudgetExact, Tallied,
      CountMatchesEvents
<1> QED BY <1>1, TypedInvAlways, PTL
=============================================================================
