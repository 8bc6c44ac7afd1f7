--------------------------- MODULE RegistryClient ---------------------------
(***************************************************************************)
(* The SDK's calls to the registry: verifyViaRegistry and                  *)
(* verifyBatchViaRegistry (sdk/src/verify.ts) and isNullifierUsedOnChain   *)
(* with computeNullifier (sdk/src/nullifier.ts).  They send no transaction:*)
(* each builds one and has an RPC node simulate it on the storage of that  *)
(* moment, while transactions of others go on changing the registry between*)
(* the request, the simulation and the answer.                             *)
(***************************************************************************)
EXTENDS Registry

CONSTANTS
  Calls,        \* the SDK calls of the model
  MaxItems      \* bound: the longest batch an SDK call asks about

ASSUME MaxItemsAssumption == MaxItems \in Nat \ {0}

VARIABLES
  call,        \* the SDK calls: see CallStates
  knownUsed    \* history: pairs an isNullifierUsedOnChain call answered true for

clientVars == <<call, knownUsed>>
registryClientVars == <<vars, clientVars>>

Questions == UNION {[1..n -> Items] : n \in 1..MaxItems}
\* No answer yet, or the call has thrown.
NoAnswer == <<>>
Thrown == <<>>

\* items: what is asked about.  knownBefore, burnedBefore: history, the pairs
\* known to be used, and the pairs used, when the call was made.
Call(phase, op, items, known, burned, answer) ==
  [phase |-> phase, op |-> op, items |-> items,
   knownBefore |-> known, burnedBefore |-> burned, answer |-> answer]
Advance(r, phase, answer) ==
  Call(phase, r.op, r.items, r.knownBefore, r.burnedBefore, answer)
IdleCall == Call("idle", "used", <<>>, {}, {}, NoAnswer)

Used == {p \in Pairs : accepted[p] > 0}

\* Fault: the circuit id is left out of the hash.
ComputeNullifierUnscoped(item) == InputsHash(item.inputs)

\* computeNullifier throws when there are no public inputs.
ComputeNullifier(item) == Nullifier(item.id, InputsHash(item.inputs))

\* A node simulates on the live storage.  It gives an archived entry back for
\* the length of the simulation (restoring), or fails.
SimulatedVerdict(item, burned, restoring) ==
  IF restoring /\ active[item.id] /\ NullifierOf(PairOf(item)) \in archived
    THEN "replayed" ELSE Verdict(item, burned)

SimulateEntry(before, item, restoring) ==
  LET verdict == SimulatedVerdict(item, before.burned, restoring)
  IN  [burned |-> Burn(before.burned, item, verdict = "accept"),
       answers |-> Append(before.answers, verdict = "accept"),
       failed |-> before.failed \/ verdict = "trap"]

SimulateEntries(items, restoring) ==
  LET after[k \in 0..Len(items)] ==
        IF k = 0 THEN [burned |-> nullifiers, answers |-> <<>>, failed |-> FALSE]
        ELSE SimulateEntry(after[k - 1], items[k], restoring)
  IN  after

\* verify_proof is verify_batch of one item to this client.
SimulateVerify(items, restoring) ==
  LET end == SimulateEntries(items, restoring)[Len(items)]
  IN  IF end.failed THEN Thrown ELSE end.answers

SimulateIsNullifierUsed(item, restoring) ==
  IF ComputeNullifier(item) \in archived /\ ~restoring THEN Thrown
  ELSE <<IsNullifierUsed(ComputeNullifier(item))>>

----------------------------------------------------------------------------
\* The arguments are encoded and validated, and the request goes out.
Ask(c, op, items) ==
  /\ call[c].phase = "idle"
  /\ call' = [call EXCEPT ![c] = Call("asked", op, items, knownUsed, Used, NoAnswer)]
  /\ UNCHANGED <<vars, knownUsed>>

VerifyViaRegistry(c, item) == Ask(c, "verify", <<item>>)

VerifyBatchViaRegistry(c, items) == items # <<>> /\ Ask(c, "batch", items)

\* computeNullifier and then isNullifierUsedOnChain.
IsNullifierUsedOnChain(c, item) == Len(item.inputs) > 0 /\ Ask(c, "used", <<item>>)

\* The node simulates; a simulation that fails is an answer that throws.
Simulate(c, restoring) ==
  /\ call[c].phase = "asked"
  /\ wasm \in ThisCode
  /\ LET r == call[c]
         answer == IF r.op = "used" THEN SimulateIsNullifierUsed(r.items[1], restoring)
                   ELSE SimulateVerify(r.items, restoring)
     IN  call' = [call EXCEPT ![c] = Advance(r, "simulated", answer)]
  /\ UNCHANGED <<vars, knownUsed>>

\* The answer reaches the caller.
Answer(c) ==
  /\ call[c].phase = "simulated"
  /\ call' = [call EXCEPT ![c] = Advance(@, "done", @.answer)]
  /\ knownUsed' = IF call[c].op = "used" /\ call[c].answer = <<TRUE>>
                    THEN knownUsed \cup {PairOf(call[c].items[1])} ELSE knownUsed
  /\ UNCHANGED vars

\* A request fails on the way, or the simulation comes back without a result.
RequestFails(c) ==
  /\ call[c].phase \in {"asked", "simulated"}
  /\ call' = [call EXCEPT ![c] = Advance(@, "done", Thrown)]
  /\ UNCHANGED <<vars, knownUsed>>

ClientInit == Init /\ call = [c \in Calls |-> IdleCall] /\ knownUsed = {}

ClientNext ==
  \/ Next /\ UNCHANGED clientVars
  \/ \E c \in Calls :
       \/ \E item \in Items : VerifyViaRegistry(c, item)
       \/ \E items \in Questions : VerifyBatchViaRegistry(c, items)
       \/ \E item \in Items : IsNullifierUsedOnChain(c, item)
       \/ \E restoring \in BOOLEAN : Simulate(c, restoring)
       \/ Answer(c)
       \/ RequestFails(c)

ClientSpec == ClientInit /\ [][ClientNext]_registryClientVars

----------------------------------------------------------------------------
Answered(c) == call[c].phase = "done" /\ call[c].answer # Thrown

\* Once isNullifierUsedOnChain has answered true, no verifyViaRegistry or
\* verifyBatchViaRegistry call made later is ever told that the same inputs
\* verify for that circuit, through removal, re-registration under another key,
\* archival and restoration (nullifier.ts:180-196, lib.rs:200-210); and of the
\* entries of one simulated batch only the first of a pair is, as in the
\* transaction, although nothing is burned on the ledger (verify.ts:679-749).
VerifiedIsFresh ==
  \A c \in Calls : Answered(c) /\ call[c].op # "used" =>
    \A i \in DOMAIN call[c].items :
      call[c].answer[i] =>
        /\ PairOf(call[c].items[i]) \notin call[c].knownBefore
        /\ \A j \in 1..i - 1 :
             call[c].answer[j] => PairOf(call[c].items[j]) # PairOf(call[c].items[i])

\* isNullifierUsedOnChain does not answer false for inputs whose success was on
\* the ledger before it was called: the nullifier the SDK computes is the one the
\* contract burns (nullifier.ts:91-108 against lib.rs:342-358).
UsedIsNotMissed ==
  \A c \in Calls : Answered(c) /\ call[c].op = "used"
    /\ PairOf(call[c].items[1]) \in call[c].burnedBefore => call[c].answer[1]
=============================================================================
