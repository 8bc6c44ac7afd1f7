------------------------------ MODULE Registry ------------------------------
(***************************************************************************)
(* The multi-circuit proof registry, contracts/registry/src/lib.rs.        *)
(*                                                                         *)
(* A call into the contract runs alone: the host applies the calls that    *)
(* touch one contract one after the other.  What a call wrote and the      *)
(* events it published take effect together when it returns, and all of    *)
(* it is dropped when it panics or runs out of its resource budget.        *)
(* verify_batch is therefore one step per entry over a working copy of the *)
(* storage (wNullifiers), committed or dropped at the end; every other     *)
(* call is one step.                                                       *)
(***************************************************************************)
EXTENDS Naturals, Sequences, FiniteSets

CONSTANTS
  Accounts,      \* addresses that can be admin
  NoAccount,     \* the PendingAdmin key is absent
  FirstAdmin,    \* the admin given to the constructor
  Wasms,         \* hashes of uploaded contract code
  ThisCode,      \* the hashes whose code is this source
  FirstWasm,     \* the code the contract is deployed with
  Ids,           \* circuit ids
  Keys,          \* verifying keys an admin may register
  NoKey,         \* the Circuit(id) key is absent
  IcLen,         \* vk.ic.len() of each key
  Proofs,        \* (proof_a, proof_b, proof_c) triples
  Inputs,        \* public input vectors, sequences of 32-byte words
  Pairing,       \* the outcome of parsing and of the pairing equation
  MaxBatch       \* bound: the longest batch a caller submits

\* What the parse of the proof and the pairing equation can say of a key, a
\* proof and an input vector: the equation holds, it does not, or the host
\* stops the call (a proof part of the wrong length, bytes off the curve).
PairingOutcomes == {"accept", "reject", "trap"}

ASSUME AccountsAssumption == NoAccount \notin Accounts /\ FirstAdmin \in Accounts
ASSUME WasmAssumption == FirstWasm \in ThisCode /\ ThisCode \subseteq Wasms
ASSUME KeysAssumption == NoKey \notin Keys /\ IcLen \in [Keys -> Nat]
ASSUME InputsAssumption == \A pi \in Inputs : Len(pi) \in Nat
ASSUME PairingAssumption == Pairing \in [Keys \X Proofs \X Inputs -> PairingOutcomes]
ASSUME MaxBatchAssumption == MaxBatch \in Nat

VARIABLES
  admin,         \* DataKey::Admin
  pendingAdmin,  \* DataKey::PendingAdmin, or NoAccount
  wasm,          \* the executable the contract runs
  circuit,       \* DataKey::Circuit(id), or NoKey
  active,        \* DataKey::CircuitActive(id), FALSE when absent
  nullifiers,    \* the DataKey::Nullifier keys present in persistent storage
  archived,      \* those of them whose entry the ledger has archived
  running,       \* a verify_batch call is being executed
  batch,         \* its argument
  wNullifiers,   \* its working copy of nullifiers
  results,       \* the vec it has built so far
  events,        \* the events it has published so far
  receipt,       \* history: what the last verify call left on the ledger
  accepted,      \* history: successful verifications on the ledger per pair
  wAccepted,     \* history: accepted, as the running batch would leave it
  proposer       \* history: who made the proposal now pending

adminVars == <<admin, pendingAdmin, proposer>>
circuitVars == <<circuit, active>>
storeVars == <<nullifiers, archived>>
batchVars == <<running, batch, wNullifiers, results, events, wAccepted>>
historyVars == <<receipt, accepted>>
vars == <<adminVars, wasm, circuitVars, storeVars, batchVars, historyVars>>

Items == [id : Ids, proof : Proofs, inputs : Inputs]
Pairs == Ids \X Inputs
PairOf(item) == <<item.id, item.inputs>>

\* sha256 of the concatenated words.  Two vectors of words concatenate to the
\* same bytes only when they are equal, and sha256 is taken free of collisions.
InputsHash(inputs) == <<"sha256", inputs>>

\* Fault: the nullifier is the inputs hash, for every circuit the same.
NullifierIgnoresCircuit(id, hash) == <<"sha256", hash>>

\* sha256 of the circuit id and the inputs hash.
Nullifier(id, hash) == <<"sha256", id, hash>>

NullifierOf(pair) == Nullifier(pair[1], InputsHash(pair[2]))

Receipt(call, status, res, evs) ==
  [call |-> call, status |-> status, results |-> res, events |-> evs]
NoReceipt == Receipt("none", "none", <<>>, <<>>)
Aborted(call, cause) == Receipt(call, cause, <<>>, <<>>)
Committed(call, res, evs) == Receipt(call, "ok", res, evs)

VerificationResult(success, inputs) == [success |-> success, inputsHash |-> InputsHash(inputs)]

-----------------------------------------------------------------------------
(* The constructor. *)
Init ==
  /\ admin = FirstAdmin
  /\ pendingAdmin = NoAccount
  /\ proposer = NoAccount
  /\ wasm = FirstWasm
  /\ circuit = [id \in Ids |-> NoKey]
  /\ active = [id \in Ids |-> FALSE]
  /\ nullifiers = {}
  /\ archived = {}
  /\ running = FALSE
  /\ batch = <<>>
  /\ wNullifiers = {}
  /\ results = <<>>
  /\ events = <<>>
  /\ receipt = NoReceipt
  /\ accepted = [p \in Pairs |-> 0]
  /\ wAccepted = [p \in Pairs |-> 0]

\* A call can start: no other call is running, and the code is this code.
Idle == ~running /\ wasm \in ThisCode

-----------------------------------------------------------------------------
(* The two-step admin handoff and the admin's operations. *)

\* Fault: a proposal takes effect at once.
ProposeAdminOneStep(auth, newAdmin) ==
  /\ Idle
  /\ auth = admin
  /\ admin' = newAdmin
  /\ UNCHANGED <<pendingAdmin, proposer, wasm, circuitVars, storeVars, batchVars, historyVars>>

ProposeAdmin(auth, newAdmin) ==
  /\ Idle
  /\ auth = admin
  /\ pendingAdmin' = newAdmin
  /\ proposer' = auth
  /\ UNCHANGED <<admin, wasm, circuitVars, storeVars, batchVars, historyVars>>

\* Fault: the accepted proposal is not removed.
AcceptAdminKeepsProposal(auth) ==
  /\ Idle
  /\ pendingAdmin # NoAccount
  /\ auth = pendingAdmin
  /\ admin' = pendingAdmin
  /\ UNCHANGED <<pendingAdmin, proposer, wasm, circuitVars, storeVars, batchVars, historyVars>>

AcceptAdmin(auth) ==
  /\ Idle
  /\ pendingAdmin # NoAccount
  /\ auth = pendingAdmin
  /\ admin' = pendingAdmin
  /\ pendingAdmin' = NoAccount
  /\ proposer' = NoAccount
  /\ UNCHANGED <<wasm, circuitVars, storeVars, batchVars, historyVars>>

Upgrade(auth, newWasm) ==
  /\ Idle
  /\ auth = admin
  /\ wasm' = newWasm
  /\ UNCHANGED <<adminVars, circuitVars, storeVars, batchVars, historyVars>>

RegisterCircuit(auth, id, vk) ==
  /\ Idle
  /\ auth = admin
  /\ circuit' = [circuit EXCEPT ![id] = vk]
  /\ active' = [active EXCEPT ![id] = TRUE]
  /\ UNCHANGED <<adminVars, wasm, storeVars, batchVars, historyVars>>

\* Fault: the flag is flipped, so an unknown circuit becomes active.
RemoveCircuitFlips(auth, id) ==
  /\ Idle
  /\ auth = admin
  /\ active' = [active EXCEPT ![id] = ~@]
  /\ UNCHANGED <<adminVars, wasm, circuit, storeVars, batchVars, historyVars>>

RemoveCircuit(auth, id) ==
  /\ Idle
  /\ auth = admin
  /\ active' = [active EXCEPT ![id] = FALSE]
  /\ UNCHANGED <<adminVars, wasm, circuit, storeVars, batchVars, historyVars>>

-----------------------------------------------------------------------------
(* Verification. *)

\* run_verification: the shape of the inputs is looked at before the proof
\* bytes are, so a malformed proof stops the call only when the shape fits.
RunVerification(item) ==
  LET vk == circuit[item.id] IN
  IF vk = NoKey \/ Len(item.inputs) + 1 # IcLen[vk]
    THEN "reject"
    ELSE Pairing[vk, item.proof, item.inputs]

\* Fault: the replay check reads the storage as it was before the call.
VerdictStaleReplaySet(item, burned) ==
  LET nullifier == Nullifier(item.id, InputsHash(item.inputs)) IN
  IF ~active[item.id] THEN "inactive"
  ELSE IF nullifier \in archived THEN "trap"
  ELSE IF nullifier \in nullifiers THEN "replayed"
  ELSE RunVerification(item)

\* Fault: a removed circuit is recognised by its missing key alone.
VerdictIgnoresRemoval(item, burned) ==
  LET nullifier == Nullifier(item.id, InputsHash(item.inputs)) IN
  IF nullifier \in archived THEN "trap"
  ELSE IF nullifier \in burned THEN "replayed"
  ELSE RunVerification(item)

\* What an entry comes to, given the nullifiers burned so far; verify_proof and
\* the loop of verify_batch decide alike.  Reading an archived entry stops the
\* call.
Verdict(item, burned) ==
  LET nullifier == Nullifier(item.id, InputsHash(item.inputs)) IN
  IF ~active[item.id] THEN "inactive"
  ELSE IF nullifier \in archived THEN "trap"
  ELSE IF nullifier \in burned THEN "replayed"
  ELSE RunVerification(item)

\* Fault: the nullifier is burned before the outcome is known.
BurnAnyway(burned, item, success) ==
  burned \cup {Nullifier(item.id, InputsHash(item.inputs))}

\* Fault: the inputs hash is stored where the nullifier belongs.
BurnInputsHash(burned, item, success) ==
  IF success THEN burned \cup {InputsHash(item.inputs)} ELSE burned

\* The nullifiers present once an entry with this verdict is done.
Burn(burned, item, success) ==
  IF success THEN burned \cup {Nullifier(item.id, InputsHash(item.inputs))} ELSE burned

\* History: an entry with a success event counts for its pair.
Tally(count, item, success) ==
  IF success THEN [count EXCEPT ![PairOf(item)] = @ + 1] ELSE count

VerifyProof(item) ==
  LET verdict == Verdict(item, nullifiers)
      success == verdict = "accept"
  IN
  /\ Idle
  /\ IF verdict = "trap"
       THEN /\ receipt' = Aborted("verify_proof", "trap")
            /\ UNCHANGED <<nullifiers, accepted>>
       ELSE /\ nullifiers' = Burn(nullifiers, item, success)
            /\ accepted' = Tally(accepted, item, success)
            /\ receipt' = Committed("verify_proof", <<success>>,
                                    <<VerificationResult(success, item.inputs)>>)
  /\ UNCHANGED <<adminVars, wasm, circuitVars, archived, batchVars>>

BatchBegin(items) ==
  /\ Idle
  /\ running' = TRUE
  /\ batch' = items
  /\ wNullifiers' = nullifiers
  /\ wAccepted' = accepted
  /\ results' = <<>>
  /\ events' = <<>>
  /\ UNCHANGED <<adminVars, wasm, circuitVars, storeVars, historyVars>>

\* Fault: a replayed entry is answered without its event.
BatchEntrySilentReplay ==
  /\ running
  /\ Len(results) < Len(batch)
  /\ LET item == batch[Len(results) + 1]
         verdict == Verdict(item, wNullifiers)
         success == verdict = "accept"
     IN
     /\ verdict # "trap"
     /\ wNullifiers' = Burn(wNullifiers, item, success)
     /\ wAccepted' = Tally(wAccepted, item, success)
     /\ events' = IF verdict = "replayed" THEN events
                  ELSE Append(events, VerificationResult(success, item.inputs))
     /\ results' = Append(results, success)
  /\ UNCHANGED <<adminVars, wasm, circuitVars, storeVars, historyVars, running, batch>>

\* One turn of the loop over the batch.
BatchEntry ==
  /\ running
  /\ Len(results) < Len(batch)
  /\ LET item == batch[Len(results) + 1]
         verdict == Verdict(item, wNullifiers)
         success == verdict = "accept"
     IN
     /\ verdict # "trap"
     /\ wNullifiers' = Burn(wNullifiers, item, success)
     /\ wAccepted' = Tally(wAccepted, item, success)
     /\ events' = Append(events, VerificationResult(success, item.inputs))
     /\ results' = Append(results, success)
  /\ UNCHANGED <<adminVars, wasm, circuitVars, storeVars, historyVars, running, batch>>

\* The frame of the call is gone.
EndBatch ==
  /\ running' = FALSE
  /\ batch' = <<>>
  /\ wNullifiers' = {}
  /\ wAccepted' = [p \in Pairs |-> 0]
  /\ results' = <<>>
  /\ events' = <<>>
  /\ UNCHANGED <<adminVars, wasm, circuitVars, archived>>

BatchReturn ==
  /\ running
  /\ Len(results) = Len(batch)
  /\ nullifiers' = wNullifiers
  /\ accepted' = wAccepted
  /\ receipt' = Committed("verify_batch", results, events)
  /\ EndBatch

\* An entry stops the call: nothing of the batch remains.
BatchTrap ==
  /\ running
  /\ Len(results) < Len(batch)
  /\ Verdict(batch[Len(results) + 1], wNullifiers) = "trap"
  /\ receipt' = Aborted("verify_batch", "trap")
  /\ UNCHANGED <<nullifiers, accepted>>
  /\ EndBatch

\* The host stops the call at any point when its resource budget is spent.
BatchOutOfBudget ==
  /\ running
  /\ receipt' = Aborted("verify_batch", "budget")
  /\ UNCHANGED <<nullifiers, accepted>>
  /\ EndBatch

-----------------------------------------------------------------------------
(* The life of a persistent entry: the ledger archives it when its time to  *)
(* live is over, keeps its value, and gives it back when it is restored.    *)

\* Fault: nullifiers are kept in temporary storage, which expires for good.
ArchiveNullifierForGood(n) ==
  /\ ~running
  /\ n \in nullifiers \ archived
  /\ nullifiers' = nullifiers \ {n}
  /\ UNCHANGED <<adminVars, wasm, circuitVars, archived, batchVars, historyVars>>

ArchiveNullifier(n) ==
  /\ ~running
  /\ n \in nullifiers \ archived
  /\ archived' = archived \cup {n}
  /\ UNCHANGED <<adminVars, wasm, circuitVars, nullifiers, batchVars, historyVars>>

RestoreNullifier(n) ==
  /\ ~running
  /\ n \in archived
  /\ archived' = archived \ {n}
  /\ UNCHANGED <<adminVars, wasm, circuitVars, nullifiers, batchVars, historyVars>>

-----------------------------------------------------------------------------
Batches == UNION {[1..n -> Items] : n \in 0..MaxBatch}

BatchStep == BatchEntry \/ BatchReturn \/ BatchTrap \/ BatchOutOfBudget

Next ==
  \/ \E auth, a \in Accounts : ProposeAdmin(auth, a)
  \/ \E auth \in Accounts : AcceptAdmin(auth)
  \/ \E auth \in Accounts, w \in Wasms : Upgrade(auth, w)
  \/ \E auth \in Accounts, id \in Ids, vk \in Keys : RegisterCircuit(auth, id, vk)
  \/ \E auth \in Accounts, id \in Ids : RemoveCircuit(auth, id)
  \/ \E item \in Items : VerifyProof(item)
  \/ \E items \in Batches : BatchBegin(items)
  \/ BatchStep
  \/ \E n \in nullifiers : ArchiveNullifier(n) \/ RestoreNullifier(n)

Spec == Init /\ [][Next]_vars

-----------------------------------------------------------------------------
NullifierSpace == {NullifierOf(p) : p \in Pairs}
Events == [success : BOOLEAN, inputsHash : {InputsHash(pi) : pi \in Inputs}]

TypeOK ==
  /\ admin \in Accounts
  /\ pendingAdmin \in Accounts \cup {NoAccount}
  /\ proposer \in Accounts \cup {NoAccount}
  /\ wasm \in Wasms
  /\ circuit \in [Ids -> Keys \cup {NoKey}]
  /\ active \in [Ids -> BOOLEAN]
  /\ nullifiers \subseteq NullifierSpace
  /\ archived \subseteq NullifierSpace
  /\ running \in BOOLEAN
  /\ batch \in Seq(Items)
  /\ wNullifiers \subseteq NullifierSpace
  /\ results \in Seq(BOOLEAN)
  /\ events \in Seq(Events)
  /\ receipt.results \in Seq(BOOLEAN) /\ receipt.events \in Seq(Events)
  /\ accepted \in [Pairs -> Nat]
  /\ wAccepted \in [Pairs -> Nat]

\* Replay protection: over the whole life of the contract, through removals,
\* re-registrations under another key, batches, panics and archival, at most
\* one verification of a circuit's public inputs succeeds (verify_proof,
\* verify_batch).
AtMostOnce == \A p \in Pairs : accepted[p] <= 1

\* The replay set is exactly what the ledger has accepted: no success goes
\* unrecorded and no call that failed or panicked burns inputs it did not
\* verify.
BurnedIffAccepted ==
  nullifiers = {NullifierOf(p) : p \in {q \in Pairs : accepted[q] > 0}}

\* A circuit that accepts proofs has a verifying key, so the None arm of
\* run_verification is never taken, whatever order of register_circuit and
\* remove_circuit (which also takes ids that were never registered) came before.
ActiveHasKey == \A id \in Ids : active[id] => circuit[id] # NoKey

\* A proposal that accept_admin can act on was made by the admin in office: no
\* nomination of an earlier admin outlives a handoff (propose_admin,
\* accept_admin).
NominationByCurrentAdmin == pendingAdmin # NoAccount => proposer = admin

\* Control changes hands only by consent of both sides: a step that replaces the
\* admin is one that the account proposed by that very admin had to make, and
\* that consumes the proposal (propose_admin, accept_admin).
HandoffByConsent ==
  [][admin' # admin
       => /\ proposer = admin
          /\ admin' = pendingAdmin
          /\ pendingAdmin' = NoAccount]_vars

\* What entry i of the running batch deserves, said without the loop: it is
\* acceptable on the state the call started from, and it is the first
\* acceptable entry of its pair.
Acceptable(item) ==
  /\ active[item.id]
  /\ NullifierOf(PairOf(item)) \notin nullifiers
  /\ RunVerification(item) = "accept"
FirstAcceptable(i) ==
  /\ Acceptable(batch[i])
  /\ \A j \in 1..(i - 1) :
       PairOf(batch[j]) = PairOf(batch[i]) => ~Acceptable(batch[j])

\* verify_batch answers each entry as the position-by-position definition above
\* says, and publishes for it the event that agrees with the answer; an entry's
\* answer depends on the others only through a repeated pair.
BatchAnswers ==
  running =>
    /\ Len(events) = Len(results)
    /\ \A i \in 1..Len(results) :
         /\ results[i] <=> FirstAcceptable(i)
         /\ events[i] = VerificationResult(results[i], batch[i].inputs)

\* The circuits for which a step burns an input vector, and the success events
\* for that vector among those published.
BurnedNow(pi) == {id \in Ids : NullifierOf(<<id, pi>>) \in nullifiers' \ nullifiers}
SuccessEvents(published, pi) ==
  {i \in 1..Len(published) : published[i] = VerificationResult(TRUE, pi)}

\* The step settles a verify call: it burns, or it leaves a new receipt, or it
\* ends a batch.
Settles == nullifiers' # nullifiers \/ receipt' # receipt \/ (running /\ ~running')

\* An event names the inputs and not the circuit, while inputs are burned per
\* circuit.  All the same a call publishes, for each input vector, as many success
\* events as the circuits it burned the vector for, whichever way it ends: a
\* batch over two circuits with the same inputs counts twice, an entry repeated in
\* it once, and a call that the host stops neither burns nor publishes
\* (verify_proof, verify_batch).
SuccessEventsTellBurns ==
  [][Settles => \A pi \in Inputs :
       Cardinality(BurnedNow(pi)) = Cardinality(SuccessEvents(receipt'.events, pi))]_vars

\* What the doc of verify_batch says of a bad entry: it does not affect the
\* others.  So once an entry was accepted no later entry stops the call.
BadEntryAffectsNoOther ==
  running /\ Len(results) < Len(batch) /\ (\E i \in 1..Len(results) : results[i])
    => Verdict(batch[Len(results) + 1], wNullifiers) # "trap"

\* What the doc of is_nullifier_used says: the nullifier to ask for is the inputs
\* hash that the event carries.
IsNullifierUsed(n) == n \in nullifiers
InputsHashIsTheNullifier ==
  \A p \in Pairs : accepted[p] > 0 => IsNullifierUsed(InputsHash(p[2]))
=============================================================================
