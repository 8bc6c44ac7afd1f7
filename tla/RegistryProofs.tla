--------------------------- MODULE RegistryProofs ---------------------------
(* Theorems about Registry, for every value of its constants. *)
EXTENDS RegistryRefinement, FiniteSetTheorems, FunctionTheorems, TLAPS

\* Two pairs with one nullifier are one pair.
LEMMA NullifierInjective ==
  \A p, q \in Pairs : NullifierOf(p) = NullifierOf(q) => p = q
BY DEF NullifierOf, Nullifier, InputsHash, Pairs

\* The nullifier an entry is looked up under is that of its pair.
LEMMA ItemNullifier ==
  ASSUME NEW item \in Items
  PROVE  /\ PairOf(item) \in Pairs
         /\ PairOf(item)[1] = item.id
         /\ PairOf(item)[2] = item.inputs
         /\ Nullifier(item.id, InputsHash(item.inputs)) = NullifierOf(PairOf(item))
         /\ NullifierOf(PairOf(item)) \in NullifierSpace
BY DEF Items, PairOf, Pairs, NullifierOf, NullifierSpace

\* Burning and counting an entry keep the set of nullifiers and the counts in
\* agreement, when a success is one whose nullifier was not there.
LEMMA BurnAndTally ==
  ASSUME NEW burned, NEW count, NEW item \in Items, NEW success \in BOOLEAN,
         burned \subseteq NullifierSpace, count \in [Pairs -> Nat],
         AtMostOnceIn(count), Agree(burned, count),
         success => NullifierOf(PairOf(item)) \notin burned
  PROVE  /\ Burn(burned, item, success) \subseteq NullifierSpace
         /\ burned \subseteq Burn(burned, item, success)
         /\ Tally(count, item, success) \in [Pairs -> Nat]
         /\ AtMostOnceIn(Tally(count, item, success))
         /\ Agree(Burn(burned, item, success), Tally(count, item, success))
         /\ \A p \in Pairs : Tally(count, item, success)[p] # count[p]
              => /\ success /\ p = PairOf(item)
                 /\ count[p] = 0
<1> DEFINE q == PairOf(item)
           n == NullifierOf(q)
<1>1. /\ q \in Pairs /\ n \in NullifierSpace
      /\ Nullifier(item.id, InputsHash(item.inputs)) = n
  BY ItemNullifier
<1>2. CASE ~success
  BY <1>2, <1>1 DEF Burn, Tally
<1>3. CASE success
  <2>1. count[q] = 0
    BY <1>1, <1>3 DEF AtMostOnceIn, Agree
  <2>2. Burn(burned, item, success) = burned \cup {n}
    BY <1>1, <1>3 DEF Burn
  <2>3. Tally(count, item, success) = [count EXCEPT ![q] = @ + 1]
    BY <1>3 DEF Tally
  <2>4. \A p \in Pairs : [count EXCEPT ![q] = @ + 1][p] = IF p = q THEN 1 ELSE count[p]
    BY <1>1, <2>1
  <2>5. \A p \in Pairs : NullifierOf(p) = n => p = q
    BY <1>1, NullifierInjective
  <2> HIDE DEF n, q
  <2>6. Agree(burned \cup {n}, [count EXCEPT ![q] = @ + 1])
    <3>1. SUFFICES ASSUME NEW p \in Pairs
                   PROVE  NullifierOf(p) \in burned \cup {n}
                            <=> [count EXCEPT ![q] = @ + 1][p] = 1
      BY DEF Agree
    <3>2. CASE p = q
      BY <3>2, <2>4 DEF n
    <3>3. CASE p # q
      BY <3>3, <2>4, <2>5 DEF Agree
    <3> QED BY <3>2, <3>3
  <2>7. AtMostOnceIn([count EXCEPT ![q] = @ + 1])
    BY <2>4 DEF AtMostOnceIn
  <2>8. [count EXCEPT ![q] = @ + 1] \in [Pairs -> Nat]
    BY <1>1, <2>1
  <2>9. \A p \in Pairs : [count EXCEPT ![q] = @ + 1][p] # count[p] => p = q /\ count[p] = 0
    BY <2>1, <2>4
  <2> QED
    BY <1>1, <1>3, <2>2, <2>3, <2>6, <2>7, <2>8, <2>9 DEF q
<1> QED BY <1>2, <1>3

-----------------------------------------------------------------------------
(* Type correctness. *)

\* An entry's verdict is a value of its own, so success is a Boolean.
LEMMA RunVerificationTraps ==
  ASSUME NEW item \in Items, NEW burned, Verdict(item, burned) = "accept"
  PROVE  /\ RunVerification(item) = "accept"
         /\ active[item.id]
         /\ Nullifier(item.id, InputsHash(item.inputs)) \notin burned
         /\ Nullifier(item.id, InputsHash(item.inputs)) \notin archived
BY DEF Verdict

\* The event of an entry is an event.
LEMMA EventType ==
  ASSUME NEW item \in Items, NEW success \in BOOLEAN
  PROVE  VerificationResult(success, item.inputs) \in Events
BY DEF VerificationResult, Events, Items

\* Whatever the outcome, burning and counting an entry respect the types.
LEMMA BurnAndTallyType ==
  ASSUME NEW burned, NEW count, NEW item \in Items, NEW success \in BOOLEAN,
         burned \subseteq NullifierSpace, count \in [Pairs -> Nat]
  PROVE  /\ Burn(burned, item, success) \subseteq NullifierSpace
         /\ burned \subseteq Burn(burned, item, success)
         /\ Tally(count, item, success) \in [Pairs -> Nat]
<1>1. /\ PairOf(item) \in Pairs
      /\ Nullifier(item.id, InputsHash(item.inputs)) \in NullifierSpace
  BY ItemNullifier
<1>2. Burn(burned, item, success) \subseteq NullifierSpace
      /\ burned \subseteq Burn(burned, item, success)
  BY <1>1 DEF Burn
<1>3. Tally(count, item, success) \in [Pairs -> Nat]
  BY <1>1 DEF Tally
<1> QED BY <1>2, <1>3

\* The constructor starts the contract in a state of the right type.
LEMMA InitType == Init => TypeOK
<1> SUFFICES ASSUME Init PROVE TypeOK
  OBVIOUS
<1>1. receipt.results = <<>> /\ receipt.events = <<>>
  BY DEF Init, NoReceipt, Receipt
<1>2. /\ admin \in Accounts /\ wasm \in Wasms
      /\ pendingAdmin \in Accounts \cup {NoAccount}
      /\ proposer \in Accounts \cup {NoAccount}
  BY AccountsAssumption, WasmAssumption DEF Init
<1>3. circuit \in [Ids -> Keys \cup {NoKey}] /\ active \in [Ids -> BOOLEAN]
  BY DEF Init
<1>4. accepted \in [Pairs -> Nat] /\ wAccepted \in [Pairs -> Nat]
  BY DEF Init
<1>5. /\ nullifiers = {} /\ archived = {} /\ wNullifiers = {} /\ running = FALSE
      /\ batch = <<>> /\ results = <<>> /\ events = <<>>
  BY DEF Init
<1> QED
  <2>1. /\ nullifiers \subseteq NullifierSpace
        /\ archived \subseteq NullifierSpace
        /\ wNullifiers \subseteq NullifierSpace
    BY <1>5
  <2>2. batch \in Seq(Items) /\ results \in Seq(BOOLEAN) /\ events \in Seq(Events)
    BY <1>5
  <2>3. receipt.results \in Seq(BOOLEAN) /\ receipt.events \in Seq(Events)
    BY <1>1
  <2> QED
    BY <1>2, <1>3, <1>4, <1>5, <2>1, <2>2, <2>3 DEF TypeOK

\* A call that has ended leaves an empty frame.
LEMMA EndBatchType ==
  ASSUME EndBatch
  PROVE  /\ running' \in BOOLEAN
         /\ batch' \in Seq(Items)
         /\ wNullifiers' \subseteq NullifierSpace
         /\ results' \in Seq(BOOLEAN)
         /\ events' \in Seq(Events)
         /\ wAccepted' \in [Pairs -> Nat]
         /\ UNCHANGED <<adminVars, wasm, circuitVars, archived>>
<1>1. batch' = <<>> /\ results' = <<>> /\ events' = <<>>
  BY DEF EndBatch
<1>2. /\ running' = FALSE /\ wNullifiers' = {}
      /\ UNCHANGED <<adminVars, wasm, circuitVars, archived>>
  BY DEF EndBatch
<1>3. wAccepted' \in [Pairs -> Nat]
  BY DEF EndBatch
<1>4. batch' \in Seq(Items) /\ results' \in Seq(BOOLEAN) /\ events' \in Seq(Events)
  BY <1>1
<1> QED
  BY <1>2, <1>3, <1>4

\* Every step of every call leaves the state of the right type.
LEMMA NextType == TypeOK /\ [Next]_vars => TypeOK'
<1> SUFFICES ASSUME TypeOK, [Next]_vars PROVE TypeOK'
  OBVIOUS
<1> USE DEF adminVars, circuitVars, storeVars, batchVars, historyVars
<1>1. ASSUME NEW auth \in Accounts, NEW a \in Accounts, ProposeAdmin(auth, a)
      PROVE  TypeOK'
  BY <1>1 DEF TypeOK, ProposeAdmin
<1>2. ASSUME NEW auth \in Accounts, AcceptAdmin(auth)
      PROVE  TypeOK'
  BY <1>2 DEF TypeOK, AcceptAdmin
<1>3. ASSUME NEW auth \in Accounts, NEW w \in Wasms, Upgrade(auth, w)
      PROVE  TypeOK'
  BY <1>3 DEF TypeOK, Upgrade
<1>4. ASSUME NEW auth \in Accounts, NEW id \in Ids, NEW vk \in Keys,
             RegisterCircuit(auth, id, vk)
      PROVE  TypeOK'
  BY <1>4 DEF TypeOK, RegisterCircuit
<1>5. ASSUME NEW auth \in Accounts, NEW id \in Ids, RemoveCircuit(auth, id)
      PROVE  TypeOK'
  BY <1>5 DEF TypeOK, RemoveCircuit
<1>6. ASSUME NEW item \in Items, VerifyProof(item)
      PROVE  TypeOK'
  <2> DEFINE success == Verdict(item, nullifiers) = "accept"
  <2>1. CASE Verdict(item, nullifiers) = "trap"
    <3>1. receipt'.results = <<>> /\ receipt'.events = <<>>
      BY <1>6, <2>1 DEF VerifyProof, Aborted, Receipt
    <3> QED
      BY <1>6, <2>1, <3>1 DEF TypeOK, VerifyProof
  <2>2. CASE Verdict(item, nullifiers) # "trap"
    <3>1. /\ receipt'.results = <<success>>
          /\ receipt'.events = <<VerificationResult(success, item.inputs)>>
      BY <1>6, <2>2 DEF VerifyProof, Committed, Receipt
    <3>2. /\ Burn(nullifiers, item, success) \subseteq NullifierSpace
          /\ nullifiers \subseteq Burn(nullifiers, item, success)
          /\ Tally(accepted, item, success) \in [Pairs -> Nat]
      BY BurnAndTallyType DEF TypeOK
    <3>3. VerificationResult(success, item.inputs) \in Events
      BY EventType
    <3> HIDE DEF success
    <3>4. success \in BOOLEAN
      BY DEF success
    <3>5. /\ nullifiers' = Burn(nullifiers, item, success)
          /\ accepted' = Tally(accepted, item, success)
          /\ UNCHANGED <<adminVars, wasm, circuitVars, archived, batchVars>>
      BY <1>6, <2>2 DEF VerifyProof, success
    <3> QED
      BY <3>1, <3>2, <3>3, <3>4, <3>5 DEF TypeOK
  <2> QED BY <2>1, <2>2
<1>7. ASSUME NEW items \in Batches, BatchBegin(items)
      PROVE  TypeOK'
  <2>1. items \in Seq(Items)
    BY DEF Batches
  <2> QED
    BY <1>7, <2>1 DEF TypeOK, BatchBegin
<1>8. CASE BatchEntry
  <2> DEFINE item == batch[Len(results) + 1]
             success == Verdict(item, wNullifiers) = "accept"
  <2>1. item \in Items
    BY <1>8 DEF BatchEntry, TypeOK
  <2>2. /\ wNullifiers' = Burn(wNullifiers, item, success)
        /\ wAccepted' = Tally(wAccepted, item, success)
        /\ events' = Append(events, VerificationResult(success, item.inputs))
        /\ results' = Append(results, success)
        /\ UNCHANGED <<adminVars, wasm, circuitVars, storeVars, historyVars, running, batch>>
    BY <1>8 DEF BatchEntry
  <2>3. success \in BOOLEAN
    OBVIOUS
  <2> HIDE DEF success, item
  <2>4. VerificationResult(success, item.inputs) \in Events
    BY <2>1, <2>3, EventType
  <2>5. /\ Burn(wNullifiers, item, success) \subseteq NullifierSpace
        /\ Tally(wAccepted, item, success) \in [Pairs -> Nat]
    BY <2>1, <2>3, BurnAndTallyType DEF TypeOK
  <2> QED
    BY <2>2, <2>3, <2>4, <2>5 DEF TypeOK
<1>9. CASE BatchReturn
  <2>1. receipt'.results = results /\ receipt'.events = events
    BY <1>9 DEF BatchReturn, Committed, Receipt
  <2>2. EndBatch
    BY <1>9 DEF BatchReturn
  <2> QED
    BY <1>9, <2>1, <2>2, EndBatchType DEF TypeOK, BatchReturn
<1>10. CASE BatchTrap
  <2>1. receipt'.results = <<>> /\ receipt'.events = <<>>
    BY <1>10 DEF BatchTrap, Aborted, Receipt
  <2>2. EndBatch
    BY <1>10 DEF BatchTrap
  <2>3. receipt'.results \in Seq(BOOLEAN) /\ receipt'.events \in Seq(Events)
    BY <2>1
  <2>4. UNCHANGED <<nullifiers, accepted>>
    BY <1>10 DEF BatchTrap
  <2> QED
    BY <2>2, <2>3, <2>4, EndBatchType DEF TypeOK
<1>11. CASE BatchOutOfBudget
  <2>1. receipt'.results = <<>> /\ receipt'.events = <<>>
    BY <1>11 DEF BatchOutOfBudget, Aborted, Receipt
  <2>2. EndBatch
    BY <1>11 DEF BatchOutOfBudget
  <2>3. receipt'.results \in Seq(BOOLEAN) /\ receipt'.events \in Seq(Events)
    BY <2>1
  <2>4. UNCHANGED <<nullifiers, accepted>>
    BY <1>11 DEF BatchOutOfBudget
  <2> QED
    BY <2>2, <2>3, <2>4, EndBatchType DEF TypeOK
<1>12. ASSUME NEW n \in nullifiers, ArchiveNullifier(n) \/ RestoreNullifier(n)
       PROVE  TypeOK'
  BY <1>12 DEF TypeOK, ArchiveNullifier, RestoreNullifier
<1>13. CASE UNCHANGED vars
  BY <1>13 DEF TypeOK, vars
<1> QED
  BY <1>1, <1>2, <1>3, <1>4, <1>5, <1>6, <1>7, <1>8, <1>9, <1>10, <1>11, <1>12, <1>13
  DEF Next, BatchStep

\* The state of the registry always has its type.
THEOREM TypeCorrect == Spec => []TypeOK
<1>1. Init => TypeOK
  BY InitType
<1>2. TypeOK /\ [Next]_vars => TypeOK'
  BY NextType
<1> QED
  BY <1>1, <1>2, PTL DEF Spec

-----------------------------------------------------------------------------
(* The inductive invariant. *)

\* The constructor establishes the invariant.
LEMMA InitInv == Init => IInv
<1> SUFFICES ASSUME Init PROVE IInv
  OBVIOUS
<1>1. TypeOK
  BY InitType
<1>2. AtMostOnce /\ Agree(nullifiers, accepted) /\ archived \subseteq nullifiers
  BY DEF Init, AtMostOnce, Agree
<1>3. ActiveHasKey /\ NominationByCurrentAdmin
  BY DEF Init, ActiveHasKey, NominationByCurrentAdmin
<1>4. RunningBatch /\ BatchAnswers
  BY DEF Init, RunningBatch, BatchAnswers
<1> QED
  BY <1>1, <1>2, <1>3, <1>4 DEF IInv

\* A step outside a batch that leaves the replay set and the counts alone keeps
\* what the invariant says of them.
LEMMA QuietStep ==
  ASSUME IInv, ~running', UNCHANGED <<nullifiers, accepted>>
  PROVE  AtMostOnce' /\ Agree(nullifiers, accepted)' /\ RunningBatch' /\ BatchAnswers'
BY DEF IInv, AtMostOnce, Agree, RunningBatch, BatchAnswers

\* A step that leaves the circuits alone keeps every active circuit's key.
LEMMA QuietCircuits ==
  ASSUME IInv, UNCHANGED circuitVars
  PROVE  ActiveHasKey'
BY DEF IInv, ActiveHasKey, circuitVars

\* A step that leaves the admin and the proposal alone keeps the nomination valid.
LEMMA QuietAdmin ==
  ASSUME IInv, UNCHANGED adminVars
  PROVE  NominationByCurrentAdmin'
BY DEF IInv, NominationByCurrentAdmin, adminVars

\* A verify_proof call keeps the replay set in step with the ledger.
LEMMA VerifyProofInv ==
  ASSUME IInv, NEW item \in Items, VerifyProof(item)
  PROVE  /\ AtMostOnce' /\ Agree(nullifiers, accepted)'
         /\ nullifiers \subseteq nullifiers'
<1> DEFINE success == Verdict(item, nullifiers) = "accept"
<1>1. CASE Verdict(item, nullifiers) = "trap"
  BY <1>1 DEF VerifyProof, IInv, AtMostOnce, Agree
<1>2. CASE Verdict(item, nullifiers) # "trap"
  <2>1. /\ nullifiers' = Burn(nullifiers, item, success)
        /\ accepted' = Tally(accepted, item, success)
    BY <1>2 DEF VerifyProof
  <2>2. success => NullifierOf(PairOf(item)) \notin nullifiers
    BY ItemNullifier, RunVerificationTraps
  <2>3. success \in BOOLEAN
    OBVIOUS
  <2> HIDE DEF success
  <2>4. /\ nullifiers \subseteq NullifierSpace /\ accepted \in [Pairs -> Nat]
        /\ AtMostOnceIn(accepted) /\ Agree(nullifiers, accepted)
    BY DEF IInv, TypeOK, AtMostOnce, AtMostOnceIn
  <2>5. /\ nullifiers \subseteq Burn(nullifiers, item, success)
        /\ AtMostOnceIn(Tally(accepted, item, success))
        /\ Agree(Burn(nullifiers, item, success), Tally(accepted, item, success))
    BY <2>2, <2>3, <2>4, BurnAndTally
  <2> QED
    BY <2>1, <2>5 DEF AtMostOnce, AtMostOnceIn, Agree
<1> QED BY <1>1, <1>2

\* Whether an entry is acceptable is settled by storage a running batch only reads.
LEMMA AcceptableStable ==
  ASSUME NEW item, UNCHANGED <<circuit, active, nullifiers>>
  PROVE  Acceptable(item)' = Acceptable(item)
<1>1. RunVerification(item)' = RunVerification(item)
  BY DEF RunVerification
<1> QED
  BY <1>1 DEF Acceptable

\* An accepted entry is provable under the key its circuit holds.
LEMMA AcceptedProvable ==
  ASSUME TypeOK, NEW item \in Items, RunVerification(item) = "accept"
  PROVE  /\ circuit[item.id] \in Keys
         /\ <<circuit[item.id], item.inputs>> \in ProvableUnder
<1>1. item.id \in Ids /\ item.proof \in Proofs /\ item.inputs \in Inputs
  BY DEF Items
<1>2. /\ circuit[item.id] # NoKey
      /\ Len(item.inputs) + 1 = IcLen[circuit[item.id]]
      /\ Pairing[circuit[item.id], item.proof, item.inputs] = "accept"
  BY DEF RunVerification
<1>3. circuit[item.id] \in Keys
  BY <1>1, <1>2 DEF TypeOK
<1> QED
  BY <1>1, <1>2, <1>3 DEF ProvableUnder

\* One turn of the loop of verify_batch keeps the working copy consistent.
LEMMA BatchEntryRunning ==
  ASSUME IInv, BatchEntry
  PROVE  RunningBatch'
<1> DEFINE item == batch[Len(results) + 1]
           success == Verdict(item, wNullifiers) = "accept"
           n == NullifierOf(PairOf(item))
<1>1. /\ item \in Items
      /\ Len(results) \in Nat /\ Len(batch) \in Nat /\ Len(results) < Len(batch)
      /\ results \in Seq(BOOLEAN) /\ batch \in Seq(Items)
      /\ success \in BOOLEAN
  BY DEF BatchEntry, IInv, TypeOK
<1>2. /\ wNullifiers' = Burn(wNullifiers, item, success)
      /\ wAccepted' = Tally(wAccepted, item, success)
      /\ results' = Append(results, success)
      /\ running /\ running' = running
      /\ UNCHANGED <<adminVars, wasm, circuit, active, nullifiers, archived, accepted, batch>>
      /\ Verdict(item, wNullifiers) # "trap"
  BY DEF BatchEntry, circuitVars, storeVars, historyVars
<1>3. /\ wNullifiers \subseteq NullifierSpace /\ wAccepted \in [Pairs -> Nat]
      /\ accepted \in [Pairs -> Nat]
      /\ Agree(wNullifiers, wAccepted) /\ AtMostOnceIn(wAccepted)
      /\ BatchAddsProvable /\ BatchBurnsAcceptable
  BY <1>2 DEF IInv, TypeOK, RunningBatch
<1>4. /\ PairOf(item) \in Pairs /\ PairOf(item)[1] = item.id /\ PairOf(item)[2] = item.inputs
      /\ Nullifier(item.id, InputsHash(item.inputs)) = n
  BY <1>1, ItemNullifier
<1>5. success => /\ RunVerification(item) = "accept" /\ active[item.id]
                 /\ n \notin wNullifiers
  BY <1>1, <1>4, RunVerificationTraps
<1>6. Acceptable(item) => n \in wNullifiers \/ success
  <2> SUFFICES ASSUME Acceptable(item), n \notin wNullifiers PROVE success
    OBVIOUS
  <2>1. active[item.id] /\ RunVerification(item) = "accept" /\ n \notin nullifiers
    BY DEF Acceptable
  <2>2. n \notin archived
    BY <2>1 DEF IInv
  <2> QED
    BY <1>4, <2>1, <2>2 DEF Verdict
<1>7. success => Acceptable(item)
  <2>1. success => n \notin nullifiers
    BY <1>3, <1>5 DEF BatchBurnsAcceptable
  <2> QED BY <1>5, <2>1 DEF Acceptable
<1> HIDE DEF success, item, n
<1>8. /\ Burn(wNullifiers, item, success) \subseteq NullifierSpace
      /\ wNullifiers \subseteq Burn(wNullifiers, item, success)
      /\ AtMostOnceIn(Tally(wAccepted, item, success))
      /\ Agree(Burn(wNullifiers, item, success), Tally(wAccepted, item, success))
      /\ \A p \in Pairs : Tally(wAccepted, item, success)[p] # wAccepted[p]
           => success /\ p = PairOf(item) /\ wAccepted[p] = 0
  <2>1. success => NullifierOf(PairOf(item)) \notin wNullifiers
    BY <1>5 DEF n
  <2>2. item \in Items /\ success \in BOOLEAN
    BY <1>1
  <2>3. /\ wNullifiers \subseteq NullifierSpace /\ wAccepted \in [Pairs -> Nat]
        /\ AtMostOnceIn(wAccepted) /\ Agree(wNullifiers, wAccepted)
    BY <1>3
  <2> QED
    BY <2>1, <2>2, <2>3, BurnAndTally
<1>9. Len(results') = Len(results) + 1 /\ Len(results') <= Len(batch')
  BY <1>1, <1>2
<1>10. Agree(wNullifiers, wAccepted)' /\ AtMostOnceIn(wAccepted)'
  BY <1>2, <1>8 DEF Agree, AtMostOnceIn
<1>11. BatchAddsProvable'
  <2> SUFFICES ASSUME NEW p \in Pairs, wAccepted'[p] # accepted[p]
               PROVE  /\ accepted[p] = 0
                      /\ active[p[1]]
                      /\ <<circuit[p[1]], p[2]>> \in ProvableUnder
    BY <1>2 DEF BatchAddsProvable, ProvableUnder
  <2>1. CASE wAccepted'[p] = wAccepted[p]
    BY <1>3, <2>1 DEF BatchAddsProvable
  <2>2. CASE wAccepted'[p] # wAccepted[p]
    <3>1. success /\ p = PairOf(item) /\ wAccepted[p] = 0
      BY <1>2, <1>8, <2>2
    <3>2. accepted[p] = 0
      BY <1>3, <3>1 DEF BatchAddsProvable
    <3>3. RunVerification(item) = "accept" /\ active[item.id] /\ item \in Items /\ TypeOK
      BY <1>1, <1>5, <3>1 DEF IInv
    <3>4. <<circuit[item.id], item.inputs>> \in ProvableUnder
      BY <3>3, AcceptedProvable
    <3> QED
      BY <1>4, <3>1, <3>2, <3>3, <3>4
  <2> QED BY <2>1, <2>2
<1>12. BatchBurnsAcceptable'
  <2>1. nullifiers' \subseteq wNullifiers'
    BY <1>2, <1>3, <1>8 DEF BatchBurnsAcceptable
  <2>2. \A i \in 1..Len(results') : i \in 1..Len(results) \/ batch'[i] = item
    BY <1>1, <1>2, <1>9 DEF item
  <2>3. \A i \in 1..Len(results') : Acceptable(batch[i])' = Acceptable(batch[i])
    BY <1>2, AcceptableStable
  <2>4. \A i \in 1..Len(results') :
          Acceptable(batch[i])' => NullifierOf(PairOf(batch'[i])) \in wNullifiers'
    <3> SUFFICES ASSUME NEW i \in 1..Len(results'), Acceptable(batch[i])
                 PROVE  NullifierOf(PairOf(batch[i])) \in wNullifiers'
      BY <1>2, <2>3
    <3>1. CASE i \in 1..Len(results)
      BY <1>2, <1>3, <1>8, <3>1 DEF BatchBurnsAcceptable
    <3>2. CASE batch[i] = item
      <4>1. n \in wNullifiers \/ success
        BY <1>6, <3>2
      <4>2. success => n \in Burn(wNullifiers, item, success)
        BY <1>4 DEF Burn
      <4> QED
        BY <1>2, <1>8, <3>2, <4>1, <4>2 DEF n
    <3> QED
      BY <1>2, <2>2, <3>1, <3>2
  <2>5. \A m \in wNullifiers' \ nullifiers' :
          \E i \in 1..Len(results') :
            Acceptable(batch[i])' /\ NullifierOf(PairOf(batch'[i])) = m
    <3> SUFFICES ASSUME NEW m \in wNullifiers', m \notin nullifiers
                 PROVE  \E i \in 1..Len(results') :
                          Acceptable(batch[i]) /\ NullifierOf(PairOf(batch[i])) = m
      BY <1>2, <2>3
    <3>1. CASE m \in wNullifiers
      <4>1. PICK i \in 1..Len(results) :
                   Acceptable(batch[i]) /\ NullifierOf(PairOf(batch[i])) = m
        BY <1>3, <3>1 DEF BatchBurnsAcceptable
      <4>2. i \in 1..Len(results')
        BY <1>1, <1>9
      <4> QED BY <4>1, <4>2
    <3>2. CASE m \notin wNullifiers
      <4>1. success /\ m = n
        BY <1>2, <1>4, <3>2 DEF Burn
      <4>2. batch[Len(results')] = item /\ Len(results') \in 1..Len(results')
        BY <1>1, <1>9 DEF item
      <4>3. Acceptable(item)
        BY <1>7, <4>1
      <4> QED BY <4>1, <4>2, <4>3 DEF n
    <3> QED BY <3>1, <3>2
  <2> QED
    BY <2>1, <2>4, <2>5 DEF BatchBurnsAcceptable
<1> QED
  BY <1>9, <1>10, <1>11, <1>12 DEF RunningBatch

\* One turn of the loop of verify_batch answers its entry as BatchAnswers says,
\* and leaves the earlier answers as they are.
LEMMA BatchEntryAnswers ==
  ASSUME IInv, BatchEntry
  PROVE  BatchAnswers'
<1> DEFINE L == Len(results)
           item == batch[L + 1]
           success == Verdict(item, wNullifiers) = "accept"
           n == NullifierOf(PairOf(item))
<1>1. /\ item \in Items
      /\ L \in Nat /\ Len(batch) \in Nat /\ L < Len(batch)
      /\ results \in Seq(BOOLEAN) /\ batch \in Seq(Items) /\ events \in Seq(Events)
      /\ success \in BOOLEAN
  BY DEF BatchEntry, IInv, TypeOK
<1>2. /\ results' = Append(results, success)
      /\ events' = Append(events, VerificationResult(success, item.inputs))
      /\ running /\ running' = running
      /\ UNCHANGED <<circuit, active, nullifiers, batch>>
      /\ Verdict(item, wNullifiers) # "trap"
  BY DEF BatchEntry, circuitVars, storeVars
<1>3. /\ BatchBurnsAcceptable
      /\ Len(events) = L
      /\ \A i \in 1..L : /\ results[i] <=> FirstAcceptable(i)
                         /\ events[i] = VerificationResult(results[i], batch[i].inputs)
  BY <1>2 DEF IInv, RunningBatch, BatchAnswers
<1>4. /\ PairOf(item) \in Pairs
      /\ Nullifier(item.id, InputsHash(item.inputs)) = n
  BY <1>1, ItemNullifier
<1>5. success => n \notin wNullifiers /\ Acceptable(item)
  <2>1. success => /\ RunVerification(item) = "accept" /\ active[item.id]
                   /\ n \notin wNullifiers
    BY <1>1, <1>4, RunVerificationTraps
  <2>2. success => n \notin nullifiers
    BY <1>3, <2>1 DEF BatchBurnsAcceptable
  <2> QED BY <2>1, <2>2 DEF Acceptable
<1>6. Acceptable(item) /\ n \notin wNullifiers => success
  <2> SUFFICES ASSUME Acceptable(item), n \notin wNullifiers PROVE success
    OBVIOUS
  <2>1. active[item.id] /\ RunVerification(item) = "accept" /\ n \notin nullifiers
    BY DEF Acceptable
  <2>2. n \notin archived
    BY <2>1 DEF IInv
  <2> QED
    BY <1>4, <2>1, <2>2 DEF Verdict
<1> HIDE DEF success
<1>7. success <=> FirstAcceptable(L + 1)
  <2>1. ASSUME success PROVE FirstAcceptable(L + 1)
    <3>1. Acceptable(batch[L + 1])
      BY <1>5, <2>1
    <3>2. ASSUME NEW j \in 1..L, PairOf(batch[j]) = PairOf(item), Acceptable(batch[j])
          PROVE  FALSE
      <4>1. NullifierOf(PairOf(batch[j])) \in wNullifiers
        BY <1>3, <3>2 DEF BatchBurnsAcceptable
      <4> QED
        BY <1>5, <2>1, <3>2, <4>1
    <3>3. 1..((L + 1) - 1) = 1..L
      BY <1>1
    <3> QED
      BY <3>1, <3>2, <3>3 DEF FirstAcceptable
  <2>2. ASSUME FirstAcceptable(L + 1) PROVE success
    <3>1. Acceptable(item)
      BY <2>2 DEF FirstAcceptable
    <3>2. ASSUME n \in wNullifiers PROVE FALSE
      <4>1. n \in wNullifiers \ nullifiers
        BY <3>1, <3>2 DEF Acceptable
      <4>2. PICK j \in 1..L : Acceptable(batch[j]) /\ NullifierOf(PairOf(batch[j])) = n
        BY <1>3, <4>1 DEF BatchBurnsAcceptable
      <4>3. PairOf(batch[j]) \in Pairs
        <5>1. batch[j] \in Items
          BY <1>1, <4>2
        <5> QED BY <5>1, ItemNullifier
      <4>4. PairOf(batch[j]) = PairOf(item)
        BY <1>4, <4>2, <4>3, NullifierInjective
      <4>5. j \in 1..((L + 1) - 1)
        BY <1>1
      <4> QED
        BY <2>2, <4>2, <4>4, <4>5 DEF FirstAcceptable
    <3> QED BY <1>6, <3>1, <3>2
  <2> QED BY <2>1, <2>2
<1>8. \A i \in 1..(L + 1) : FirstAcceptable(i)' <=> FirstAcceptable(i)
  <2>1. \A i \in 1..(L + 1) : Acceptable(batch[i])' <=> Acceptable(batch[i])
    BY <1>2, AcceptableStable
  <2> QED
    BY <1>1, <1>2, <2>1 DEF FirstAcceptable
<1> HIDE DEF item
<1>9. Len(results') = L + 1 /\ Len(events') = L + 1
  BY <1>1, <1>2, <1>3
<1>10. ASSUME NEW i \in 1..(L + 1)
       PROVE  /\ results'[i] <=> FirstAcceptable(i)
              /\ events'[i] = VerificationResult(results'[i], batch[i].inputs)
  <2>1. CASE i \in 1..L
    <3>1. results'[i] = results[i] /\ events'[i] = events[i]
      BY <1>1, <1>2, <1>3, <2>1
    <3> QED BY <1>3, <2>1, <3>1
  <2>2. CASE i = L + 1
    <3>1. results'[i] = success /\ events'[i] = VerificationResult(success, item.inputs)
      BY <1>1, <1>2, <1>3, <2>2
    <3>2. results'[i] <=> FirstAcceptable(i)
      BY <1>7, <2>2, <3>1
    <3>3. batch[i] = item
      BY <2>2 DEF item
    <3>4. events'[i] = VerificationResult(results'[i], batch[i].inputs)
      BY <3>1, <3>3
    <3> QED BY <3>2, <3>4
  <2> QED BY <1>1, <2>1, <2>2
<1> QED
  BY <1>2, <1>8, <1>9, <1>10 DEF BatchAnswers

\* A batch that begins starts from the committed storage.
LEMMA BatchBeginRunning ==
  ASSUME IInv, NEW items \in Batches, BatchBegin(items)
  PROVE  RunningBatch' /\ BatchAnswers'
<1>1. /\ results' = <<>> /\ events' = <<>> /\ batch' = items
      /\ wNullifiers' = nullifiers /\ nullifiers' = nullifiers
      /\ wAccepted' = accepted /\ accepted' = accepted
  BY DEF BatchBegin, storeVars, historyVars
<1>2. Len(batch') \in Nat /\ Len(results') = 0 /\ Len(events') = 0
  <2>1. items \in Seq(Items)
    BY DEF Batches
  <2> QED BY <1>1, <2>1
<1>3. Agree(wNullifiers, wAccepted)' /\ AtMostOnceIn(wAccepted)'
  BY <1>1 DEF IInv, Agree, AtMostOnce, AtMostOnceIn
<1>4. BatchAddsProvable'
  BY <1>1 DEF BatchAddsProvable
<1>5. BatchBurnsAcceptable'
  BY <1>1, <1>2 DEF BatchBurnsAcceptable
<1>6. BatchAnswers'
  BY <1>2 DEF BatchAnswers
<1> QED
  BY <1>2, <1>3, <1>4, <1>5, <1>6 DEF RunningBatch

\* A stuttering step keeps what the invariant says of a running batch.
LEMMA StutterRunning ==
  ASSUME IInv, UNCHANGED vars
  PROVE  RunningBatch' /\ BatchAnswers'
<1>1. UNCHANGED <<circuit, active, nullifiers, accepted, running, batch,
                  wNullifiers, results, events, wAccepted>>
  BY DEF vars, circuitVars, storeVars, batchVars, historyVars
<1>2. \A i \in 1..Len(results) : Acceptable(batch[i])' <=> Acceptable(batch[i])
  BY <1>1, AcceptableStable
<1>3. \A i \in 1..Len(results) : FirstAcceptable(i)' <=> FirstAcceptable(i)
  <2>1. \A i \in Nat : Acceptable(batch[i])' <=> Acceptable(batch[i])
    BY <1>1, AcceptableStable
  <2> QED
    BY <1>1, <2>1 DEF FirstAcceptable
<1>4. BatchAnswers'
  BY <1>1, <1>3 DEF IInv, BatchAnswers
<1>5. running => BatchBurnsAcceptable'
  BY <1>1, <1>2 DEF IInv, RunningBatch, BatchBurnsAcceptable
<1>6. running => BatchAddsProvable'
  BY <1>1 DEF IInv, RunningBatch, BatchAddsProvable
<1>7. running => Agree(wNullifiers, wAccepted)' /\ AtMostOnceIn(wAccepted)'
  BY <1>1 DEF IInv, RunningBatch, Agree, AtMostOnceIn
<1> QED
  BY <1>1, <1>4, <1>5, <1>6, <1>7 DEF IInv, RunningBatch

\* Every step of the registry keeps the invariant.
LEMMA NextInv == IInv /\ [Next]_vars => IInv'
<1> SUFFICES ASSUME IInv, [Next]_vars PROVE IInv'
  OBVIOUS
<1>0. TypeOK' /\ TypeOK
  BY NextType DEF IInv
<1>1. ASSUME NEW auth \in Accounts, NEW a \in Accounts, ProposeAdmin(auth, a)
      PROVE  IInv'
  <2>1. NominationByCurrentAdmin'
    BY <1>1 DEF ProposeAdmin, NominationByCurrentAdmin
  <2>2. ~running' /\ UNCHANGED <<nullifiers, archived, accepted, circuitVars>>
    BY <1>1 DEF ProposeAdmin, Idle, storeVars, batchVars, historyVars
  <2> QED
    BY <1>0, <2>1, <2>2, QuietStep, QuietCircuits DEF IInv
<1>2. ASSUME NEW auth \in Accounts, AcceptAdmin(auth)
      PROVE  IInv'
  <2>1. NominationByCurrentAdmin'
    BY <1>2 DEF AcceptAdmin, NominationByCurrentAdmin
  <2>2. ~running' /\ UNCHANGED <<nullifiers, archived, accepted, circuitVars>>
    BY <1>2 DEF AcceptAdmin, Idle, storeVars, batchVars, historyVars
  <2> QED
    BY <1>0, <2>1, <2>2, QuietStep, QuietCircuits DEF IInv
<1>3. ASSUME NEW auth \in Accounts, NEW w \in Wasms, Upgrade(auth, w)
      PROVE  IInv'
  <2>1. ~running' /\ UNCHANGED <<nullifiers, archived, accepted, circuitVars, adminVars>>
    BY <1>3 DEF Upgrade, Idle, storeVars, batchVars, historyVars
  <2> QED
    BY <1>0, <2>1, QuietStep, QuietCircuits, QuietAdmin DEF IInv
<1>4. ASSUME NEW auth \in Accounts, NEW id \in Ids, NEW vk \in Keys,
             RegisterCircuit(auth, id, vk)
      PROVE  IInv'
  <2>1. ActiveHasKey'
    <3> SUFFICES ASSUME NEW x \in Ids, active'[x] PROVE circuit'[x] # NoKey
      BY DEF ActiveHasKey
    <3>1. CASE x = id
      BY <1>0, <1>4, <3>1, KeysAssumption DEF RegisterCircuit, TypeOK
    <3>2. CASE x # id
      BY <1>0, <1>4, <3>2 DEF RegisterCircuit, TypeOK, IInv, ActiveHasKey
    <3> QED BY <3>1, <3>2
  <2>2. ~running' /\ UNCHANGED <<nullifiers, archived, accepted, adminVars>>
    BY <1>4 DEF RegisterCircuit, Idle, storeVars, batchVars, historyVars
  <2> QED
    BY <1>0, <2>1, <2>2, QuietStep, QuietAdmin DEF IInv
<1>5. ASSUME NEW auth \in Accounts, NEW id \in Ids, RemoveCircuit(auth, id)
      PROVE  IInv'
  <2>1. ActiveHasKey'
    BY <1>0, <1>5 DEF RemoveCircuit, TypeOK, IInv, ActiveHasKey
  <2>2. ~running' /\ UNCHANGED <<nullifiers, archived, accepted, adminVars>>
    BY <1>5 DEF RemoveCircuit, Idle, storeVars, batchVars, historyVars
  <2> QED
    BY <1>0, <2>1, <2>2, QuietStep, QuietAdmin DEF IInv
<1>6. ASSUME NEW item \in Items, VerifyProof(item)
      PROVE  IInv'
  <2>1. /\ AtMostOnce' /\ Agree(nullifiers, accepted)'
        /\ nullifiers \subseteq nullifiers'
    BY <1>6, VerifyProofInv
  <2>2. ~running' /\ UNCHANGED <<archived, circuitVars, adminVars>>
    BY <1>6 DEF VerifyProof, Idle, batchVars
  <2>3. RunningBatch' /\ BatchAnswers'
    BY <2>2 DEF RunningBatch, BatchAnswers
  <2> QED
    BY <1>0, <2>1, <2>2, <2>3, QuietCircuits, QuietAdmin DEF IInv
<1>7. ASSUME NEW items \in Batches, BatchBegin(items)
      PROVE  IInv'
  <2>1. RunningBatch' /\ BatchAnswers'
    BY <1>7, BatchBeginRunning
  <2>2. UNCHANGED <<nullifiers, archived, accepted, circuitVars, adminVars>>
    BY <1>7 DEF BatchBegin, storeVars, historyVars
  <2>3. AtMostOnce' /\ Agree(nullifiers, accepted)'
    BY <2>2 DEF IInv, AtMostOnce, Agree
  <2> QED
    BY <1>0, <2>1, <2>2, <2>3, QuietCircuits, QuietAdmin DEF IInv
<1>8. CASE BatchEntry
  <2>1. RunningBatch' /\ BatchAnswers'
    BY <1>8, BatchEntryRunning, BatchEntryAnswers
  <2>2. UNCHANGED <<nullifiers, archived, accepted, circuitVars, adminVars>>
    BY <1>8 DEF BatchEntry, storeVars, historyVars
  <2>3. AtMostOnce' /\ Agree(nullifiers, accepted)'
    BY <2>2 DEF IInv, AtMostOnce, Agree
  <2> QED
    BY <1>0, <2>1, <2>2, <2>3, QuietCircuits, QuietAdmin DEF IInv
<1>9. CASE BatchReturn
  <2>1. /\ running /\ nullifiers' = wNullifiers /\ accepted' = wAccepted
        /\ ~running' /\ UNCHANGED <<archived, circuitVars, adminVars>>
    BY <1>9 DEF BatchReturn, EndBatch
  <2>2. /\ Agree(wNullifiers, wAccepted) /\ AtMostOnceIn(wAccepted)
        /\ nullifiers \subseteq wNullifiers
    BY <2>1 DEF IInv, RunningBatch, BatchBurnsAcceptable
  <2>3. AtMostOnce' /\ Agree(nullifiers, accepted)'
    BY <2>1, <2>2 DEF AtMostOnce, AtMostOnceIn, Agree
  <2>4. RunningBatch' /\ BatchAnswers'
    BY <2>1 DEF RunningBatch, BatchAnswers
  <2>5. archived' \subseteq nullifiers'
    BY <2>1, <2>2 DEF IInv
  <2> QED
    BY <1>0, <2>1, <2>3, <2>4, <2>5, QuietCircuits, QuietAdmin DEF IInv
<1>10. CASE BatchTrap \/ BatchOutOfBudget
  <2>1. ~running' /\ UNCHANGED <<nullifiers, accepted, archived, circuitVars, adminVars>>
    BY <1>10 DEF BatchTrap, BatchOutOfBudget, EndBatch
  <2> QED
    BY <1>0, <2>1, QuietStep, QuietCircuits, QuietAdmin DEF IInv
<1>11. ASSUME NEW n \in nullifiers, ArchiveNullifier(n) \/ RestoreNullifier(n)
       PROVE  IInv'
  <2>1. /\ ~running' /\ UNCHANGED <<nullifiers, accepted, circuitVars, adminVars>>
        /\ archived' \subseteq nullifiers'
    BY <1>11 DEF ArchiveNullifier, RestoreNullifier, batchVars, historyVars, IInv
  <2> QED
    BY <1>0, <2>1, QuietStep, QuietCircuits, QuietAdmin DEF IInv
<1>12. CASE UNCHANGED vars
  <2>1. UNCHANGED <<adminVars, circuitVars, nullifiers, archived, accepted>>
    BY <1>12 DEF vars, storeVars, historyVars
  <2>2. AtMostOnce' /\ Agree(nullifiers, accepted)'
    BY <2>1 DEF IInv, AtMostOnce, Agree
  <2>3. RunningBatch' /\ BatchAnswers'
    BY <1>12, StutterRunning
  <2> QED
    BY <1>0, <2>1, <2>2, <2>3, QuietCircuits, QuietAdmin DEF IInv
<1> QED
  BY <1>1, <1>2, <1>3, <1>4, <1>5, <1>6, <1>7, <1>8, <1>9, <1>10, <1>11, <1>12
  DEF Next, BatchStep

\* The invariant holds throughout.
LEMMA Invariance == Spec => []IInv
<1>1. Init => IInv
  BY InitInv
<1>2. IInv /\ [Next]_vars => IInv'
  BY NextInv
<1> QED
  BY <1>1, <1>2, PTL DEF Spec

-----------------------------------------------------------------------------
(* The properties. *)

\* Replay protection: for any circuits, keys, proofs and inputs, and for batches of
\* any length, no pair of a circuit and its public inputs succeeds twice.
THEOREM AtMostOnceAlways == Spec => []AtMostOnce
<1>1. IInv => AtMostOnce
  BY DEF IInv
<1> QED
  BY <1>1, Invariance, PTL

\* The replay set is exactly the set of accepted pairs, after every call.
THEOREM BurnedIffAcceptedAlways == Spec => []BurnedIffAccepted
<1>1. IInv => BurnedIffAccepted
  <2> SUFFICES ASSUME IInv PROVE BurnedIffAccepted
    OBVIOUS
  <2>1. \A p \in Pairs : accepted[p] > 0 <=> accepted[p] = 1
    BY DEF IInv, TypeOK, AtMostOnce
  <2>2. \A p \in Pairs : NullifierOf(p) \in nullifiers <=> accepted[p] = 1
    BY DEF IInv, Agree
  <2>3. \A n \in nullifiers : \E p \in Pairs : n = NullifierOf(p)
    BY DEF IInv, TypeOK, NullifierSpace
  <2> QED
    BY <2>1, <2>2, <2>3 DEF BurnedIffAccepted
<1> QED
  BY <1>1, Invariance, PTL

\* An active circuit has a verifying key.
THEOREM ActiveHasKeyAlways == Spec => []ActiveHasKey
<1>1. IInv => ActiveHasKey
  BY DEF IInv
<1> QED
  BY <1>1, Invariance, PTL

\* A pending proposal is the admin in office's own.
THEOREM NominationByCurrentAdminAlways == Spec => []NominationByCurrentAdmin
<1>1. IInv => NominationByCurrentAdmin
  BY DEF IInv
<1> QED
  BY <1>1, Invariance, PTL

\* A running batch has answered each entry as its position among the batch's
\* acceptable entries says, with an event to match.
THEOREM BatchAnswersAlways == Spec => []BatchAnswers
<1>1. IInv => BatchAnswers
  BY DEF IInv
<1> QED
  BY <1>1, Invariance, PTL

\* The admin changes only to the account the admin itself proposed.
THEOREM HandoffByConsentAlways == Spec => HandoffByConsent
<1>1. IInv /\ [Next]_vars =>
        [admin' # admin => /\ proposer = admin
                           /\ admin' = pendingAdmin
                           /\ pendingAdmin' = NoAccount]_vars
  <2> SUFFICES ASSUME IInv, Next, admin' # admin
               PROVE  /\ proposer = admin
                      /\ admin' = pendingAdmin
                      /\ pendingAdmin' = NoAccount
    OBVIOUS
  <2>1. PICK auth \in Accounts : AcceptAdmin(auth)
    BY DEF Next, BatchStep, ProposeAdmin, Upgrade, RegisterCircuit, RemoveCircuit,
           VerifyProof, BatchBegin, BatchEntry, BatchReturn, BatchTrap,
           BatchOutOfBudget, EndBatch, ArchiveNullifier, RestoreNullifier, adminVars
  <2> QED
    BY <2>1 DEF AcceptAdmin, IInv, NominationByCurrentAdmin
<1> QED
  BY <1>1, Invariance, PTL DEF Spec, HandoffByConsent

\* A set of natural numbers that is not empty has a least element.
LEMMA LeastElement ==
  ASSUME NEW T, T \subseteq Nat, T # {}
  PROVE  \E m \in T : \A k \in T : m <= k
<1>1. \E x \in T : \A y \in T : ~(<<y, x>> \in OpToRel(<, Nat))
  BY NatLessThanWellFounded, WFMin, Zenon
<1>2. \A x, y \in Nat : y < x => <<y, x>> \in OpToRel(<, Nat)
  BY DEF OpToRel
<1>3. PICK m \in T : \A k \in T : ~(<<k, m>> \in OpToRel(<, Nat))
  BY <1>1, Zenon
<1>4. \A k \in T : ~(k < m)
  BY <1>2, <1>3
<1>5. \A k \in T : m <= k
  BY <1>4
<1> QED BY <1>5

\* An event is a success for one input vector exactly when it was published for it.
LEMMA SuccessEventOf ==
  ASSUME NEW success \in BOOLEAN, NEW pi, NEW qi
  PROVE  VerificationResult(success, qi) = VerificationResult(TRUE, pi) <=> success /\ qi = pi
BY DEF VerificationResult, InputsHash

\* As many elements on both sides when one side maps onto the other one to one.
LEMMA OneToOne ==
  ASSUME NEW n \in Nat, NEW S, NEW T, S \subseteq 1..n, NEW f \in [S -> T],
         \A i, j \in S : f[i] = f[j] => i = j,
         \A t \in T : \E i \in S : f[i] = t
  PROVE  Cardinality(T) = Cardinality(S)
<1>1. IsFiniteSet(S)
  <2>1. IsFiniteSet(1..n)
    BY FS_Interval
  <2> QED BY <2>1, FS_Subset
<1>2. f \in Bijection(S, T)
  BY Fun_IsBij
<1>3. ExistsBijection(S, T)
  BY <1>2 DEF ExistsBijection
<1> QED
  BY <1>1, <1>3, FS_Bijection

\* A batch that returns has published as many success events for an input vector
\* as the circuits it burned the vector for: the entry that burned a pair is the
\* first acceptable one of the pair, and only that one.
LEMMA BatchReturnTellsBurns ==
  ASSUME IInv, BatchReturn, NEW pi \in Inputs
  PROVE  Cardinality(BurnedNow(pi)) = Cardinality(SuccessEvents(receipt'.events, pi))
<1> DEFINE S == SuccessEvents(events, pi)
           T == BurnedNow(pi)
           f == [i \in S |-> batch[i].id]
<1>1. /\ running /\ nullifiers' = wNullifiers /\ receipt'.events = events
      /\ Len(results) = Len(batch)
  BY DEF BatchReturn, Committed, Receipt
<1>2. /\ batch \in Seq(Items) /\ results \in Seq(BOOLEAN) /\ Len(results) \in Nat
      /\ Len(events) = Len(results)
      /\ \A i \in 1..Len(results) :
           /\ results[i] <=> FirstAcceptable(i)
           /\ events[i] = VerificationResult(results[i], batch[i].inputs)
  BY <1>1 DEF IInv, TypeOK, BatchAnswers
<1>3. \A i \in 1..Len(results) :
        /\ batch[i] \in Items
        /\ results[i] \in BOOLEAN
        /\ PairOf(batch[i]) \in Pairs
        /\ PairOf(batch[i]) = <<batch[i].id, batch[i].inputs>>
        /\ batch[i].id \in Ids
  <2> SUFFICES ASSUME NEW i \in 1..Len(results)
               PROVE  /\ batch[i] \in Items /\ results[i] \in BOOLEAN
                      /\ PairOf(batch[i]) \in Pairs
                      /\ PairOf(batch[i]) = <<batch[i].id, batch[i].inputs>>
                      /\ batch[i].id \in Ids
    OBVIOUS
  <2>1. batch[i] \in Items /\ results[i] \in BOOLEAN
    BY <1>1, <1>2
  <2>2. PairOf(batch[i]) \in Pairs
    BY <2>1, ItemNullifier
  <2> QED
    BY <2>1, <2>2 DEF PairOf, Items
<1>4. \A i : i \in S <=> i \in 1..Len(results) /\ FirstAcceptable(i) /\ batch[i].inputs = pi
  <2>1. \A i : i \in S <=> i \in 1..Len(results) /\ events[i] = VerificationResult(TRUE, pi)
    BY <1>2 DEF SuccessEvents
  <2>2. ASSUME NEW i \in 1..Len(results)
        PROVE  events[i] = VerificationResult(TRUE, pi)
                 <=> FirstAcceptable(i) /\ batch[i].inputs = pi
    <3>1. VerificationResult(results[i], batch[i].inputs) = VerificationResult(TRUE, pi)
            <=> results[i] /\ batch[i].inputs = pi
      BY <1>3, SuccessEventOf
    <3> QED BY <1>2, <3>1
  <2> QED BY <2>1, <2>2
<1>5. \A i \in S : Acceptable(batch[i]) /\ PairOf(batch[i]) = <<batch[i].id, pi>>
  BY <1>3, <1>4 DEF FirstAcceptable
<1>6. BatchBurnsAcceptable
  BY <1>1 DEF IInv, RunningBatch
<1>7. \A i \in S : batch[i].id \in T
  <2> SUFFICES ASSUME NEW i \in S PROVE batch[i].id \in T
    OBVIOUS
  <2>1. NullifierOf(PairOf(batch[i])) \in wNullifiers \ nullifiers
    BY <1>4, <1>5, <1>6 DEF BatchBurnsAcceptable, Acceptable
  <2> QED
    BY <1>1, <1>3, <1>4, <1>5, <2>1 DEF BurnedNow
<1>8. \A i, j \in S : batch[i].id = batch[j].id => i = j
  <2> SUFFICES ASSUME NEW i \in S, NEW j \in S, batch[i].id = batch[j].id, i # j
               PROVE  FALSE
    OBVIOUS
  <2>1. i \in Nat /\ j \in Nat /\ i >= 1 /\ j >= 1
    BY <1>2, <1>4
  <2>2. PairOf(batch[i]) = PairOf(batch[j]) /\ Acceptable(batch[i]) /\ Acceptable(batch[j])
    BY <1>5
  <2>3. FirstAcceptable(i) /\ FirstAcceptable(j)
    BY <1>4
  <2>4. CASE i < j
    <3>1. i \in 1..(j - 1)
      BY <2>1, <2>4
    <3> QED BY <2>2, <2>3, <3>1 DEF FirstAcceptable
  <2>5. CASE j < i
    <3>1. j \in 1..(i - 1)
      BY <2>1, <2>5
    <3> QED BY <2>2, <2>3, <3>1 DEF FirstAcceptable
  <2> QED BY <2>1, <2>4, <2>5
<1>9. \A t \in T : \E i \in S : batch[i].id = t
  <2> SUFFICES ASSUME NEW t \in T PROVE \E i \in S : batch[i].id = t
    OBVIOUS
  <2> DEFINE R == {k \in 1..Len(results) : Acceptable(batch[k]) /\ PairOf(batch[k]) = <<t, pi>>}
  <2>1. /\ t \in Ids /\ NullifierOf(<<t, pi>>) \in wNullifiers \ nullifiers
        /\ <<t, pi>> \in Pairs
    BY <1>1 DEF BurnedNow, Pairs
  <2>2. PICK k \in 1..Len(results) :
               Acceptable(batch[k]) /\ NullifierOf(PairOf(batch[k])) = NullifierOf(<<t, pi>>)
    BY <2>1, <1>6 DEF BatchBurnsAcceptable
  <2>3. k \in R
    BY <1>3, <2>1, <2>2, NullifierInjective
  <2>4. R \subseteq Nat
    BY <1>2
  <2>5. PICK i \in R : \A j \in R : i <= j
    <3> HIDE DEF R
    <3>1. R # {}
      BY <2>3
    <3> QED BY <2>4, <3>1, LeastElement
  <2>6. i \in 1..Len(results) /\ Acceptable(batch[i]) /\ PairOf(batch[i]) = <<t, pi>>
    OBVIOUS
  <2>7. \A j \in 1..(i - 1) : j \in 1..Len(results) /\ ~(i <= j)
    BY <1>2, <2>6
  <2>8. \A j \in 1..(i - 1) : PairOf(batch[j]) = PairOf(batch[i]) => ~Acceptable(batch[j])
    BY <2>5, <2>6, <2>7
  <2>9. FirstAcceptable(i)
    BY <2>6, <2>8 DEF FirstAcceptable
  <2>10. batch[i].id = t /\ batch[i].inputs = pi
    BY <1>3, <2>6
  <2> QED
    BY <1>4, <2>6, <2>9, <2>10
<1>10. S \subseteq 1..Len(results)
  BY <1>4
<1> HIDE DEF S, T
<1>11. /\ f \in [S -> T]
       /\ \A i, j \in S : f[i] = f[j] => i = j
       /\ \A t \in T : \E i \in S : f[i] = t
  BY <1>7, <1>8, <1>9
<1> HIDE DEF f
<1>12. Cardinality(T) = Cardinality(S)
  BY <1>2, <1>10, <1>11, OneToOne
<1> QED
  BY <1>1, <1>12 DEF S, T

\* A single call publishes a success exactly when it burns, for the inputs it was
\* given.
LEMMA VerifyProofTellsBurns ==
  ASSUME IInv, NEW item \in Items, VerifyProof(item), Settles, NEW pi \in Inputs
  PROVE  Cardinality(BurnedNow(pi)) = Cardinality(SuccessEvents(receipt'.events, pi))
<1> DEFINE success == Verdict(item, nullifiers) = "accept"
           q == PairOf(item)
<1>1. /\ q \in Pairs /\ q = <<item.id, item.inputs>>
      /\ Nullifier(item.id, InputsHash(item.inputs)) = NullifierOf(q)
      /\ item.id \in Ids /\ item.inputs \in Inputs
  BY ItemNullifier DEF PairOf, Items
<1>2. CASE Verdict(item, nullifiers) = "trap"
  <2>1. nullifiers' = nullifiers /\ receipt'.events = <<>>
    BY <1>2 DEF VerifyProof, Aborted, Receipt
  <2>2. BurnedNow(pi) = {} /\ SuccessEvents(receipt'.events, pi) = {}
    BY <2>1 DEF BurnedNow, SuccessEvents
  <2> QED BY <2>2
<1>3. CASE Verdict(item, nullifiers) # "trap"
  <2>1. /\ nullifiers' = Burn(nullifiers, item, success)
        /\ receipt'.events = <<VerificationResult(success, item.inputs)>>
    BY <1>3 DEF VerifyProof, Committed, Receipt
  <2>2. success => NullifierOf(q) \notin nullifiers
    BY <1>1, RunVerificationTraps
  <2>3. success \in BOOLEAN
    OBVIOUS
  <2> HIDE DEF success, q
  <2>4. \A i : i \in SuccessEvents(receipt'.events, pi) <=> i = 1 /\ success /\ item.inputs = pi
    <3>1. VerificationResult(success, item.inputs) = VerificationResult(TRUE, pi)
            <=> success /\ item.inputs = pi
      BY <2>3, SuccessEventOf
    <3>2. \A i : i \in SuccessEvents(receipt'.events, pi)
                  <=> i = 1 /\ VerificationResult(success, item.inputs) = VerificationResult(TRUE, pi)
      <4> DEFINE v == VerificationResult(success, item.inputs)
      <4>1. receipt'.events = <<v>>
        BY <2>1
      <4> HIDE DEF v
      <4>2. \A i : i \in SuccessEvents(<<v>>, pi) <=> i = 1 /\ v = VerificationResult(TRUE, pi)
        <5>1. Len(<<v>>) = 1 /\ <<v>>[1] = v
          OBVIOUS
        <5>2. 1..1 = {1}
          OBVIOUS
        <5> QED BY <5>1, <5>2 DEF SuccessEvents
      <4> QED BY <4>1, <4>2 DEF v
    <3> QED BY <3>1, <3>2
  <2>5. CASE success /\ item.inputs = pi
    <3>1. SuccessEvents(receipt'.events, pi) = {1}
      BY <2>4, <2>5
    <3>2. nullifiers' \ nullifiers = {NullifierOf(q)} /\ q = <<item.id, pi>>
      BY <1>1, <2>1, <2>2, <2>5 DEF Burn
    <3>3. \A id \in Ids : NullifierOf(<<id, pi>>) = NullifierOf(q) => id = item.id
      <4> SUFFICES ASSUME NEW id \in Ids, NullifierOf(<<id, pi>>) = NullifierOf(q)
                   PROVE  id = item.id
        OBVIOUS
      <4>1. <<id, pi>> \in Pairs
        BY DEF Pairs
      <4>2. <<id, pi>> = q
        BY <1>1, <4>1, NullifierInjective
      <4> QED BY <3>2, <4>2
    <3>4. BurnedNow(pi) = {item.id}
      BY <1>1, <3>2, <3>3 DEF BurnedNow
    <3> QED BY <3>1, <3>4, FS_Singleton
  <2>6. CASE ~(success /\ item.inputs = pi)
    <3>1. SuccessEvents(receipt'.events, pi) = {}
      BY <2>4, <2>6
    <3>2. BurnedNow(pi) = {}
      <4> SUFFICES ASSUME NEW id \in Ids, NullifierOf(<<id, pi>>) \in nullifiers' \ nullifiers
                   PROVE  FALSE
        BY DEF BurnedNow
      <4>1. success /\ NullifierOf(<<id, pi>>) = NullifierOf(q)
        BY <1>1, <2>1 DEF Burn
      <4>2. <<id, pi>> \in Pairs
        BY DEF Pairs
      <4>3. <<id, pi>> = q
        BY <1>1, <4>1, <4>2, NullifierInjective
      <4> QED BY <1>1, <2>6, <4>1, <4>3
    <3> QED BY <3>1, <3>2
  <2> QED BY <2>5, <2>6
<1> QED BY <1>2, <1>3

\* A call publishes, for each input vector, as many success events as the circuits
\* it burns the vector for.
THEOREM SuccessEventsTellBurnsAlways == Spec => SuccessEventsTellBurns
<1> DEFINE Told == \A pi \in Inputs :
             Cardinality(BurnedNow(pi)) = Cardinality(SuccessEvents(receipt'.events, pi))
<1>1. ASSUME IInv, Next, Settles PROVE Told
  <2>1. CASE BatchTrap \/ BatchOutOfBudget
    <3>1. nullifiers' = nullifiers /\ receipt'.events = <<>>
      BY <2>1 DEF BatchTrap, BatchOutOfBudget, Aborted, Receipt
    <3>2. \A pi \in Inputs : BurnedNow(pi) = {} /\ SuccessEvents(receipt'.events, pi) = {}
      BY <3>1 DEF BurnedNow, SuccessEvents
    <3> QED BY <3>2
  <2>2. \/ BatchReturn \/ BatchTrap \/ BatchOutOfBudget
        \/ \E item \in Items : VerifyProof(item)
    BY <1>1 DEF Next, BatchStep, Settles, ProposeAdmin, AcceptAdmin, Upgrade,
                RegisterCircuit, RemoveCircuit, BatchBegin, BatchEntry,
                ArchiveNullifier, RestoreNullifier, Idle, storeVars, batchVars,
                historyVars
  <2> QED
    BY <1>1, <2>1, <2>2, BatchReturnTellsBurns, VerifyProofTellsBurns
<1>2. IInv /\ [Next]_vars => [Settles => Told]_vars
  BY <1>1
<1> QED
  BY <1>2, Invariance, PTL DEF Spec, SuccessEventsTellBurns

-----------------------------------------------------------------------------
(* The registry implements the single-use ledger. *)

\* The constructor's state is the ledger's initial state.
LEMMA InitRefines == Init => SU!SUInit
<1> SUFFICES ASSUME Init PROVE SU!SUInit
  OBVIOUS
<1>1. EffectiveKey = [id \in Ids |-> NoKey]
  BY DEF Init, EffectiveKey
<1>2. accepted = [p \in Ids \X Inputs |-> 0]
  BY DEF Init, Pairs
<1> QED
  BY <1>1, <1>2 DEF SU!SUInit, SU!SUPairs

\* A verification that succeeds settles its pair, and one that does not, nothing.
LEMMA VerifyProofRefines ==
  ASSUME IInv, NEW item \in Items, VerifyProof(item)
  PROVE  SU!SUNext \/ UNCHANGED <<EffectiveKey, accepted>>
<1> DEFINE success == Verdict(item, nullifiers) = "accept"
           p == PairOf(item)
<1>1. EffectiveKey' = EffectiveKey
  BY DEF VerifyProof, circuitVars, EffectiveKey
<1>2. CASE ~success
  <2>1. accepted' = accepted
    BY <1>2 DEF VerifyProof, Tally
  <2> QED BY <1>1, <2>1
<1>3. CASE success
  <2>1. accepted' = [accepted EXCEPT ![p] = @ + 1]
    BY <1>3 DEF VerifyProof, Tally
  <2>2. /\ p \in Pairs /\ p[1] = item.id /\ p[2] = item.inputs
        /\ Nullifier(item.id, InputsHash(item.inputs)) = NullifierOf(p)
    BY ItemNullifier
  <2>3. /\ RunVerification(item) = "accept" /\ active[item.id]
        /\ NullifierOf(p) \notin nullifiers
    BY <1>3, <2>2, RunVerificationTraps
  <2>4. accepted[p] = 0 /\ accepted \in [Pairs -> Nat]
    BY <2>2, <2>3 DEF IInv, TypeOK, AtMostOnce, Agree
  <2>5. /\ circuit[item.id] \in Keys
        /\ <<circuit[item.id], item.inputs>> \in ProvableUnder
    BY <2>3, AcceptedProvable DEF IInv
  <2>6. EffectiveKey[p[1]] = circuit[p[1]] /\ EffectiveKey[p[1]] # NoKey
    BY <2>2, <2>3, <2>5, KeysAssumption DEF EffectiveKey, Pairs
  <2> HIDE DEF p
  <2>7. accepted' = [r \in Pairs |-> IF r \in {p} THEN 1 ELSE accepted[r]]
    <3>1. accepted' \in [Pairs -> Nat]
      BY <2>1, <2>2, <2>4
    <3>2. \A r \in Pairs : accepted'[r] = IF r \in {p} THEN 1 ELSE accepted[r]
      BY <2>1, <2>2, <2>4
    <3> QED BY <3>1, <3>2
  <2>8. SU!Settle({p})
    BY <1>1, <2>2, <2>4, <2>5, <2>6, <2>7 DEF SU!Settle, SU!SUPairs, Pairs
  <2>9. {p} \in SUBSET SU!SUPairs
    BY <2>2 DEF SU!SUPairs, Pairs
  <2> QED
    BY <2>8, <2>9 DEF SU!SUNext
<1> QED BY <1>2, <1>3

\* A batch that returns settles together the pairs it accepted.
LEMMA BatchReturnRefines ==
  ASSUME IInv, BatchReturn
  PROVE  SU!SUNext
<1> DEFINE S == {p \in Pairs : wAccepted[p] # accepted[p]}
<1>1. /\ accepted' = wAccepted /\ running
      /\ EffectiveKey' = EffectiveKey
  BY DEF BatchReturn, EndBatch, circuitVars, EffectiveKey
<1>2. /\ wAccepted \in [Pairs -> Nat] /\ accepted \in [Pairs -> Nat]
      /\ AtMostOnceIn(wAccepted) /\ BatchAddsProvable
  BY <1>1 DEF IInv, TypeOK, RunningBatch
<1>3. ASSUME NEW p \in S
      PROVE  /\ accepted[p] = 0
             /\ EffectiveKey[p[1]] # NoKey
             /\ <<EffectiveKey[p[1]], p[2]>> \in ProvableUnder
  <2>1. accepted[p] = 0 /\ active[p[1]] /\ <<circuit[p[1]], p[2]>> \in ProvableUnder
    BY <1>2 DEF BatchAddsProvable
  <2>2. EffectiveKey[p[1]] = circuit[p[1]] /\ circuit[p[1]] \in Keys
    BY <2>1 DEF EffectiveKey, Pairs, ProvableUnder
  <2> QED
    BY <2>1, <2>2, KeysAssumption
<1>4. \A p \in Pairs : wAccepted[p] = IF p \in S THEN 1 ELSE accepted[p]
  <2> SUFFICES ASSUME NEW p \in Pairs
               PROVE  wAccepted[p] = IF p \in S THEN 1 ELSE accepted[p]
    OBVIOUS
  <2>1. CASE p \in S
    <3>1. accepted[p] = 0 /\ wAccepted[p] # accepted[p]
      BY <1>3, <2>1
    <3>2. wAccepted[p] \in Nat /\ wAccepted[p] <= 1
      BY <1>2 DEF AtMostOnceIn
    <3> QED BY <2>1, <3>1, <3>2
  <2>2. CASE p \notin S
    BY <2>2
  <2> QED BY <2>1, <2>2
<1>5. accepted' = [p \in Pairs |-> IF p \in S THEN 1 ELSE accepted[p]]
  BY <1>1, <1>2, <1>4
<1>6. S \in SUBSET SU!SUPairs
  BY DEF SU!SUPairs, Pairs
<1> HIDE DEF S
<1>7. SU!Settle(S)
  BY <1>1, <1>3, <1>5 DEF SU!Settle, SU!SUPairs, Pairs
<1> QED
  BY <1>6, <1>7 DEF SU!SUNext

\* Every step of the registry is a step of the single-use ledger or none.
LEMMA StepRefines ==
  IInv /\ [Next]_vars => [SU!SUNext]_<<EffectiveKey, accepted>>
<1> SUFFICES ASSUME IInv, [Next]_vars
             PROVE  SU!SUNext \/ UNCHANGED <<EffectiveKey, accepted>>
  OBVIOUS
<1>1. ASSUME NEW id \in Ids, NEW vk \in Keys, NEW auth \in Accounts,
             RegisterCircuit(auth, id, vk)
      PROVE  SU!SUNext
  <2>1. EffectiveKey' = [EffectiveKey EXCEPT ![id] = vk]
    BY <1>1 DEF RegisterCircuit, EffectiveKey, IInv, TypeOK
  <2>2. SU!SetKey(id, vk)
    BY <1>1, <2>1 DEF RegisterCircuit, historyVars, SU!SetKey
  <2> QED BY <2>2 DEF SU!SUNext
<1>2. ASSUME NEW id \in Ids, NEW auth \in Accounts, RemoveCircuit(auth, id)
      PROVE  SU!SUNext
  <2>1. EffectiveKey' = [EffectiveKey EXCEPT ![id] = NoKey]
    BY <1>2 DEF RemoveCircuit, EffectiveKey, IInv, TypeOK
  <2>2. SU!SetKey(id, NoKey)
    BY <1>2, <2>1 DEF RemoveCircuit, historyVars, SU!SetKey
  <2> QED BY <2>2 DEF SU!SUNext
<1>3. ASSUME NEW item \in Items, VerifyProof(item)
      PROVE  SU!SUNext \/ UNCHANGED <<EffectiveKey, accepted>>
  BY <1>3, VerifyProofRefines
<1>4. CASE BatchReturn
  BY <1>4, BatchReturnRefines
<1>5. ASSUME UNCHANGED <<circuit, active, accepted>>
      PROVE  UNCHANGED <<EffectiveKey, accepted>>
  BY <1>5 DEF EffectiveKey
<1>6. \/ UNCHANGED <<circuit, active, accepted>>
      \/ BatchReturn
      \/ \E item \in Items : VerifyProof(item)
      \/ \E auth \in Accounts, id \in Ids, vk \in Keys : RegisterCircuit(auth, id, vk)
      \/ \E auth \in Accounts, id \in Ids : RemoveCircuit(auth, id)
  BY DEF Next, BatchStep, vars, ProposeAdmin, AcceptAdmin, Upgrade, BatchBegin,
         BatchEntry, BatchTrap, BatchOutOfBudget, EndBatch, ArchiveNullifier,
         RestoreNullifier, circuitVars, historyVars
<1> QED
  BY <1>1, <1>2, <1>3, <1>4, <1>5, <1>6

\* The registry implements the single-use ledger.
THEOREM RegistryImplementsSingleUse == Spec => ImplementsSingleUse
<1>1. Init => SU!SUInit
  BY InitRefines
<1>2. IInv /\ [Next]_vars => [SU!SUNext]_<<EffectiveKey, accepted>>
  BY StepRefines
<1> QED
  BY <1>1, <1>2, Invariance, PTL DEF Spec, ImplementsSingleUse, SU!SUSpec
=============================================================================
