------------------------ MODULE RegistryClientProofs ------------------------
(* Theorems about RegistryClient, for every value of its constants: what       *)
(* simulated answers say, from the invariant of the registry they simulate.    *)
EXTENDS RegistryClient, RegistryProofs, WellFoundedInduction

-----------------------------------------------------------------------------
(* Induction, by least elements of sets of numbers. *)

\* A set with 0 that is closed under successors up to n holds 0..n.
LEMMA InductionUpTo ==
  ASSUME NEW n \in Nat, NEW T, 0 \in T,
         \A k \in 0..n : k \in T /\ k < n => k + 1 \in T
  PROVE  \A k \in 0..n : k \in T
<1> DEFINE U == {k \in 0..n : k \notin T}
<1> SUFFICES ASSUME U # {} PROVE FALSE
  OBVIOUS
<1>1. PICK m \in U : \A k \in U : m <= k
  <2>1. U \subseteq Nat
    OBVIOUS
  <2> HIDE DEF U
  <2> QED BY <2>1, LeastElement
<1>2. m # 0 /\ m \in 0..n
  OBVIOUS
<1>3. m - 1 \in 0..n /\ m - 1 \in T
  <2>1. m - 1 \notin U
    BY <1>1, <1>2
  <2> QED BY <1>2, <2>1
<1> QED BY <1>2, <1>3

-----------------------------------------------------------------------------
(* A simulated batch. *)

SimulationStart == [burned |-> nullifiers, answers |-> <<>>, failed |-> FALSE]

\* The recursion over the entries has a solution, so it says what it seems to.
LEMMA SimulateEntriesDef ==
  ASSUME NEW items, NEW restoring, Len(items) \in Nat
  PROVE  \A k \in 0..Len(items) :
           SimulateEntries(items, restoring)[k]
             = IF k = 0 THEN SimulationStart
               ELSE SimulateEntry(SimulateEntries(items, restoring)[k - 1], items[k], restoring)
<1> DEFINE Turn(before, k) == SimulateEntry(before, items[k], restoring)
           P(f, n) == f = [k \in 0..n |-> IF k = 0 THEN SimulationStart ELSE Turn(f[k - 1], k)]
           T == {n \in Nat : \E f : P(f, n)}
<1>1. SimulateEntries(items, restoring) = CHOOSE f : P(f, Len(items))
  BY DEF SimulateEntries, SimulationStart
<1> HIDE DEF Turn
<1>2. 0 \in T
  <2> DEFINE f == [k \in 0..0 |-> SimulationStart]
  <2>1. P(f, 0)
    OBVIOUS
  <2> QED BY <2>1
<1>3. ASSUME NEW n \in Nat, NEW f, P(f, n) PROVE \E g : P(g, n + 1)
  <2> DEFINE g == [k \in 0..(n + 1) |-> IF k \in 0..n THEN f[k] ELSE Turn(f[n], n + 1)]
  <2>1. \A k \in 0..(n + 1) : g[k] = IF k = 0 THEN SimulationStart ELSE Turn(g[k - 1], k)
    <3> TAKE k \in 0..(n + 1)
    <3>1. CASE k = 0
      BY <1>3, <3>1
    <3>2. CASE k \in 1..n
      <4>1. k - 1 \in 0..n /\ k - 1 \in 0..(n + 1) /\ k \in 0..n
        BY <3>2
      <4>2. g[k] = f[k] /\ g[k - 1] = f[k - 1]
        BY <4>1
      <4> QED BY <1>3, <3>2, <4>1, <4>2
    <3>3. CASE k = n + 1
      <4>1. k - 1 \in 0..n /\ k - 1 \in 0..(n + 1) /\ ~(k \in 0..n) /\ k # 0 /\ k - 1 = n
        BY <3>3
      <4>2. g[k] = Turn(f[n], n + 1) /\ g[k - 1] = f[n]
        BY <4>1
      <4> QED BY <3>3, <4>1, <4>2
    <3> QED BY <3>1, <3>2, <3>3
  <2>2. P(g, n + 1)
    BY <2>1
  <2> QED BY <2>2
<1>4. \E f : P(f, Len(items))
  <2> HIDE DEF P
  <2>1. \A n \in Nat : n \in T <=> \E f : P(f, n)
    OBVIOUS
  <2>2. \A n \in Nat : n \in T => n + 1 \in T
    BY <1>3, <2>1
  <2> HIDE DEF T
  <2>3. Len(items) \in T
    BY <1>2, <2>2, InductionUpTo
  <2> QED BY <2>1, <2>3
<1>5. P(SimulateEntries(items, restoring), Len(items))
  <2> HIDE DEF P
  <2> QED BY <1>1, <1>4, Zenon
<1> QED BY <1>5 DEF Turn

\* Of the first k entries, those answered true are new to the replay set and
\* their pairs differ.
FreshAnswers(items, answers, k) ==
  \A i \in 1..k :
    answers[i] =>
      /\ NullifierOf(PairOf(items[i])) \notin nullifiers
      /\ \A j \in 1..i - 1 : answers[j] => PairOf(items[j]) # PairOf(items[i])

SimulatedSoFar(items, run, k) ==
  /\ run.answers \in Seq(BOOLEAN) /\ Len(run.answers) = k
  /\ nullifiers \subseteq run.burned
  /\ \A i \in 1..k : run.answers[i] => NullifierOf(PairOf(items[i])) \in run.burned
  /\ FreshAnswers(items, run.answers, k)

\* One more entry keeps it so.
LEMMA SimulateEntryFresh ==
  ASSUME NEW items \in Seq(Items), NEW restoring, NEW run, NEW k \in Nat, k + 1 <= Len(items),
         SimulatedSoFar(items, run, k)
  PROVE  SimulatedSoFar(items, SimulateEntry(run, items[k + 1], restoring), k + 1)
<1> DEFINE item == items[k + 1]
           n == NullifierOf(PairOf(item))
           success == SimulatedVerdict(item, run.burned, restoring) = "accept"
           next == SimulateEntry(run, item, restoring)
<1>1. item \in Items /\ Nullifier(item.id, InputsHash(item.inputs)) = n
  BY ItemNullifier
<1>2. success => n \notin run.burned
  BY <1>1 DEF SimulatedVerdict, Verdict
<1>3. /\ next.burned = IF success THEN run.burned \cup {n} ELSE run.burned
      /\ next.answers = Append(run.answers, success)
  BY <1>1 DEF SimulateEntry, Burn
<1>4. success \in BOOLEAN
  OBVIOUS
<1> HIDE DEF success, next
<1>5. /\ next.answers \in Seq(BOOLEAN) /\ Len(next.answers) = k + 1
      /\ next.answers[k + 1] = success
      /\ \A i \in 1..k : next.answers[i] = run.answers[i]
  BY <1>3, <1>4 DEF SimulatedSoFar
<1>6. nullifiers \subseteq next.burned /\ run.burned \subseteq next.burned
      /\ (success => n \in next.burned)
  BY <1>3 DEF SimulatedSoFar
<1>7. \A i \in 1..(k + 1) : i \in 1..k \/ i = k + 1
  OBVIOUS
<1> HIDE DEF n
<1>8. \A i \in 1..(k + 1) : next.answers[i] => NullifierOf(PairOf(items[i])) \in next.burned
  BY <1>5, <1>6, <1>7 DEF SimulatedSoFar, n
<1>9. FreshAnswers(items, next.answers, k + 1)
  <2> SUFFICES ASSUME NEW i \in 1..(k + 1), next.answers[i]
               PROVE  /\ NullifierOf(PairOf(items[i])) \notin nullifiers
                      /\ \A j \in 1..i - 1 : next.answers[j] => PairOf(items[j]) # PairOf(items[i])
    BY DEF FreshAnswers
  <2>1. CASE i \in 1..k
    <3>1. \A j \in 1..i - 1 : j \in 1..k
      BY <2>1
    <3> QED BY <2>1, <3>1, <1>5 DEF SimulatedSoFar, FreshAnswers
  <2>2. CASE i = k + 1
    <3>1. n \notin run.burned
      BY <1>2, <1>5, <2>2
    <3>2. \A j \in 1..k : next.answers[j] => NullifierOf(PairOf(items[j])) \in run.burned
      BY <1>5 DEF SimulatedSoFar
    <3>3. \A j \in 1..i - 1 : j \in 1..k
      BY <2>2
    <3> QED BY <2>2, <3>1, <3>2, <3>3 DEF SimulatedSoFar, n
  <2> QED BY <1>7, <2>1, <2>2
<1>10. SimulatedSoFar(items, next, k + 1)
  BY <1>5, <1>6, <1>8, <1>9 DEF SimulatedSoFar
<1> QED BY <1>10 DEF next

\* What a simulation of a batch answers is fresh.
LEMMA SimulateVerifyFresh ==
  ASSUME NEW items \in Seq(Items), NEW restoring, SimulateVerify(items, restoring) # Thrown
  PROVE  FreshAnswers(items, SimulateVerify(items, restoring), Len(items))
<1> DEFINE run == SimulateEntries(items, restoring)
           T == {k \in Nat : k \in 0..Len(items) => SimulatedSoFar(items, run[k], k)}
<1>1. Len(items) \in Nat
  OBVIOUS
<1>2. \A k \in 0..Len(items) :
        run[k] = IF k = 0 THEN SimulationStart ELSE SimulateEntry(run[k - 1], items[k], restoring)
  BY <1>1, SimulateEntriesDef
<1> HIDE DEF run
<1>3. 0 \in T
  <2>1. run[0] = SimulationStart
    BY <1>1, <1>2
  <2>2. run[0].answers = <<>> /\ run[0].burned = nullifiers
    BY <2>1 DEF SimulationStart
  <2>3. SimulatedSoFar(items, run[0], 0)
    BY <2>2 DEF SimulatedSoFar, FreshAnswers
  <2> QED BY <2>3
<1>4. \A k \in 0..Len(items) : k \in T /\ k < Len(items) => k + 1 \in T
  <2> SUFFICES ASSUME NEW k \in 0..Len(items), k \in T, k < Len(items) PROVE k + 1 \in T
    OBVIOUS
  <2>1. SimulatedSoFar(items, run[k], k)
    OBVIOUS
  <2>2. k \in Nat /\ k + 1 <= Len(items) /\ k + 1 \in 0..Len(items) /\ k + 1 # 0 /\ k + 1 - 1 = k
    BY <1>1
  <2>3. run[k + 1] = SimulateEntry(run[k], items[k + 1], restoring)
    BY <1>2, <2>2
  <2>4. SimulatedSoFar(items, run[k + 1], k + 1)
    BY <2>1, <2>2, <2>3, SimulateEntryFresh
  <2> QED BY <2>2, <2>4
<1>5. Len(items) \in T
  <2> HIDE DEF T
  <2>1. \A k \in 0..Len(items) : k \in T
    BY <1>1, <1>3, <1>4, InductionUpTo
  <2> QED BY <1>1, <2>1
<1>6. SimulatedSoFar(items, run[Len(items)], Len(items))
  BY <1>1, <1>5
<1>7. SimulateVerify(items, restoring) = run[Len(items)].answers
  BY DEF SimulateVerify, run
<1> QED BY <1>6, <1>7 DEF SimulatedSoFar

-----------------------------------------------------------------------------
(* The invariant: what is said to be known or used is used, and every answer   *)
(* fits what was used when its call was made.                                  *)

UsedAnswerHolds(r, used) ==
  /\ r.answer = <<TRUE>> => PairOf(r.items[1]) \in used
  /\ PairOf(r.items[1]) \in r.burnedBefore => r.answer[1]

FreshAnswerHolds(r) ==
  \A i \in DOMAIN r.items :
    r.answer[i] =>
      /\ PairOf(r.items[i]) \notin r.knownBefore
      /\ \A j \in 1..i - 1 : r.answer[j] => PairOf(r.items[j]) # PairOf(r.items[i])

CallHolds(r, used) ==
  /\ r = Call(r.phase, r.op, r.items, r.knownBefore, r.burnedBefore, r.answer)
  /\ r.knownBefore \subseteq used /\ r.burnedBefore \subseteq used
  /\ r.phase # "idle" => r.items \in Seq(Items) /\ r.items # <<>>
  /\ r.phase \in {"simulated", "done"} /\ r.answer # Thrown =>
       IF r.op = "used" THEN UsedAnswerHolds(r, used) ELSE FreshAnswerHolds(r)

ClientInv ==
  /\ knownUsed \subseteq Used
  /\ DOMAIN call = Calls /\ call = [c \in Calls |-> call[c]]
  /\ \A c \in Calls : CallHolds(call[c], Used)

\* The registry's behaviours are those of Registry.
LEMMA ClientRefinesSpec == ClientSpec => Spec
<1>1. ClientInit => Init
  BY DEF ClientInit
<1>2. [ClientNext]_registryClientVars => [Next]_vars
  BY DEF ClientNext, registryClientVars, vars, VerifyViaRegistry, VerifyBatchViaRegistry,
         IsNullifierUsedOnChain, Ask, Simulate, Answer, RequestFails
<1> QED BY <1>1, <1>2, PTL DEF ClientSpec, Spec

\* What is used stays used.
LEMMA UsedGrows == IInv /\ [Next]_vars => Used \subseteq Used'
<1> SUFFICES ASSUME IInv, [Next]_vars, NEW p \in Pairs, accepted[p] > 0 PROVE accepted'[p] > 0
  BY DEF Used
<1>1. accepted \in [Pairs -> Nat] /\ wAccepted \in [Pairs -> Nat]
  BY DEF IInv, TypeOK
<1>2. CASE accepted' = accepted
  BY <1>2
<1>3. ASSUME NEW item \in Items, VerifyProof(item) PROVE accepted'[p] > 0
  <2> DEFINE q == PairOf(item)
  <2>1. accepted' = accepted \/ accepted' = [accepted EXCEPT ![q] = @ + 1]
    BY <1>3 DEF VerifyProof, Tally
  <2> HIDE DEF q
  <2>2. \A m \in Nat : m + 1 > 0 /\ m + 1 \in Nat
    OBVIOUS
  <2>3. CASE p = q
    <3>1. [accepted EXCEPT ![q] = @ + 1][p] = accepted[p] + 1
      BY <1>1, <2>3
    <3> QED BY <1>1, <2>1, <2>2, <3>1
  <2>4. CASE p # q
    <3>1. [accepted EXCEPT ![q] = @ + 1][p] = accepted[p]
      BY <1>1, <2>4
    <3> QED BY <2>1, <3>1
  <2> QED BY <2>3, <2>4
<1>4. CASE BatchReturn
  <2>1. accepted' = wAccepted /\ BatchAddsProvable
    BY <1>4 DEF BatchReturn, IInv, RunningBatch
  <2>2. wAccepted[p] = accepted[p]
    <3>1. accepted[p] # 0
      BY <1>1
    <3> QED BY <2>1, <3>1, Zenon DEF BatchAddsProvable
  <2> QED BY <2>1, <2>2
<1>5. accepted' = accepted \/ BatchReturn \/ \E item \in Items : VerifyProof(item)
  BY DEF Next, vars, historyVars, ProposeAdmin, AcceptAdmin, Upgrade, RegisterCircuit, RemoveCircuit,
         BatchBegin, BatchStep, BatchEntry, BatchTrap, BatchOutOfBudget, ArchiveNullifier,
         RestoreNullifier
<1> QED BY <1>2, <1>3, <1>4, <1>5

\* An answer holds of a larger set of used pairs.
LEMMA CallHoldsOfMore ==
  ASSUME NEW r, NEW used, NEW usedLater, used \subseteq usedLater, CallHolds(r, used)
  PROVE  CallHolds(r, usedLater)
BY DEF CallHolds, UsedAnswerHolds

\* A pair is used exactly when its nullifier is burned.
LEMMA UsedIffBurned ==
  ASSUME IInv, NEW item \in Items
  PROVE  PairOf(item) \in Used <=> ComputeNullifier(item) \in nullifiers
<1>1. PairOf(item) \in Pairs /\ ComputeNullifier(item) = NullifierOf(PairOf(item))
  BY ItemNullifier DEF ComputeNullifier
<1>2. accepted[PairOf(item)] \in Nat /\ accepted[PairOf(item)] <= 1
  BY <1>1 DEF IInv, TypeOK, AtMostOnce
<1>3. ComputeNullifier(item) \in nullifiers <=> accepted[PairOf(item)] = 1
  BY <1>1 DEF IInv, Agree
<1> QED BY <1>1, <1>2, <1>3 DEF Used

\* A simulation leaves an answer that fits.
LEMMA SimulateHolds ==
  ASSUME IInv, NEW r, CallHolds(r, Used), r.phase = "asked", NEW restoring, NEW answer,
         answer = IF r.op = "used" THEN SimulateIsNullifierUsed(r.items[1], restoring)
                  ELSE SimulateVerify(r.items, restoring)
  PROVE  CallHolds(Advance(r, "simulated", answer), Used)
<1> DEFINE s == Advance(r, "simulated", answer)
<1>2. /\ s.phase = "simulated" /\ s.op = r.op /\ s.items = r.items /\ s.answer = answer
      /\ s.knownBefore = r.knownBefore /\ s.burnedBefore = r.burnedBefore
      /\ s = Call(s.phase, s.op, s.items, s.knownBefore, s.burnedBefore, s.answer)
  BY DEF Advance, Call
<1>3. r.items \in Seq(Items) /\ r.items # <<>>
      /\ r.knownBefore \subseteq Used /\ r.burnedBefore \subseteq Used
  BY DEF CallHolds
<1>4. 1 \in DOMAIN r.items /\ \A i \in DOMAIN r.items : r.items[i] \in Items /\ i \in 1..Len(r.items)
  BY <1>3
<1> HIDE DEF s
<1>5. ASSUME r.op = "used", answer # Thrown PROVE UsedAnswerHolds(s, Used)
  <2> DEFINE used == ComputeNullifier(r.items[1]) \in nullifiers
  <2>1. answer = <<used>>
    BY <1>5 DEF SimulateIsNullifierUsed, IsNullifierUsed
  <2>2. answer[1] <=> used
    <3> HIDE DEF used
    <3>1. answer[1] = used
      BY <2>1
    <3> QED BY <3>1, Zenon
  <2>3. answer[1] <=> PairOf(r.items[1]) \in Used
    BY <1>4, <2>2, UsedIffBurned
  <2>4. answer = <<TRUE>> => answer[1]
    <3>1. <<TRUE>>[1] = TRUE
      OBVIOUS
    <3> QED BY <3>1, Zenon
  <2> QED BY <1>2, <1>3, <2>3, <2>4 DEF UsedAnswerHolds
<1>6. ASSUME r.op # "used", answer # Thrown PROVE FreshAnswerHolds(s)
  <2>1. answer = SimulateVerify(r.items, restoring)
    BY <1>6
  <2>2. FreshAnswers(r.items, answer, Len(r.items))
    BY <1>3, <1>6, <2>1, SimulateVerifyFresh
  <2>3. \A i \in DOMAIN r.items :
          NullifierOf(PairOf(r.items[i])) \notin nullifiers => PairOf(r.items[i]) \notin Used
    BY <1>4, UsedIffBurned, ItemNullifier DEF ComputeNullifier
  <2> QED BY <1>2, <1>3, <1>4, <2>2, <2>3 DEF FreshAnswers, FreshAnswerHolds
<1>7. CallHolds(s, Used)
  BY <1>2, <1>3, <1>5, <1>6 DEF CallHolds
<1> QED BY <1>7 DEF s

\* The first state satisfies the invariant.
LEMMA ClientInitInv == ClientInit => ClientInv
<1> SUFFICES ASSUME ClientInit PROVE ClientInv
  OBVIOUS
<1>1. call = [c \in Calls |-> IdleCall] /\ knownUsed = {}
  BY DEF ClientInit
<1>2. CallHolds(IdleCall, Used)
  BY DEF CallHolds, IdleCall, Call
<1>3. DOMAIN call = Calls /\ call = [c \in Calls |-> call[c]]
      /\ \A c \in Calls : call[c] = IdleCall
  BY <1>1
<1> QED BY <1>1, <1>2, <1>3 DEF ClientInv

\* Replacing one call by one that holds keeps the invariant.
LEMMA OneCallChanges ==
  ASSUME ClientInv, UNCHANGED vars, NEW c \in Calls, NEW r, call' = [call EXCEPT ![c] = r],
         CallHolds(r, Used), knownUsed' \subseteq Used
  PROVE  ClientInv'
<1>1. Used' = Used
  BY DEF Used, vars, historyVars
<1>2. \A d \in Calls : call'[d] = IF d = c THEN r ELSE call[d]
  BY DEF ClientInv
<1> QED BY <1>1, <1>2 DEF ClientInv

\* Every step keeps the invariant.
LEMMA ClientNextInv == IInv /\ ClientInv /\ [ClientNext]_registryClientVars => ClientInv'
<1> SUFFICES ASSUME IInv, ClientInv, [ClientNext]_registryClientVars PROVE ClientInv'
  OBVIOUS
<1>1. ASSUME Next \/ UNCHANGED vars, UNCHANGED clientVars PROVE ClientInv'
  <2>1. Used \subseteq Used'
    BY <1>1, UsedGrows
  <2> QED BY <1>1, <2>1, CallHoldsOfMore DEF ClientInv, clientVars
<1>2. ASSUME NEW c \in Calls, NEW op, NEW items \in Seq(Items), items # <<>>, Ask(c, op, items)
      PROVE  ClientInv'
  <2> DEFINE r == Call("asked", op, items, knownUsed, Used, NoAnswer)
  <2>1. /\ UNCHANGED vars /\ knownUsed' = knownUsed /\ call' = [call EXCEPT ![c] = r]
        /\ knownUsed \subseteq Used
    BY <1>2 DEF Ask, ClientInv
  <2>2. CallHolds(r, Used)
    BY <1>2, <2>1 DEF CallHolds, Call
  <2> HIDE DEF r
  <2> QED BY <2>1, <2>2, OneCallChanges
<1>3. ASSUME NEW c \in Calls, NEW restoring, Simulate(c, restoring) PROVE ClientInv'
  <2> DEFINE answer == IF call[c].op = "used"
                         THEN SimulateIsNullifierUsed(call[c].items[1], restoring)
                         ELSE SimulateVerify(call[c].items, restoring)
             r == Advance(call[c], "simulated", answer)
  <2>1. /\ UNCHANGED vars /\ knownUsed' = knownUsed /\ call' = [call EXCEPT ![c] = r]
        /\ call[c].phase = "asked"
    BY <1>3 DEF Simulate, ClientInv
  <2>2. CallHolds(call[c], Used) /\ knownUsed \subseteq Used
    BY DEF ClientInv
  <2> HIDE DEF answer
  <2>3. CallHolds(r, Used)
    BY <2>1, <2>2, SimulateHolds DEF answer
  <2> HIDE DEF r
  <2> QED BY <2>1, <2>2, <2>3, OneCallChanges
<1>4. ASSUME NEW c \in Calls, Answer(c) PROVE ClientInv'
  <2> DEFINE r == Advance(call[c], "done", call[c].answer)
  <2>1. /\ UNCHANGED vars /\ call' = [call EXCEPT ![c] = r] /\ call[c].phase = "simulated"
        /\ CallHolds(call[c], Used) /\ knownUsed \subseteq Used
    BY <1>4 DEF Answer, ClientInv
  <2>2. r = Call("done", call[c].op, call[c].items, call[c].knownBefore, call[c].burnedBefore,
                 call[c].answer)
    BY DEF Advance
  <2> HIDE DEF r
  <2>3. CallHolds(r, Used)
    <3>1. /\ r.phase = "done" /\ r.op = call[c].op /\ r.items = call[c].items
          /\ r.answer = call[c].answer
          /\ r.knownBefore = call[c].knownBefore /\ r.burnedBefore = call[c].burnedBefore
      BY <2>2 DEF Call
    <3>2. r = Call(r.phase, r.op, r.items, r.knownBefore, r.burnedBefore, r.answer)
      BY <2>2, <3>1, Zenon
    <3>3. r.items \in Seq(Items) /\ r.items # <<>>
          /\ r.knownBefore \subseteq Used /\ r.burnedBefore \subseteq Used
      BY <2>1, <3>1 DEF CallHolds
    <3>4. r.answer # Thrown =>
            IF r.op = "used" THEN UsedAnswerHolds(r, Used) ELSE FreshAnswerHolds(r)
      BY <2>1, <3>1 DEF CallHolds, UsedAnswerHolds, FreshAnswerHolds
    <3> QED BY <3>2, <3>3, <3>4, Zenon DEF CallHolds
  <2>4. knownUsed' \subseteq Used
    <3>1. CASE call[c].op = "used" /\ call[c].answer = <<TRUE>>
      <4>1. call[c].answer # Thrown
        BY <3>1 DEF Thrown
      <4> QED BY <1>4, <2>1, <3>1, <4>1 DEF Answer, CallHolds, UsedAnswerHolds
    <3>2. CASE ~(call[c].op = "used" /\ call[c].answer = <<TRUE>>)
      BY <1>4, <2>1, <3>2 DEF Answer
    <3> QED BY <3>1, <3>2
  <2> QED BY <2>1, <2>3, <2>4, OneCallChanges
<1>5. ASSUME NEW c \in Calls, RequestFails(c) PROVE ClientInv'
  <2> DEFINE r == Advance(call[c], "done", Thrown)
  <2>1. /\ UNCHANGED vars /\ knownUsed' = knownUsed /\ call' = [call EXCEPT ![c] = r]
        /\ call[c].phase \in {"asked", "simulated"}
        /\ CallHolds(call[c], Used) /\ knownUsed \subseteq Used
    BY <1>5 DEF RequestFails, ClientInv
  <2>2. r = Call("done", call[c].op, call[c].items, call[c].knownBefore, call[c].burnedBefore, Thrown)
    BY DEF Advance
  <2> HIDE DEF r
  <2>3. /\ r.phase = "done" /\ r.op = call[c].op /\ r.items = call[c].items /\ r.answer = Thrown
        /\ r.knownBefore = call[c].knownBefore /\ r.burnedBefore = call[c].burnedBefore
    BY <2>2 DEF Call
  <2>4. r.items \in Seq(Items) /\ r.items # <<>>
        /\ r.knownBefore \subseteq Used /\ r.burnedBefore \subseteq Used
    BY <2>1, <2>3 DEF CallHolds
  <2>5. r = Call(r.phase, r.op, r.items, r.knownBefore, r.burnedBefore, r.answer)
    BY <2>2, <2>3, Zenon
  <2>6. CallHolds(r, Used)
    BY <2>3, <2>4, <2>5, Zenon DEF CallHolds
  <2> QED BY <2>1, <2>6, OneCallChanges
<1>6. \A item \in Items : <<item>> \in Seq(Items) /\ <<item>> # <<>>
  OBVIOUS
<1>7. \A items \in Questions : items \in Seq(Items) /\ items # <<>>
  BY MaxItemsAssumption DEF Questions
<1>8. \/ (Next \/ UNCHANGED vars) /\ UNCHANGED clientVars
      \/ \E c \in Calls :
           \/ \E item \in Items : \E op \in {"verify", "used"} : Ask(c, op, <<item>>)
           \/ \E items \in Questions : Ask(c, "batch", items)
           \/ \E restoring \in BOOLEAN : Simulate(c, restoring)
           \/ Answer(c)
           \/ RequestFails(c)
  BY DEF ClientNext, registryClientVars, VerifyViaRegistry, VerifyBatchViaRegistry,
         IsNullifierUsedOnChain
<1> QED BY <1>1, <1>2, <1>3, <1>4, <1>5, <1>6, <1>7, <1>8

\* Both invariants hold in every state.
LEMMA ClientInvariance == ClientSpec => [](IInv /\ ClientInv)
<1>1. ClientInit => ClientInv
  BY ClientInitInv
<1>2. IInv /\ ClientInv /\ [ClientNext]_registryClientVars => ClientInv'
  BY ClientNextInv
<1> QED BY <1>1, <1>2, ClientRefinesSpec, Invariance, PTL DEF ClientSpec

-----------------------------------------------------------------------------
\* What verifyViaRegistry and verifyBatchViaRegistry are told is never about inputs
\* that isNullifierUsedOnChain had already found used.
THEOREM VerifiedIsFreshAlways == ClientSpec => []VerifiedIsFresh
<1>1. ClientInv => VerifiedIsFresh
  BY DEF ClientInv, CallHolds, FreshAnswerHolds, VerifiedIsFresh, Answered
<1> QED BY <1>1, ClientInvariance, PTL

\* isNullifierUsedOnChain misses no success that was there when it was called.
THEOREM UsedIsNotMissedAlways == ClientSpec => []UsedIsNotMissed
<1>1. ClientInv => UsedIsNotMissed
  BY DEF ClientInv, CallHolds, UsedAnswerHolds, UsedIsNotMissed, Answered
<1> QED BY <1>1, ClientInvariance, PTL
=============================================================================
