--------------------------- MODULE VerifierProofs ---------------------------
(***************************************************************************)
(* What the verifier does for every set of callers, keys, proofs, limits   *)
(* and ledgers, and what the SDK's reads of it tell.  IInv of Verifier is  *)
(* inductive; the properties follow.                                       *)
(***************************************************************************)
EXTENDS VerifierReads, Integers, TLAPS

-----------------------------------------------------------------------------
(* Windows. *)

\* A ledger lies in the window that starts at its WindowStart.
LEMMA WindowHoldsLedger ==
  ASSUME NEW l \in Nat, NEW size \in Nat \ {0}
  PROVE  /\ WindowStart(l, size) \in 0..l
         /\ l < WindowStart(l, size) + size
<1>1. l % size \in 0..(size - 1)
  BY SMT
<1>2. l % size <= l
  BY SMT
<1> QED
  BY <1>1, <1>2 DEF WindowStart

\* A window that the next ledger does not share starts with that ledger.
LEMMA NextWindowStartsNow ==
  ASSUME NEW l \in Nat, NEW size \in Nat \ {0},
         WindowStart(l + 1, size) # WindowStart(l, size)
  PROVE  WindowStart(l + 1, size) = l + 1
<1> DEFINE a == l \div size
           b == (l + 1) \div size
           r == l % size
           t == (l + 1) % size
<1>1. a \in Int /\ b \in Int /\ r \in 0..(size - 1) /\ t \in 0..(size - 1)
  BY SMT
<1>2. l = (size * a) + r /\ l + 1 = (size * b) + t
  BY SMT
<1>3. WindowStart(l, size) = l - r /\ WindowStart(l + 1, size) = l + 1 - t
  BY DEF WindowStart
<1>4. t # r + 1
  BY <1>1, <1>3
<1> HIDE DEF a, b, r, t
<1>5. size * (b - a) = r + 1 - t
  BY <1>1, <1>2, SMT
<1>6. SUFFICES ASSUME t # 0 PROVE FALSE
  BY <1>1, <1>3
<1>7. CASE b - a >= 1
  <2>1. size * (b - a) >= size
    BY <1>1, <1>7, SMT
  <2> QED
    BY <2>1, <1>1, <1>5, <1>6
<1>8. CASE b - a <= -1
  <2>1. size * (b - a) <= -size
    BY <1>1, <1>8, SMT
  <2> QED
    BY <2>1, <1>1, <1>5
<1>9. CASE b - a = 0
  BY <1>1, <1>4, <1>5, <1>9, SMT
<1> QED
  BY <1>1, <1>7, <1>8, <1>9

\* The window of the current ledger has its own slot in the store.
LEMMA StartInRange ==
  ASSUME NEW l \in 0..MaxLedger, NEW lim \in Limits
  PROVE  LET w == WindowStart(l, lim.windowSize)
         IN w \in WindowStarts /\ w <= l /\ l < w + lim.windowSize /\ w \in Nat
<1>1. MaxLedger \in Nat /\ U32Max \in Nat
  BY LedgerAssumption, LimitsAssumption
<1>2. lim.windowSize \in Nat \ {0}
  BY <1>1 DEF Limits
<1> QED
  BY <1>1, <1>2, WindowHoldsLedger DEF WindowStarts

-----------------------------------------------------------------------------
(* The state a ledger closes with and the next one opens with. *)

\* While the window lasts, a count is neither lost nor found again.
LEMMA SameWindowCounts ==
  ASSUME NEW l \in Nat, l < MaxLedger, NEW lim \in Limits, NEW s \in Stores,
         NEW h \in Histories, NEW c \in Callers,
         WindowStart(l + 1, lim.windowSize) = WindowStart(l, lim.windowSize),
         UsedAlive(l, lim, s, h)
  PROVE  /\ Counted(s, c, l + 1, lim.windowSize) <= Counted(s, c, l, lim.windowSize)
         /\ h.used[c] > 0 => Counted(s, c, l + 1, lim.windowSize)
                               = Counted(s, c, l, lim.windowSize)
         /\ Counted(s, c, l, lim.windowSize) \in Nat
         /\ Counted(s, c, l + 1, lim.windowSize) \in Nat
<1> DEFINE size == lim.windowSize
           w == WindowStart(l, size)
           live == s.liveUntil[<<c, w>>]
           count == s.callCount[<<c, w>>]
<1>1. MaxLedger \in Nat /\ l \in 0..MaxLedger /\ l + 1 \in 0..MaxLedger
  BY LedgerAssumption, LimitsAssumption
<1>2. w \in WindowStarts /\ w \in Nat /\ l + 1 < w + size
  BY <1>1, StartInRange
<1>3. live \in Nat /\ count \in Nat
  BY <1>2 DEF Stores, Slots
<1>4. h.used[c] > 0 => live >= w + size
  BY DEF UsedAlive
<1>5. size \in Nat
  BY LimitsAssumption DEF Limits
<1>6. /\ Counted(s, c, l, size) = IF live >= l THEN count ELSE 0
      /\ Counted(s, c, l + 1, size) = IF live >= l + 1 THEN count ELSE 0
  BY DEF Counted
<1> HIDE DEF size, w, live, count
<1>7. /\ Counted(s, c, l + 1, size) <= Counted(s, c, l, size)
      /\ h.used[c] > 0 => Counted(s, c, l + 1, size) = Counted(s, c, l, size)
      /\ Counted(s, c, l, size) \in Nat
      /\ Counted(s, c, l + 1, size) \in Nat
  BY <1>2, <1>3, <1>4, <1>5, <1>6
<1> QED
  BY <1>7 DEF size

LEMMA AgreeSameWindow ==
  ASSUME NEW l \in Nat, l < MaxLedger, NEW lim \in Limits, NEW rel \in BOOLEAN,
         NEW s \in Stores, NEW h \in Histories,
         WindowStart(l + 1, lim.windowSize) = WindowStart(l, lim.windowSize),
         Agree(l, lim, rel, s, h)
  PROVE  Agree(l + 1, lim, rel, s, h)
<1>1. \A c \in Callers : h.used[c] \in Nat
  BY DEF Histories
<1>2. UsedWithin(lim, h) /\ Tallied(s, h) /\ UsedAlive(l, lim, s, h)
  BY DEF Agree
<1>3. UsedAlive(l + 1, lim, s, h)
  BY <1>2 DEF UsedAlive
<1>4. UsedCounted(l + 1, lim, s, h)
  <2> SUFFICES ASSUME NEW c \in Callers
               PROVE  h.used[c] <= Counted(s, c, l + 1, lim.windowSize)
    BY DEF UsedCounted
  <2>1. h.used[c] <= Counted(s, c, l, lim.windowSize)
    BY DEF Agree, UsedCounted
  <2> QED
    BY <2>1, <1>1, <1>2, SameWindowCounts
<1>5. FutureEmpty(l + 1, s)
  <2>1. WindowStarts \subseteq Nat
    BY LedgerAssumption, LimitsAssumption DEF WindowStarts
  <2>2. \A w \in WindowStarts : w > l + 1 => w > l
    BY <2>1
  <2> QED
    BY <2>2 DEF Agree, FutureEmpty
<1>6. ~rel => UsedExact(l + 1, lim, s, h)
  <2> SUFFICES ASSUME ~rel, NEW c \in Callers
               PROVE  Counted(s, c, l + 1, lim.windowSize) = h.used[c]
    BY DEF UsedExact
  <2>1. Counted(s, c, l, lim.windowSize) = h.used[c]
    BY DEF Agree, UsedExact
  <2> QED
    BY <2>1, <1>1, <1>2, SameWindowCounts
<1> QED
  BY <1>2, <1>3, <1>4, <1>5, <1>6 DEF Agree

LEMMA AgreeNewWindow ==
  ASSUME NEW l \in Nat, l < MaxLedger, NEW lim \in Limits, NEW rel \in BOOLEAN,
         NEW s \in Stores, NEW h \in Histories,
         WindowStart(l + 1, lim.windowSize) # WindowStart(l, lim.windowSize),
         Agree(l, lim, rel, s, h)
  PROVE  Agree(l + 1, lim, FALSE, s, [h EXCEPT !.used = NothingUsed])
<1> DEFINE g == [h EXCEPT !.used = NothingUsed]
<1>1. g.published = h.published /\ \A c \in Callers : g.used[c] = 0
  BY DEF Histories, NothingUsed
<1>2. MaxLedger \in Nat /\ l + 1 \in 0..MaxLedger /\ U32Max \in Nat
  BY LedgerAssumption, LimitsAssumption
<1>3. lim.windowSize \in Nat \ {0} /\ lim.maxCalls \in Nat
  BY <1>2 DEF Limits
<1>4. WindowStart(l + 1, lim.windowSize) = l + 1
  BY <1>3, NextWindowStartsNow
<1>5. \A c \in Callers : Counted(s, c, l + 1, lim.windowSize) = 0
  <2>1. l + 1 \in WindowStarts /\ l + 1 > l
    BY <1>2 DEF WindowStarts
  <2>2. \A c \in Callers : s.callCount[<<c, l + 1>>] = 0
    BY <2>1 DEF Agree, FutureEmpty
  <2> QED
    BY <2>2, <1>4 DEF Counted
<1> HIDE DEF g
<1>6. UsedWithin(lim, g) /\ UsedCounted(l + 1, lim, s, g) /\ UsedAlive(l + 1, lim, s, g)
  BY <1>1, <1>3, <1>5 DEF UsedWithin, UsedCounted, UsedAlive
<1>7. UsedExact(l + 1, lim, s, g)
  BY <1>1, <1>5 DEF UsedExact
<1>8. FutureEmpty(l + 1, s)
  <2>1. WindowStarts \subseteq Nat
    BY <1>2 DEF WindowStarts
  <2>2. \A w \in WindowStarts : w > l + 1 => w > l
    BY <2>1
  <2> QED
    BY <2>2 DEF Agree, FutureEmpty
<1>9. Tallied(s, g)
  BY <1>1 DEF Agree, Tallied
<1>10. Agree(l + 1, lim, FALSE, s, g)
  BY <1>6, <1>7, <1>8, <1>9 DEF Agree
<1> QED
  BY <1>10 DEF g

-----------------------------------------------------------------------------
(* One entry. *)

\* CurrentCount reads the slot that Agree speaks of.
LEMMA CurrentIsCounted ==
  ASSUME NEW s, NEW c
  PROVE  CurrentCount(s, c) = Counted(s, c, ledger, limits.windowSize)
BY DEF CurrentCount, Counted, Start

\* What a charge does to the slots: the caller's slot of this window counts one
\* more and outlives the window, and no other slot is touched.
LEMMA ChargeEffect ==
  ASSUME TypeOK, NEW s \in Stores, NEW who \in Callers
  PROVE  /\ Charge(s, who) \in Stores
         /\ Charge(s, who).verificationCount = s.verificationCount
         /\ Charge(s, who).callCount[<<who, Start>>] = CurrentCount(s, who) + 1
         /\ Charge(s, who).liveUntil[<<who, Start>>] >= ledger + limits.windowSize
         /\ \A t \in Slots : t # <<who, Start>> =>
              /\ Charge(s, who).callCount[t] = s.callCount[t]
              /\ Charge(s, who).liveUntil[t] = s.liveUntil[t]
<1> DEFINE slot == <<who, Start>>
           base == IF s.liveUntil[slot] >= ledger /\ s.callCount[slot] > 0
                     THEN s.liveUntil[slot] ELSE ledger + MinTempTtl - 1
           live == AtLeast(base, ledger + limits.windowSize)
           count == CurrentCount(s, who) + 1
<1>1. /\ ledger \in 0..MaxLedger /\ limits \in Limits /\ MaxLedger \in Nat
      /\ MinTempTtl \in Nat \ {0} /\ U32Max \in Nat
  BY LedgerAssumption, LimitsAssumption DEF TypeOK
<1>2. limits.windowSize \in Nat /\ ledger \in Nat
  BY <1>1 DEF Limits
<1>3. slot \in Slots
  BY <1>1, StartInRange DEF Start, Slots
<1>4. s.liveUntil[slot] \in Nat /\ s.callCount[slot] \in Nat
  BY <1>3 DEF Stores
<1>5. CurrentCount(s, who) \in Nat
  BY <1>4 DEF CurrentCount
<1>6. base \in Nat
  BY <1>1, <1>2, <1>4
<1>7. live \in Nat /\ live >= ledger + limits.windowSize
  BY <1>2, <1>6 DEF AtLeast
<1>8. Charge(s, who) = [s EXCEPT !.callCount[slot] = count, !.liveUntil[slot] = live]
  BY DEF Charge
<1>9. count \in Nat
  BY <1>5
<1> HIDE DEF slot, base, live, count
<1>10. /\ Charge(s, who) \in Stores
       /\ Charge(s, who).verificationCount = s.verificationCount
       /\ Charge(s, who).callCount[slot] = count
       /\ Charge(s, who).liveUntil[slot] = live
       /\ \A t \in Slots : t # slot =>
            /\ Charge(s, who).callCount[t] = s.callCount[t]
            /\ Charge(s, who).liveUntil[t] = s.liveUntil[t]
  <2>1. /\ s.callCount \in [Slots -> Nat] /\ s.liveUntil \in [Slots -> Nat]
        /\ s.verificationCount \in [Commitments -> Nat]
    BY DEF Stores
  <2>2. s = [callCount |-> s.callCount, liveUntil |-> s.liveUntil,
             verificationCount |-> s.verificationCount]
    BY DEF Stores
  <2>3. Charge(s, who) = [callCount |-> [s.callCount EXCEPT ![slot] = count],
                          liveUntil |-> [s.liveUntil EXCEPT ![slot] = live],
                          verificationCount |-> s.verificationCount]
    BY <1>8, <2>2
  <2>4. /\ [s.callCount EXCEPT ![slot] = count] \in [Slots -> Nat]
        /\ [s.liveUntil EXCEPT ![slot] = live] \in [Slots -> Nat]
    BY <1>7, <1>9, <2>1
  <2> QED
    BY <1>3, <2>1, <2>3, <2>4 DEF Stores
<1> QED
  BY <1>7, <1>10 DEF slot, count

\* The count that a charge leaves is read back while the window lasts.
LEMMA ChargeCounts ==
  ASSUME TypeOK, NEW s \in Stores, NEW who \in Callers, NEW c \in Callers
  PROVE  /\ CurrentCount(s, c) \in Nat
         /\ CurrentCount(Charge(s, who), c)
              = CurrentCount(s, c) + (IF c = who THEN 1 ELSE 0)
<1>1. /\ ledger \in 0..MaxLedger /\ limits \in Limits /\ MaxLedger \in Nat
      /\ U32Max \in Nat
  BY LedgerAssumption, LimitsAssumption DEF TypeOK
<1>2. limits.windowSize \in Nat /\ ledger \in Nat
  BY <1>1 DEF Limits
<1>3. <<c, Start>> \in Slots
  BY <1>1, StartInRange DEF Start, Slots
<1>4. CurrentCount(s, c) \in Nat
  BY <1>3 DEF CurrentCount, Stores
<1>5. Charge(s, who) \in Stores
  BY ChargeEffect
<1>6. Charge(s, who).liveUntil[<<c, Start>>] \in Nat
  BY <1>3, <1>5 DEF Stores
<1>7. CASE c = who
  <2>1. Charge(s, who).liveUntil[<<c, Start>>] >= ledger
    BY <1>2, <1>6, <1>7, ChargeEffect
  <2>2. Charge(s, who).callCount[<<c, Start>>] = CurrentCount(s, c) + 1
    BY <1>7, ChargeEffect
  <2> QED
    BY <2>1, <2>2, <1>4, <1>7 DEF CurrentCount
<1>8. CASE c # who
  <2>1. <<c, Start>> # <<who, Start>>
    BY <1>8
  <2>2. /\ Charge(s, who).callCount[<<c, Start>>] = s.callCount[<<c, Start>>]
        /\ Charge(s, who).liveUntil[<<c, Start>>] = s.liveUntil[<<c, Start>>]
    BY <2>1, <1>3, ChargeEffect
  <2> QED
    BY <2>2, <1>4, <1>8 DEF CurrentCount
<1> QED
  BY <1>4, <1>7, <1>8

\* The history after a charge.
Used(h, who) == [h EXCEPT !.used[who] = @ + 1]

LEMMA AgreeCharge ==
  ASSUME TypeOK, NEW s \in Stores, NEW h \in Histories, NEW who \in Callers,
         Gate(s, who) = "open",
         Agree(ledger, limits, relimited, s, h)
  PROVE  /\ Used(h, who) \in Histories
         /\ Agree(ledger, limits, relimited, Charge(s, who), Used(h, who))
<1> DEFINE q == Charge(s, who)
           g == Used(h, who)
<1>1. /\ ledger \in 0..MaxLedger /\ limits \in Limits /\ MaxLedger \in Nat
      /\ U32Max \in Nat
  BY LedgerAssumption, LimitsAssumption DEF TypeOK
<1>2. limits.windowSize \in Nat /\ limits.maxCalls \in Nat /\ ledger \in Nat
  BY <1>1 DEF Limits
<1>3. /\ g \in Histories
      /\ g.published = h.published
      /\ \A c \in Callers : g.used[c] = h.used[c] + (IF c = who THEN 1 ELSE 0)
      /\ \A c \in Callers : h.used[c] \in Nat /\ g.used[c] \in Nat
  BY DEF Used, Histories
<1>4. q \in Stores /\ q.verificationCount = s.verificationCount
  BY ChargeEffect
<1>5. \A c \in Callers :
        /\ CurrentCount(s, c) \in Nat
        /\ CurrentCount(q, c) = CurrentCount(s, c) + (IF c = who THEN 1 ELSE 0)
  BY ChargeCounts
<1>6. CurrentCount(s, who) + 1 <= limits.maxCalls
  BY <1>2, <1>5 DEF Gate
<1>7. \A c \in Callers : h.used[c] <= CurrentCount(s, c) /\ h.used[c] <= limits.maxCalls
  BY CurrentIsCounted DEF Agree, UsedWithin, UsedCounted
<1>8. Start = WindowStart(ledger, limits.windowSize) /\ Start \in WindowStarts
      /\ Start <= ledger /\ Start \in Nat
  BY <1>1, StartInRange DEF Start
<1> HIDE DEF q, g
<1>9. \A c \in Callers : g.used[c] <= CurrentCount(q, c)
  BY <1>3, <1>5, <1>7
<1>10. UsedCounted(ledger, limits, q, g)
  BY <1>9, CurrentIsCounted DEF UsedCounted
<1>11. UsedWithin(limits, g)
  <2> SUFFICES ASSUME NEW c \in Callers PROVE g.used[c] <= limits.maxCalls
    BY DEF UsedWithin
  <2> QED
    BY <1>2, <1>3, <1>5, <1>6, <1>7
<1>12. UsedAlive(ledger, limits, q, g)
  <2> SUFFICES ASSUME NEW c \in Callers, g.used[c] > 0
               PROVE  q.liveUntil[<<c, Start>>] >= Start + limits.windowSize
    BY <1>8 DEF UsedAlive
  <2>1. <<c, Start>> \in Slots
    BY <1>8 DEF Slots
  <2>2. q.liveUntil[<<c, Start>>] \in Nat
    BY <2>1, <1>4 DEF Stores
  <2>3. CASE c = who
    <3>1. q.liveUntil[<<c, Start>>] >= ledger + limits.windowSize
      BY <2>3, ChargeEffect DEF q
    <3> QED
      BY <3>1, <2>2, <1>2, <1>8
  <2>4. CASE c # who
    <3>1. q.liveUntil[<<c, Start>>] = s.liveUntil[<<c, Start>>]
      BY <2>1, <2>4, ChargeEffect DEF q
    <3>2. h.used[c] > 0
      BY <1>3, <2>4
    <3> QED
      BY <3>1, <3>2, <1>8 DEF Agree, UsedAlive
  <2> QED
    BY <2>3, <2>4
<1>13. FutureEmpty(ledger, q)
  <2> SUFFICES ASSUME NEW c \in Callers, NEW w \in WindowStarts, w > ledger
               PROVE  q.callCount[<<c, w>>] = 0
    BY DEF FutureEmpty
  <2>1. <<c, w>> \in Slots /\ <<c, w>> # <<who, Start>>
    BY <1>1, <1>2, <1>8 DEF Slots, WindowStarts
  <2>2. q.callCount[<<c, w>>] = s.callCount[<<c, w>>]
    BY <2>1, ChargeEffect DEF q
  <2> QED
    BY <2>2 DEF Agree, FutureEmpty
<1>14. ~relimited => UsedExact(ledger, limits, q, g)
  <2> SUFFICES ASSUME ~relimited, NEW c \in Callers PROVE CurrentCount(q, c) = g.used[c]
    BY CurrentIsCounted DEF UsedExact
  <2>1. CurrentCount(s, c) = h.used[c]
    BY CurrentIsCounted DEF Agree, UsedExact
  <2> QED
    BY <2>1, <1>3, <1>5
<1>15. Tallied(q, g)
  BY <1>3, <1>4 DEF Agree, Tallied
<1>16. g \in Histories /\ Agree(ledger, limits, relimited, q, g)
  BY <1>3, <1>10, <1>11, <1>12, <1>13, <1>14, <1>15 DEF Agree
<1> QED
  BY <1>16 DEF q, g

\* The history after a success event.
Published(h, item) == [h EXCEPT !.published[item.inputs] = @ + 1]

LEMMA AgreeRecord ==
  ASSUME NEW s \in Stores, NEW h \in Histories, NEW item \in Items,
         Agree(ledger, limits, relimited, s, h)
  PROVE  /\ RecordVerificationAttempt(s, item) \in Stores
         /\ Published(h, item) \in Histories
         /\ Agree(ledger, limits, relimited, RecordVerificationAttempt(s, item),
                  Published(h, item))
         /\ \A c : CurrentCount(RecordVerificationAttempt(s, item), c) = CurrentCount(s, c)
<1> DEFINE q == RecordVerificationAttempt(s, item)
           g == Published(h, item)
           hash == InputsHash(item.inputs)
<1>1. item.inputs \in Inputs /\ hash \in Commitments
  BY DEF Items, Commitments
<1>2. /\ g \in Histories /\ g.used = h.used
      /\ \A pi \in Inputs :
           g.published[pi] = h.published[pi] + (IF pi = item.inputs THEN 1 ELSE 0)
  BY <1>1 DEF Published, Histories
<1>3. s.verificationCount \in [Commitments -> Nat] /\ s.verificationCount[hash] \in Nat
  BY <1>1 DEF Stores
<1>4. s = [callCount |-> s.callCount, liveUntil |-> s.liveUntil,
           verificationCount |-> s.verificationCount]
  BY DEF Stores
<1>5. q = [callCount |-> s.callCount, liveUntil |-> s.liveUntil,
           verificationCount |-> [s.verificationCount EXCEPT ![hash] = @ + 1]]
  BY <1>4 DEF RecordVerificationAttempt
<1>6. q \in Stores /\ q.callCount = s.callCount /\ q.liveUntil = s.liveUntil
  <2> DEFINE next == s.verificationCount[hash] + 1
  <2>1. [s.verificationCount EXCEPT ![hash] = @ + 1] \in [Commitments -> Nat]
    <3>1. next \in Nat
      BY <1>3
    <3> HIDE DEF hash, next
    <3>2. [s.verificationCount EXCEPT ![hash] = next] \in [Commitments -> Nat]
      BY <1>3, <3>1
    <3> QED
      BY <3>2 DEF next
  <2> QED
    BY <2>1, <1>5 DEF Stores
<1>7. \A pi \in Inputs : q.verificationCount[InputsHash(pi)]
        = s.verificationCount[InputsHash(pi)] + (IF pi = item.inputs THEN 1 ELSE 0)
  <2> SUFFICES ASSUME NEW pi \in Inputs
               PROVE  q.verificationCount[InputsHash(pi)]
                        = s.verificationCount[InputsHash(pi)]
                            + (IF pi = item.inputs THEN 1 ELSE 0)
    OBVIOUS
  <2>1. InputsHash(pi) \in Commitments /\ (InputsHash(pi) = hash <=> pi = item.inputs)
    BY DEF Commitments, InputsHash
  <2>2. s.verificationCount[InputsHash(pi)] \in Nat
    BY <2>1, <1>3
  <2>3. q.verificationCount = [s.verificationCount EXCEPT ![hash] = @ + 1]
    BY <1>5
  <2> HIDE DEF q, hash
  <2> QED
    BY <1>3, <2>1, <2>2, <2>3
<1> HIDE DEF q, g
<1>8. Tallied(q, g)
  BY <1>2, <1>7 DEF Agree, Tallied
<1>9. \A c : CurrentCount(q, c) = CurrentCount(s, c)
  BY <1>6 DEF CurrentCount
<1>10. \A c, l, size : Counted(q, c, l, size) = Counted(s, c, l, size)
  BY <1>6 DEF Counted
<1>11. /\ UsedWithin(limits, g) /\ UsedCounted(ledger, limits, q, g)
       /\ FutureEmpty(ledger, q)
  BY <1>2, <1>6, <1>10 DEF Agree, UsedWithin, UsedCounted, FutureEmpty
<1>12. UsedAlive(ledger, limits, q, g)
  BY <1>2, <1>6 DEF Agree, UsedAlive
<1>13. ~relimited => UsedExact(ledger, limits, q, g)
  BY <1>2, <1>10 DEF Agree, UsedExact
<1>14. Agree(ledger, limits, relimited, q, g)
  BY <1>8, <1>11, <1>12, <1>13 DEF Agree
<1> QED
  BY <1>2, <1>6, <1>9, <1>14 DEF q, g

LEMMA GateOutcomes ==
  ASSUME NEW s, NEW who
  PROVE  Gate(s, who) \in {"ContractPaused", "CallerNotAllowed", "trap",
                           "RateLimitExceeded", "open"}
BY DEF Gate

\* A proof that checks out has not expired.
LEMMA TrueIsTimely ==
  ASSUME TypeOK, NEW item \in Items, Check(item) = "true"
  PROVE  ledger <= item.inputs[2]
<1>1. Len(item.inputs) = 2 /\ ~(ledger > item.inputs[2])
  BY DEF Check, EXPECTED_PUBLIC_INPUT_COUNT
<1>2. item.inputs \in Seq(Words) /\ Words \subseteq Nat
  BY InputsAssumption DEF Items
<1>3. item.inputs[2] \in Nat
  <2>1. 2 \in 1..Len(item.inputs)
    BY <1>1
  <2>2. item.inputs[2] \in Words
    BY <1>2, <2>1
  <2> QED
    BY <1>2, <2>2
<1>4. ledger \in Nat
  BY LedgerAssumption, LimitsAssumption DEF TypeOK
<1> QED
  BY <1>1, <1>3, <1>4

\* What an entry does to a store and its history, and what it is entitled to.
LEMMA EntryEffect ==
  ASSUME TypeOK, NEW s \in Stores, NEW h \in Histories, NEW who \in Callers,
         NEW item \in Items, NEW success \in BOOLEAN,
         success <=> Outcome(s, who, item) = "true",
         Agree(ledger, limits, relimited, s, h)
  PROVE  /\ VerifyOne(s, who, item) \in Stores
         /\ Note(h, s, who, item, success) \in Histories
         /\ Agree(ledger, limits, relimited, VerifyOne(s, who, item),
                  Note(h, s, who, item, success))
         /\ \A c \in Callers :
              Note(h, s, who, item, success).used[c] > h.used[c] => ~paused /\ Admitted(c)
         /\ \A pi \in Inputs :
              Note(h, s, who, item, success).published[pi] > h.published[pi]
                => ledger <= pi[2]
         /\ paused => VerifyOne(s, who, item) = s
         /\ CurrentCount(s, who) \in Nat
         /\ CurrentCount(VerifyOne(s, who, item), who)
              = CurrentCount(s, who) + (IF Gate(s, who) = "open" THEN 1 ELSE 0)
<1> DEFINE q == VerifyOne(s, who, item)
           g == Note(h, s, who, item, success)
<1>1. CurrentCount(s, who) \in Nat
  BY ChargeCounts
<1>2. h = [used |-> h.used, published |-> h.published]
  BY DEF Histories
<1>3. \A c \in Callers : h.used[c] \in Nat
  BY DEF Histories
<1>4. \A pi \in Inputs : h.published[pi] \in Nat
  BY DEF Histories
<1>5. CASE Gate(s, who) # "open"
  <2>1. q = s
    BY <1>5 DEF VerifyOne
  <2>2. ~success
    BY <1>5, GateOutcomes DEF Outcome
  <2>3. g = h
    BY <1>2, <1>5, <2>2 DEF Note
  <2> QED
    BY <1>1, <1>3, <1>4, <1>5, <2>1, <2>3
<1>6. CASE Gate(s, who) = "open"
  <2>1. ~paused /\ Admitted(who)
    BY <1>6 DEF Gate
  <2>2. success <=> Check(item) = "true"
    BY <1>6 DEF Outcome
  <2>3. /\ Charge(s, who) \in Stores
        /\ Used(h, who) \in Histories
        /\ Agree(ledger, limits, relimited, Charge(s, who), Used(h, who))
    BY <1>6, AgreeCharge, ChargeEffect
  <2>4. CurrentCount(Charge(s, who), who) = CurrentCount(s, who) + 1
    BY ChargeCounts
  <2>5. /\ Used(h, who).published = h.published
        /\ Used(h, who).used = [h.used EXCEPT ![who] = @ + 1]
    BY DEF Used, Histories
  <2>6. \A c \in Callers : Used(h, who).used[c] > h.used[c] => c = who
    BY <1>3, <2>5 DEF Histories
  <2>7. CASE ~success
    <3>1. q = Charge(s, who)
      BY <1>6, <2>2, <2>7 DEF VerifyOne
    <3>2. g = Used(h, who)
      BY <1>2, <1>6, <2>7 DEF Note, Used
    <3> HIDE DEF q, g
    <3>3. /\ \A c \in Callers : g.used[c] > h.used[c] => ~paused /\ Admitted(c)
          /\ \A pi \in Inputs : ~(g.published[pi] > h.published[pi])
      <4>1. g.published = h.published /\ g.used = Used(h, who).used
        BY <2>5, <3>2
      <4> QED
        BY <1>4, <2>1, <2>6, <4>1
    <3>4. /\ q \in Stores /\ g \in Histories /\ Agree(ledger, limits, relimited, q, g)
          /\ CurrentCount(q, who) = CurrentCount(s, who) + 1
      BY <2>3, <2>4, <3>1, <3>2
    <3> QED
      BY <1>1, <1>6, <2>1, <3>3, <3>4 DEF q, g
  <2>8. CASE success
    <3>1. q = RecordVerificationAttempt(Charge(s, who), item)
      BY <1>6, <2>2, <2>8 DEF VerifyOne
    <3>2. g = Published(Used(h, who), item)
      <4>1. g = [used |-> [h.used EXCEPT ![who] = @ + 1],
                 published |-> [h.published EXCEPT ![item.inputs] = @ + 1]]
        BY <1>6, <2>8 DEF Note
      <4>2. Used(h, who) = [used |-> [h.used EXCEPT ![who] = @ + 1],
                            published |-> h.published]
        BY <1>2 DEF Used
      <4> QED
        BY <4>1, <4>2 DEF Published
    <3>3. g.used = Used(h, who).used
      BY <2>3, <3>2 DEF Published, Histories
    <3>4. \A pi \in Inputs : g.published[pi] > h.published[pi] => pi = item.inputs
      BY <1>4, <1>6, <2>8 DEF Note
    <3> HIDE DEF q, g
    <3>5. \A c \in Callers : g.used[c] > h.used[c] => ~paused /\ Admitted(c)
      BY <2>1, <2>6, <3>3
    <3>6. \A pi \in Inputs : g.published[pi] > h.published[pi] => ledger <= pi[2]
      BY <2>2, <2>8, <3>4, TrueIsTimely
    <3>7. /\ q \in Stores /\ g \in Histories /\ Agree(ledger, limits, relimited, q, g)
          /\ \A c : CurrentCount(q, c) = CurrentCount(Charge(s, who), c)
      BY <2>3, <3>1, <3>2, AgreeRecord
    <3> QED
      BY <1>1, <1>6, <2>1, <2>4, <3>5, <3>6, <3>7 DEF q, g
  <2> QED
    BY <2>7, <2>8
<1> QED
  BY <1>5, <1>6

-----------------------------------------------------------------------------
(* The invariant is inductive. *)

\* No entry and no history: what holds of the store the constructor leaves.
LEMMA AgreeEmpty ==
  ASSUME NEW l \in 0..MaxLedger, NEW lim \in Limits
  PROVE  /\ EmptyStore \in Stores /\ EmptyHist \in Histories
         /\ Agree(l, lim, FALSE, EmptyStore, EmptyHist)
<1>1. lim.maxCalls \in Nat
  BY LimitsAssumption DEF Limits
<1>2. EmptyStore \in Stores /\ EmptyHist \in Histories
  BY DEF EmptyStore, Stores, EmptyHist, NothingUsed, Histories
<1>3. WindowStart(l, lim.windowSize) \in WindowStarts
  BY StartInRange
<1>4. /\ \A c \in Callers, w \in WindowStarts : EmptyStore.callCount[<<c, w>>] = 0
      /\ \A c \in Callers : EmptyHist.used[c] = 0
      /\ \A pi \in Inputs : EmptyHist.published[pi] = 0
      /\ \A pi \in Inputs : EmptyStore.verificationCount[InputsHash(pi)] = 0
  BY DEF EmptyStore, EmptyHist, NothingUsed, Slots, Commitments
<1>5. \A c \in Callers : Counted(EmptyStore, c, l, lim.windowSize) = 0
  BY <1>3, <1>4 DEF Counted
<1> QED
  BY <1>1, <1>2, <1>4, <1>5 DEF Agree, UsedWithin, UsedCounted, UsedAlive, FutureEmpty,
     UsedExact, Tallied

LEMMA InitIInv == Init => IInv
<1> SUFFICES ASSUME Init PROVE IInv
  OBVIOUS
<1>1. ledger \in 0..MaxLedger /\ limits \in Limits
  BY LimitsAssumption DEF Init
<1>2. /\ EmptyStore \in Stores /\ EmptyHist \in Histories
      /\ Agree(ledger, limits, FALSE, EmptyStore, EmptyHist)
  BY <1>1, AgreeEmpty
<1>3. /\ <<>> \in Seq(Items) /\ <<>> \in Seq(BOOLEAN) /\ <<>> \in Seq(Events)
  OBVIOUS
<1>4. TypeOK
  BY <1>1, <1>2, <1>3, AccountsAssumption, WasmAssumption, KeysAssumption DEF Init, TypeOK
<1>5. Agree(ledger, limits, relimited, store, hist)
  BY <1>2 DEF Init
<1>6. NominationByCurrentAdmin /\ BatchAnswers /\ ~running
  BY DEF Init, NominationByCurrentAdmin, BatchAnswers
<1> QED
  BY <1>4, <1>5, <1>6 DEF IInv

\* Between batches the invariant comes down to the committed state.
LEMMA IdleIInv ==
  ASSUME TypeOK', NominationByCurrentAdmin', ~running',
         Agree(ledger, limits, relimited, store, hist)'
  PROVE  IInv'
BY DEF IInv, BatchAnswers

\* A change of the limits starts the caller's history of the window again.
LEMMA AgreeNewLimits ==
  ASSUME NEW l \in 0..MaxLedger, NEW lim \in Limits, NEW new \in Limits, NEW rel \in BOOLEAN,
         NEW s \in Stores, NEW h \in Histories, Agree(l, lim, rel, s, h)
  PROVE  /\ [h EXCEPT !.used = NothingUsed] \in Histories
         /\ Agree(l, new, TRUE, s, [h EXCEPT !.used = NothingUsed])
<1> DEFINE g == [h EXCEPT !.used = NothingUsed]
<1>1. /\ g \in Histories /\ g.published = h.published
      /\ \A c \in Callers : g.used[c] = 0
  BY DEF Histories, NothingUsed
<1>2. new.maxCalls \in Nat
  BY LimitsAssumption DEF Limits
<1>3. WindowStart(l, new.windowSize) \in WindowStarts /\ l \in Nat
  BY StartInRange, LedgerAssumption, LimitsAssumption
<1>4. \A c \in Callers : Counted(s, c, l, new.windowSize) \in Nat
  BY <1>3 DEF Counted, Stores, Slots
<1> HIDE DEF g
<1>5. UsedWithin(new, g) /\ UsedCounted(l, new, s, g) /\ UsedAlive(l, new, s, g)
  BY <1>1, <1>2, <1>4 DEF UsedWithin, UsedCounted, UsedAlive
<1>6. FutureEmpty(l, s) /\ Tallied(s, g)
  BY <1>1 DEF Agree, Tallied
<1>7. g \in Histories /\ Agree(l, new, TRUE, s, g)
  BY <1>1, <1>5, <1>6 DEF Agree
<1> QED
  BY <1>7 DEF g

LEMMA SetLimitsKeepsIInv ==
  ASSUME IInv, NEW auth \in Accounts, NEW max \in MaxCalls, NEW size \in WindowSizes,
         SetLimits(auth, max, size)
  PROVE  IInv'
<1>1. TypeOK /\ NominationByCurrentAdmin /\ Agree(ledger, limits, relimited, store, hist)
  BY DEF IInv
<1>2. limits' \in Limits
  BY LimitsAssumption DEF SetLimits, Limits
<1>3. hist' \in Histories /\ Agree(ledger, limits', TRUE, store, hist')
  BY <1>1, <1>2, AgreeNewLimits DEF SetLimits, TypeOK
<1>4. Agree(ledger, limits, relimited, store, hist)'
  BY <1>3 DEF SetLimits
<1>5. TypeOK'
  BY <1>1, <1>2, <1>3 DEF TypeOK, SetLimits, adminVars, policyVars, batchVars
<1>6. NominationByCurrentAdmin' /\ ~running'
  BY <1>1 DEF NominationByCurrentAdmin, SetLimits, Idle, adminVars, batchVars
<1> QED
  BY <1>4, <1>5, <1>6, IdleIInv

\* The other admin operations leave the limits, the store and its history alone.
LEMMA AdminKeepsIInv ==
  ASSUME IInv, NEW auth \in Accounts, AdminStep(auth)
  PROVE  IInv'
<1>1. TypeOK /\ NominationByCurrentAdmin /\ Agree(ledger, limits, relimited, store, hist)
  BY DEF IInv
<1> USE DEF adminVars, policyVars, limitVars, batchVars, Idle
<1> SUFFICES ASSUME ~ \E max \in MaxCalls, size \in WindowSizes : SetLimits(auth, max, size)
             PROVE  TypeOK' /\ NominationByCurrentAdmin' /\ ~running'
                    /\ Agree(ledger, limits, relimited, store, hist)'
  BY IdleIInv, SetLimitsKeepsIInv
<1>2. CASE \E k \in Keys : UpdateVk(auth, k)
  BY <1>1, <1>2 DEF UpdateVk, TypeOK, NominationByCurrentAdmin
<1>3. CASE \E b \in ListModes : SetAllowlistMode(auth, b)
  BY <1>1, <1>3, ChoicesAssumption DEF SetAllowlistMode, TypeOK, NominationByCurrentAdmin
<1>4. CASE \E b \in PauseValues : SetPaused(auth, b)
  BY <1>1, <1>4, ChoicesAssumption DEF SetPaused, TypeOK, NominationByCurrentAdmin
<1>5. CASE \E c \in Listable : AddToAllowlist(auth, c)
  BY <1>1, <1>5, ChoicesAssumption DEF AddToAllowlist, TypeOK, NominationByCurrentAdmin
<1>6. CASE \E c \in Listable : RemoveFromAllowlist(auth, c)
  BY <1>1, <1>6 DEF RemoveFromAllowlist, TypeOK, NominationByCurrentAdmin
<1>7. CASE \E a \in Accounts : ProposeAdmin(auth, a)
  BY <1>1, <1>7 DEF ProposeAdmin, TypeOK, NominationByCurrentAdmin
<1>8. CASE AcceptAdmin(auth)
  BY <1>1, <1>8 DEF AcceptAdmin, TypeOK, NominationByCurrentAdmin
<1>9. CASE \E w \in Wasms : Upgrade(auth, w)
  BY <1>1, <1>9 DEF Upgrade, TypeOK, NominationByCurrentAdmin
<1> QED
  BY <1>2, <1>3, <1>4, <1>5, <1>6, <1>7, <1>8, <1>9 DEF AdminStep

LEMMA VerifyProofKeepsIInv ==
  ASSUME IInv, NEW who \in Callers, NEW item \in Items, VerifyProof(who, item)
  PROVE  IInv'
<1> DEFINE success == Outcome(store, who, item) = "true"
<1>1. TypeOK /\ NominationByCurrentAdmin /\ Agree(ledger, limits, relimited, store, hist)
  BY DEF IInv
<1>2. success \in BOOLEAN /\ (success <=> Outcome(store, who, item) = "true")
  OBVIOUS
<1>3. store' = VerifyOne(store, who, item) /\ hist' = Note(hist, store, who, item, success)
  BY DEF VerifyProof
<1> HIDE DEF success
<1>4. store \in Stores /\ hist \in Histories
  BY <1>1 DEF TypeOK
<1>5. /\ store' \in Stores /\ hist' \in Histories
      /\ Agree(ledger, limits, relimited, store', hist')
  BY <1>1, <1>2, <1>3, <1>4, EntryEffect
<1>6. Agree(ledger, limits, relimited, store, hist)'
  BY <1>5 DEF VerifyProof, limitVars
<1>7. TypeOK'
  BY <1>1, <1>5 DEF TypeOK, VerifyProof, adminVars, policyVars, limitVars, batchVars
<1>8. NominationByCurrentAdmin' /\ ~running'
  BY <1>1 DEF NominationByCurrentAdmin, VerifyProof, Idle, adminVars, batchVars
<1> QED
  BY <1>6, <1>7, <1>8, IdleIInv

LEMMA BatchBeginKeepsIInv ==
  ASSUME IInv, NEW who \in Callers, NEW items \in Seq(Items), BatchBegin(who, items)
  PROVE  IInv'
<1>1. TypeOK /\ NominationByCurrentAdmin /\ Agree(ledger, limits, relimited, store, hist)
  BY DEF IInv
<1>2. items \in Seq(Items) /\ Len(items) \in Nat
  OBVIOUS
<1>3. <<>> \in Seq(BOOLEAN) /\ <<>> \in Seq(Events) /\ Len(<<>>) = 0
  OBVIOUS
<1>4. TypeOK'
  BY <1>1, <1>2, <1>3 DEF TypeOK, BatchBegin, adminVars, policyVars, limitVars
<1>5. NominationByCurrentAdmin'
  BY <1>1 DEF NominationByCurrentAdmin, BatchBegin, adminVars
<1>6. /\ Agree(ledger, limits, relimited, store, hist)'
      /\ Agree(ledger, limits, relimited, wStore, wHist)'
  BY <1>1 DEF BatchBegin, limitVars
<1>7. /\ store' = store /\ wStore' = store /\ hist' = hist /\ wHist' = hist
      /\ Len(results') = 0 /\ Len(events') = 0 /\ batch' = items /\ caller' = who
  BY <1>3 DEF BatchBegin
<1>8. WorkingCopy'
  <2>1. hist \in Histories
    BY <1>1 DEF TypeOK
  <2>2. /\ \A c \in Callers : ~(hist.used[c] > hist.used[c])
        /\ \A pi \in Inputs : ~(hist.published[pi] > hist.published[pi])
    BY <2>1 DEF Histories
  <2> QED
    BY <1>2, <1>7, <2>2 DEF WorkingCopy
<1>9. BudgetTaken'
  <2>1. store' \in Stores /\ who \in Callers
    BY <1>4 DEF TypeOK
  <2>2. CurrentCount(store, who)' \in Nat
    <3>1. ledger' \in 0..MaxLedger /\ limits' \in Limits
      BY <1>4 DEF TypeOK
    <3>2. WindowStart(ledger', limits'.windowSize) \in WindowStarts
      BY <3>1, StartInRange
    <3> QED
      BY <2>1, <3>2 DEF CurrentCount, Start, Stores, Slots
  <2>3. /\ CurrentCount(store, caller)' = CurrentCount(store, who)'
        /\ CurrentCount(wStore, caller)' = CurrentCount(store, who)'
    BY <1>7 DEF CurrentCount, Start
  <2>4. limits'.maxCalls \in Nat
    BY <1>4, LimitsAssumption DEF TypeOK, Limits
  <2> QED
    BY <1>7, <2>2, <2>3, <2>4 DEF BudgetTaken
<1>10. BatchAnswers'
  BY <1>7 DEF BatchAnswers
<1> QED
  BY <1>4, <1>5, <1>6, <1>8, <1>9, <1>10 DEF IInv

\* An entry of the running batch passes the gate when the caller is admitted and
\* the budget covers one call more than the entries before it.
LEMMA GateInBatch ==
  ASSUME IInv, running, NEW item \in Items, Outcome(wStore, caller, item) \notin Fatal
  PROVE  /\ ~paused
         /\ Gate(wStore, caller) = "open"
              <=> /\ Admitted(caller)
                  /\ CurrentCount(store, caller) + (Len(results) + 1) <= limits.maxCalls
<1>1. TypeOK /\ BudgetTaken /\ caller \in Callers /\ store \in Stores /\ wStore \in Stores
  BY DEF IInv, TypeOK
<1>2. CurrentCount(store, caller) \in Nat /\ CurrentCount(wStore, caller) \in Nat
  BY <1>1, ChargeCounts
<1>3. Len(results) \in Nat /\ limits.maxCalls \in Nat
  BY <1>1, LimitsAssumption DEF TypeOK, Limits
<1>4. Gate(wStore, caller) \notin Fatal
  <2>1. CASE Gate(wStore, caller) = "open"
    BY <2>1 DEF Fatal
  <2>2. CASE Gate(wStore, caller) # "open"
    BY <2>2 DEF Outcome
  <2> QED
    BY <2>1, <2>2
<1>5. ~paused /\ (Admitted(caller) => CurrentCount(wStore, caller) # U32Max)
  BY <1>4 DEF Gate, Fatal
<1>6. Gate(wStore, caller) = "open"
        <=> Admitted(caller) /\ CurrentCount(wStore, caller) + 1 <= limits.maxCalls
  BY <1>2, <1>3, <1>5 DEF Gate
<1>7. Admitted(caller) =>
        ( CurrentCount(wStore, caller) + 1 <= limits.maxCalls
            <=> CurrentCount(store, caller) + (Len(results) + 1) <= limits.maxCalls )
  BY <1>1, <1>2, <1>3 DEF BudgetTaken
<1> QED
  BY <1>5, <1>6, <1>7

LEMMA BatchEntryKeepsIInv ==
  ASSUME IInv, BatchEntry
  PROVE  IInv'
<1> DEFINE k == Len(results)
           item == batch[k + 1]
           outcome == Outcome(wStore, caller, item)
           success == outcome = "true"
<1>1. /\ TypeOK /\ NominationByCurrentAdmin /\ Agree(ledger, limits, relimited, store, hist)
      /\ running /\ Agree(ledger, limits, relimited, wStore, wHist) /\ WorkingCopy
      /\ BudgetTaken /\ BatchAnswers
  BY DEF IInv, BatchEntry
<1>2. /\ k \in Nat /\ k < Len(batch) /\ batch \in Seq(Items) /\ Len(batch) \in Nat
      /\ results \in Seq(BOOLEAN) /\ events \in Seq(Events) /\ caller \in Callers
      /\ wStore \in Stores /\ wHist \in Histories /\ store \in Stores /\ hist \in Histories
  BY <1>1 DEF TypeOK, BatchEntry
<1>3. item \in Items
  <2>1. k + 1 \in 1..Len(batch)
    BY <1>2
  <2> QED
    BY <1>2, <2>1
<1>4. success \in BOOLEAN /\ (success <=> outcome = "true") /\ outcome \notin Fatal
  BY DEF BatchEntry
<1>5. /\ wStore' = VerifyOne(wStore, caller, item)
      /\ wHist' = Note(wHist, wStore, caller, item, success)
      /\ events' = Append(events, VerificationResult(success, caller, item.inputs))
      /\ results' = Append(results, success)
  BY DEF BatchEntry
<1>6. UNCHANGED <<ledger, admin, pendingAdmin, proposer, wasm, vk, allowlistEnabled,
                  allowlist, paused, limits, relimited, store, hist, running, caller, batch>>
  BY DEF BatchEntry, adminVars, policyVars, limitVars
<1> HIDE DEF success
<1>7. /\ wStore' \in Stores /\ wHist' \in Histories
      /\ Agree(ledger, limits, relimited, wStore', wHist')
      /\ \A c \in Callers : wHist'.used[c] > wHist.used[c] => ~paused /\ Admitted(c)
      /\ \A pi \in Inputs : wHist'.published[pi] > wHist.published[pi] => ledger <= pi[2]
      /\ paused => wStore' = wStore
      /\ CurrentCount(wStore, caller) \in Nat
      /\ CurrentCount(VerifyOne(wStore, caller, item), caller)
           = CurrentCount(wStore, caller) + (IF Gate(wStore, caller) = "open" THEN 1 ELSE 0)
  BY <1>1, <1>2, <1>3, <1>4, <1>5, EntryEffect
<1>8. /\ ~paused
      /\ Gate(wStore, caller) = "open"
           <=> Admitted(caller) /\ CurrentCount(store, caller) + (k + 1) <= limits.maxCalls
  BY <1>1, <1>3, <1>4, GateInBatch
<1>9. success <=> DueAnswer(k + 1)
  <2>1. success <=> Gate(wStore, caller) = "open" /\ Check(item) = "true"
    BY <1>4, GateOutcomes DEF Outcome
  <2> QED
    BY <1>8, <2>1 DEF DueAnswer
<1>10. VerificationResult(success, caller, item.inputs) \in Events
  BY <1>2, <1>3, <1>4 DEF VerificationResult, Events, Items, Commitments
<1>11. /\ results' \in Seq(BOOLEAN) /\ Len(results') = k + 1 /\ results'[k + 1] = success
       /\ \A i \in 1..k : results'[i] = results[i]
  BY <1>2, <1>4, <1>5
<1>12. /\ events' \in Seq(Events) /\ Len(events') = Len(events) + 1
       /\ events'[Len(events) + 1] = VerificationResult(success, caller, item.inputs)
       /\ \A i \in 1..Len(events) : events'[i] = events[i]
  BY <1>2, <1>5, <1>10
<1> HIDE DEF k
<1>13. TypeOK'
  BY <1>1, <1>6, <1>7, <1>11, <1>12 DEF TypeOK
<1>14. NominationByCurrentAdmin' /\ Agree(ledger, limits, relimited, store, hist)'
       /\ Agree(ledger, limits, relimited, wStore, wHist)'
  BY <1>1, <1>6, <1>7 DEF NominationByCurrentAdmin
<1>15. WorkingCopy'
  <2>1. /\ \A c \in Callers : wHist'.used[c] \in Nat /\ wHist.used[c] \in Nat /\ hist.used[c] \in Nat
        /\ \A pi \in Inputs : /\ wHist'.published[pi] \in Nat /\ wHist.published[pi] \in Nat
                              /\ hist.published[pi] \in Nat
    BY <1>2, <1>7 DEF Histories
  <2>2. \A c \in Callers : wHist'.used[c] > hist.used[c] => ~paused /\ Admitted(c)
    <3> SUFFICES ASSUME NEW c \in Callers, wHist'.used[c] > hist.used[c]
                 PROVE  ~paused /\ Admitted(c)
      OBVIOUS
    <3>1. wHist'.used[c] > wHist.used[c] \/ wHist.used[c] > hist.used[c]
      BY <2>1
    <3> QED
      BY <3>1, <1>1, <1>7 DEF WorkingCopy
  <2>3. \A pi \in Inputs : wHist'.published[pi] > hist.published[pi] => ledger <= pi[2]
    <3> SUFFICES ASSUME NEW pi \in Inputs, wHist'.published[pi] > hist.published[pi]
                 PROVE  ledger <= pi[2]
      OBVIOUS
    <3>1. wHist'.published[pi] > wHist.published[pi] \/ wHist.published[pi] > hist.published[pi]
      BY <2>1
    <3> QED
      BY <3>1, <1>1, <1>7 DEF WorkingCopy
  <2>4. Len(results') <= Len(batch)
    BY <1>2, <1>11
  <2> QED
    BY <1>6, <1>8, <2>2, <2>3, <2>4 DEF WorkingCopy, Admitted
<1>16. BudgetTaken'
  <2>1. /\ CurrentCount(store, caller)' = CurrentCount(store, caller)
        /\ CurrentCount(wStore, caller)' = CurrentCount(wStore', caller)
        /\ Admitted(caller)' <=> Admitted(caller)
        /\ limits' = limits
    BY <1>6 DEF CurrentCount, Start, Admitted
  <2>2. CurrentCount(store, caller) \in Nat /\ limits.maxCalls \in Nat
    BY <1>1, <1>2, ChargeCounts, LimitsAssumption DEF TypeOK, Limits
  <2>3. CurrentCount(wStore', caller)
          = CurrentCount(wStore, caller) + (IF Gate(wStore, caller) = "open" THEN 1 ELSE 0)
    BY <1>5, <1>7
  <2>4. Admitted(caller) =>
          IF CurrentCount(store, caller) + k <= limits.maxCalls
            THEN CurrentCount(wStore, caller) = CurrentCount(store, caller) + k
            ELSE CurrentCount(wStore, caller) >= limits.maxCalls
    BY <1>1 DEF BudgetTaken, k
  <2>5. Admitted(caller) =>
          IF CurrentCount(store, caller) + (k + 1) <= limits.maxCalls
            THEN CurrentCount(wStore', caller) = CurrentCount(store, caller) + (k + 1)
            ELSE CurrentCount(wStore', caller) >= limits.maxCalls
    BY <1>2, <1>7, <1>8, <2>2, <2>3, <2>4
  <2> QED
    BY <1>11, <2>1, <2>5 DEF BudgetTaken
<1>17. BatchAnswers'
  <2>1. \A i : DueAnswer(i)' <=> DueAnswer(i)
    BY <1>6 DEF DueAnswer, Admitted, CurrentCount, Start, Check, IsExpiry
  <2>2. /\ Len(events) = k
        /\ \A i \in 1..k : /\ results[i] <=> DueAnswer(i)
                           /\ events[i] = VerificationResult(results[i], caller, batch[i].inputs)
    BY <1>1 DEF BatchAnswers, k
  <2>3. Len(events') = Len(results')
    BY <1>11, <1>12, <2>2
  <2>4. \A i \in 1..Len(results') :
          /\ results'[i] <=> DueAnswer(i)
          /\ events'[i] = VerificationResult(results'[i], caller, batch[i].inputs)
    <3> SUFFICES ASSUME NEW i \in 1..(k + 1)
                 PROVE  /\ results'[i] <=> DueAnswer(i)
                        /\ events'[i] = VerificationResult(results'[i], caller, batch[i].inputs)
      BY <1>11
    <3>1. CASE i = k + 1
      BY <3>1, <1>9, <1>11, <1>12, <2>2
    <3>2. CASE i # k + 1
      <4>1. i \in 1..k
        BY <3>2, <1>2
      <4>2. results'[i] = results[i] /\ events'[i] = events[i]
        BY <4>1, <1>11, <1>12, <2>2
      <4> QED
        BY <4>1, <4>2, <2>2
    <3> QED
      BY <3>1, <3>2
  <2> QED
    BY <1>6, <2>1, <2>3, <2>4 DEF BatchAnswers, VerificationResult
<1> QED
  BY <1>6, <1>13, <1>14, <1>15, <1>16, <1>17 DEF IInv

\* A batch that ends leaves no frame behind, and commits its working copy or nothing.
LEMMA EndBatchKeepsIInv ==
  ASSUME IInv, EndBatch, running,
         \/ store' = wStore /\ hist' = wHist
         \/ UNCHANGED <<store, hist>>
  PROVE  IInv'
<1>1. TypeOK /\ NominationByCurrentAdmin
  BY DEF IInv
<1>2. Agree(ledger, limits, relimited, store', hist') /\ store' \in Stores /\ hist' \in Histories
  BY DEF IInv, TypeOK
<1>3. EmptyStore \in Stores /\ EmptyHist \in Histories
  BY DEF EmptyStore, Stores, EmptyHist, NothingUsed, Histories
<1>4. <<>> \in Seq(Items) /\ <<>> \in Seq(BOOLEAN) /\ <<>> \in Seq(Events)
  OBVIOUS
<1>5. TypeOK'
  BY <1>1, <1>2, <1>3, <1>4 DEF TypeOK, EndBatch, adminVars, policyVars, limitVars
<1>6. NominationByCurrentAdmin' /\ ~running'
  BY <1>1 DEF NominationByCurrentAdmin, EndBatch, adminVars
<1>7. Agree(ledger, limits, relimited, store, hist)'
  BY <1>2 DEF EndBatch, limitVars
<1> QED
  BY <1>5, <1>6, <1>7, IdleIInv

LEMMA AdvanceLedgerKeepsIInv ==
  ASSUME IInv, AdvanceLedger
  PROVE  IInv'
<1>1. TypeOK /\ NominationByCurrentAdmin /\ Agree(ledger, limits, relimited, store, hist)
  BY DEF IInv
<1>2. /\ ledger \in Nat /\ ledger < MaxLedger /\ limits \in Limits /\ relimited \in BOOLEAN
      /\ store \in Stores /\ hist \in Histories /\ ledger + 1 \in 0..MaxLedger
  BY <1>1, LedgerAssumption, LimitsAssumption DEF TypeOK, AdvanceLedger
<1>3. /\ hist' \in Histories /\ relimited' \in BOOLEAN
      /\ Agree(ledger + 1, limits, relimited', store, hist')
  <2>1. CASE WindowStart(ledger + 1, limits.windowSize) = Start
    <3>1. hist' = hist /\ relimited' = relimited
      BY <2>1 DEF AdvanceLedger
    <3> QED
      BY <1>1, <1>2, <2>1, <3>1, AgreeSameWindow DEF Start
  <2>2. CASE WindowStart(ledger + 1, limits.windowSize) # Start
    <3>1. hist' = [hist EXCEPT !.used = NothingUsed] /\ relimited' = FALSE
      BY <2>2 DEF AdvanceLedger
    <3>2. hist' \in Histories
      BY <1>2, <3>1 DEF Histories, NothingUsed
    <3>3. Agree(ledger + 1, limits, FALSE, store, [hist EXCEPT !.used = NothingUsed])
      BY <1>1, <1>2, <2>2, AgreeNewWindow DEF Start
    <3> QED
      BY <3>1, <3>2, <3>3
  <2> QED
    BY <2>1, <2>2
<1>4. Agree(ledger, limits, relimited, store, hist)'
  BY <1>3 DEF AdvanceLedger
<1>5. TypeOK'
  BY <1>1, <1>2, <1>3 DEF TypeOK, AdvanceLedger, adminVars, policyVars, batchVars
<1>6. NominationByCurrentAdmin' /\ ~running'
  BY <1>1 DEF NominationByCurrentAdmin, AdvanceLedger, adminVars, batchVars
<1> QED
  BY <1>4, <1>5, <1>6, IdleIInv

LEMMA StutterKeepsIInv == IInv /\ UNCHANGED vars => IInv'
<1> SUFFICES ASSUME IInv, UNCHANGED vars PROVE IInv'
  OBVIOUS
<1> USE DEF vars, adminVars, policyVars, limitVars, batchVars
<1>1. TypeOK' /\ NominationByCurrentAdmin'
  BY DEF IInv, TypeOK, NominationByCurrentAdmin
<1>2. /\ Agree(ledger, limits, relimited, store, hist)'
      /\ (running => Agree(ledger, limits, relimited, wStore, wHist))'
  BY DEF IInv
<1>3. (running => WorkingCopy)'
  BY DEF IInv, WorkingCopy, Admitted
<1>4. (running => BudgetTaken)'
  BY DEF IInv, BudgetTaken, Admitted, CurrentCount, Start
<1>5. BatchAnswers'
  <2>1. \A i : DueAnswer(i)' <=> DueAnswer(i)
    BY DEF DueAnswer, Admitted, CurrentCount, Start, Check, IsExpiry
  <2> QED
    BY <2>1 DEF IInv, BatchAnswers, VerificationResult
<1> QED
  BY <1>1, <1>2, <1>3, <1>4, <1>5 DEF IInv

LEMMA NextIInv == IInv /\ [Next]_vars => IInv'
<1> SUFFICES ASSUME IInv, [Next]_vars PROVE IInv'
  OBVIOUS
<1>1. CASE \E auth \in Accounts : AdminStep(auth)
  BY <1>1, AdminKeepsIInv
<1>2. CASE \E who \in Callers, item \in Items : VerifyProof(who, item)
  BY <1>2, VerifyProofKeepsIInv
<1>3. CASE \E who \in Callers, items \in Batches : BatchBegin(who, items)
  <2>1. Batches \subseteq Seq(Items)
    BY LedgerAssumption DEF Batches
  <2> QED BY <1>3, <2>1, BatchBeginKeepsIInv
<1>4. CASE BatchEntry
  BY <1>4, BatchEntryKeepsIInv
<1>5. CASE BatchReturn
  BY <1>5, EndBatchKeepsIInv DEF BatchReturn
<1>6. CASE BatchFails
  BY <1>6, EndBatchKeepsIInv DEF BatchFails
<1>7. CASE BatchOutOfBudget
  BY <1>7, EndBatchKeepsIInv DEF BatchOutOfBudget
<1>8. CASE AdvanceLedger
  BY <1>8, AdvanceLedgerKeepsIInv
<1>9. CASE UNCHANGED vars
  BY <1>9, StutterKeepsIInv
<1> QED
  BY <1>1, <1>2, <1>3, <1>4, <1>5, <1>6, <1>7, <1>8, <1>9 DEF Next, BatchStep

\* The inductive invariant always holds.
THEOREM Invariance == Spec => []IInv
BY InitIInv, NextIInv, PTL DEF Spec

-----------------------------------------------------------------------------
(* Invariants. *)

\* The state of the verifier always has its type: in particular the verifying key
\* has the shape the contract's pairing indexes into.
THEOREM TypeCorrect == Spec => []TypeOK
<1>1. IInv => TypeOK
  BY DEF IInv
<1> QED
  BY <1>1, Invariance, PTL

\* Between two changes of the limits no caller is charged for more than max_calls
\* attempts in one window.
THEOREM RateBoundAlways == Spec => []RateBound
<1>1. IInv => RateBound
  BY DEF IInv, Agree, UsedWithin, RateBound, GetConfig
<1> QED
  BY <1>1, Invariance, PTL

\* The counter that a caller is held to is its committed attempts of the window.
THEOREM BudgetExactAlways == Spec => []BudgetExact
<1>1. IInv => BudgetExact
  BY CurrentIsCounted DEF IInv, Agree, UsedExact, BudgetExact
<1> QED
  BY <1>1, Invariance, PTL

\* verification_count tells the number of published successes.
THEOREM CountMatchesEventsAlways == Spec => []CountMatchesEvents
<1>1. IInv => CountMatchesEvents
  BY DEF IInv, Agree, Tallied, CountMatchesEvents
<1> QED
  BY <1>1, Invariance, PTL

\* A pending proposal was made by the admin in office.
THEOREM NominationByCurrentAdminAlways == Spec => []NominationByCurrentAdmin
<1>1. IInv => NominationByCurrentAdmin
  BY DEF IInv
<1> QED
  BY <1>1, Invariance, PTL

\* A batch of any length answers each entry as its position and the budget say.
THEOREM BatchAnswersAlways == Spec => []BatchAnswers
<1>1. IInv => BatchAnswers
  BY DEF IInv
<1> QED
  BY <1>1, Invariance, PTL

-----------------------------------------------------------------------------
(* Action properties. *)

\* Only three kinds of step touch the store and its history: a single call, the
\* return of a batch, and the ones that leave the store and what was published
\* alone and charge nobody.
LEMMA StepsOnStore ==
  ASSUME IInv, [Next]_vars
  PROVE  \/ \E who \in Callers, item \in Items : VerifyProof(who, item)
         \/ running /\ store' = wStore /\ hist' = wHist
         \/ /\ store' = store
            /\ hist'.published = hist.published
            /\ \A c \in Callers : ~(hist'.used[c] > hist.used[c])
<1>1. hist \in Histories
  BY DEF IInv, TypeOK
<1>2. /\ [hist EXCEPT !.used = NothingUsed].published = hist.published
      /\ \A c \in Callers : ~([hist EXCEPT !.used = NothingUsed].used[c] > hist.used[c])
  BY <1>1 DEF Histories, NothingUsed
<1>3. \A c \in Callers : ~(hist.used[c] > hist.used[c])
  BY <1>1 DEF Histories
<1>4. ASSUME NEW auth \in Accounts, AdminStep(auth)
      PROVE  store' = store /\ (hist' = hist \/ hist' = [hist EXCEPT !.used = NothingUsed])
  BY <1>4 DEF AdminStep, SetLimits, UpdateVk, SetAllowlistMode, SetPaused, AddToAllowlist,
     RemoveFromAllowlist, ProposeAdmin, AcceptAdmin, Upgrade
<1>5. CASE \E who \in Callers, items \in Batches : BatchBegin(who, items)
  BY <1>3, <1>5 DEF BatchBegin
<1>6. CASE BatchEntry \/ BatchFails \/ BatchOutOfBudget
  BY <1>3, <1>6 DEF BatchEntry, BatchFails, BatchOutOfBudget
<1>7. CASE BatchReturn
  BY <1>7 DEF BatchReturn
<1>8. CASE AdvanceLedger
  BY <1>2, <1>3, <1>8 DEF AdvanceLedger
<1>9. CASE UNCHANGED vars
  BY <1>3, <1>9 DEF vars
<1> QED
  BY <1>2, <1>3, <1>4, <1>5, <1>6, <1>7, <1>8, <1>9 DEF Next, BatchStep

\* What a single call that returns Ok does is what EntryEffect says of its entry.
LEMMA SingleCall ==
  ASSUME IInv, NEW who \in Callers, NEW item \in Items, VerifyProof(who, item)
  PROVE  /\ \A c \in Callers : hist'.used[c] > hist.used[c] => ~paused /\ Admitted(c)
         /\ \A pi \in Inputs : hist'.published[pi] > hist.published[pi] => ledger <= pi[2]
         /\ paused => store' = store
<1> DEFINE success == Outcome(store, who, item) = "true"
<1>1. /\ TypeOK /\ store \in Stores /\ hist \in Histories
      /\ Agree(ledger, limits, relimited, store, hist)
  BY DEF IInv, TypeOK
<1>2. success \in BOOLEAN /\ (success <=> Outcome(store, who, item) = "true")
  OBVIOUS
<1>3. store' = VerifyOne(store, who, item) /\ hist' = Note(hist, store, who, item, success)
  BY DEF VerifyProof
<1> HIDE DEF success
<1> QED
  BY <1>1, <1>2, <1>3, EntryEffect

\* A success is on the ledger only if the proof's expiry ledger had not passed.
THEOREM NoLateSuccessAlways == Spec => NoLateSuccess
<1>1. IInv /\ [Next]_vars =>
        [\A pi \in Inputs :
           hist'.published[pi] > hist.published[pi] => ledger <= pi[2]]_vars
  <2> SUFFICES ASSUME IInv, [Next]_vars, NEW pi \in Inputs,
                      hist'.published[pi] > hist.published[pi]
               PROVE  ledger <= pi[2]
    OBVIOUS
  <2>1. ~(hist.published[pi] > hist.published[pi])
    BY DEF IInv, TypeOK, Histories
  <2> QED
    BY <2>1, StepsOnStore, SingleCall DEF IInv, WorkingCopy
<1> QED
  BY <1>1, Invariance, PTL DEF Spec, NoLateSuccess

\* Who is refused at the gate leaves nothing behind: a paused contract keeps its
\* whole store, and only a caller the allowlist admits is charged.
THEOREM RefusedLeavesNoTraceAlways == Spec => RefusedLeavesNoTrace
<1>1. IInv /\ [Next]_vars =>
        [/\ paused => UNCHANGED store
         /\ \A c \in Callers : hist'.used[c] > hist.used[c] => Admitted(c)]_vars
  BY StepsOnStore, SingleCall DEF IInv, WorkingCopy
<1> QED
  BY <1>1, Invariance, PTL DEF Spec, RefusedLeavesNoTrace


-----------------------------------------------------------------------------
(* The SDK's reads: what an answer still says of the contract. *)

ReadOf(phase, value) == [phase |-> phase, value |-> value]

\* An answer about a contract that nobody changed since is the one it would give now.
ReadHolds ==
  read # NoRead =>
    /\ read = ReadOf(read.phase, read.value)
    /\ ~changed => read.value = DecodeConfig(GetConfig)

\* A contract that is only read is the contract.
LEMMA ReadsAreStutters == ReadSpec => Spec
<1>1. ReadInit => Init
  BY DEF ReadInit
<1>2. [ReadNext]_<<vars, readVars>> => [Next]_vars
  BY DEF ReadNext, GetContractConfig, AnswerRead, AskAgain, ContractGoesOn
<1> QED BY <1>1, <1>2, PTL DEF ReadSpec, Spec

\* Before the first call nothing has been read.
LEMMA InitReadHolds == ReadInit => ReadHolds
BY DEF ReadInit, ReadHolds

\* Calls, answers and the contract's own steps keep what is known of a read.
LEMMA NextReadHolds == ReadHolds /\ [ReadNext]_<<vars, readVars>> => ReadHolds'
<1> SUFFICES ASSUME ReadHolds, [ReadNext]_<<vars, readVars>> PROVE ReadHolds'
  OBVIOUS
<1>1. ASSUME UNCHANGED <<read, settings>>, ~changed' => ~changed PROVE ReadHolds'
  <2>1. GetConfig' = GetConfig
    BY <1>1 DEF settings, policyVars, GetConfig
  <2>2. read' = read
    BY <1>1
  <2>3. DecodeConfig(GetConfig)' = DecodeConfig(GetConfig)
    BY <2>1 DEF DecodeConfig
  <2> QED BY <1>1, <2>2, <2>3, Zenon DEF ReadHolds
<1>2. CASE UNCHANGED <<vars, readVars>>
  <2>1. UNCHANGED <<read, settings>> /\ (~changed' => ~changed)
    BY <1>2 DEF vars, readVars, settings, policyVars, adminVars, limitVars
  <2> QED BY <1>1, <2>1
<1>3. CASE GetContractConfig
  <2>1. /\ read' = ReadOf("simulated", DecodeConfig(GetConfig))
        /\ UNCHANGED settings
    BY <1>3 DEF GetContractConfig, ReadOf, vars, settings, policyVars, adminVars, limitVars
  <2>2. DecodeConfig(GetConfig)' = DecodeConfig(GetConfig)
    BY <2>1 DEF settings, policyVars, GetConfig, DecodeConfig
  <2>3. /\ read'.value = DecodeConfig(GetConfig)
        /\ read' = ReadOf(read'.phase, read'.value)
    BY <2>1 DEF ReadOf
  <2> QED BY <2>2, <2>3 DEF ReadHolds
<1>4. CASE AnswerRead
  <2>1. /\ read # NoRead /\ changed' = changed
        /\ read' = [read EXCEPT !.phase = "answered"]
    BY <1>4 DEF AnswerRead
  <2>2. UNCHANGED settings
    BY <1>4 DEF AnswerRead, vars, settings, policyVars, adminVars, limitVars
  <2>3. DecodeConfig(GetConfig)' = DecodeConfig(GetConfig)
    BY <2>2 DEF settings, policyVars, GetConfig, DecodeConfig
  <2>4. read = ReadOf(read.phase, read.value)
    BY <2>1 DEF ReadHolds
  <2>5. /\ read'.value = read.value
        /\ read' = ReadOf(read'.phase, read'.value)
    BY <2>1, <2>4 DEF ReadOf
  <2> QED BY <2>1, <2>3, <2>5, Zenon DEF ReadHolds
<1>5. CASE AskAgain
  BY <1>5 DEF AskAgain, ReadHolds
<1>6. CASE ContractGoesOn
  <2>1. CASE changed'
    BY <1>6, <2>1 DEF ContractGoesOn, ReadHolds
  <2>2. CASE ~changed'
    <3>1. UNCHANGED <<read, settings>> /\ ~changed
      BY <1>6, <2>2 DEF ContractGoesOn
    <3> QED BY <1>1, <3>1
  <2> QED BY <2>1, <2>2
<1> QED BY <1>2, <1>3, <1>4, <1>5, <1>6 DEF ReadNext

\* The configuration that was read foretells the gate, while nobody changes the
\* contract (verify.ts:835-849 against contracts/verifier/src/lib.rs:434-477).
THEOREM ConfigForetellsGateAlways == ReadSpec => []ConfigForetellsGate
<1>1. IInv /\ ReadHolds => ConfigForetellsGate
  <2> SUFFICES ASSUME IInv, ReadHolds, HoldsAnswer, ~changed, ~relimited
               PROVE  LET a == read.value
                      IN  /\ WindowStart(ledger, a.rateLimitWindow) = Start
                          /\ \A c \in Callers :
                               Gate(store, c) \in
                                 IF a.paused THEN {"ContractPaused"}
                                 ELSE IF a.allowlistEnabled /\ c \notin allowlist
                                   THEN {"CallerNotAllowed"}
                                 ELSE IF hist.used[c] >= a.rateLimitMax
                                   THEN {"RateLimitExceeded", "trap"}
                                 ELSE {"open"}
    BY DEF ConfigForetellsGate
  <2> DEFINE a == read.value
  <2>1. /\ a.paused = paused /\ a.rateLimitMax = limits.maxCalls
        /\ a.rateLimitWindow = limits.windowSize /\ a.allowlistEnabled = allowlistEnabled
    BY DEF ReadHolds, HoldsAnswer, DecodeConfig, GetConfig
  <2>2. WindowStart(ledger, a.rateLimitWindow) = Start
    BY <2>1 DEF Start
  <2>3. \A c \in Callers : CurrentCount(store, c) = hist.used[c]
    BY DEF IInv, Agree, UsedExact, Counted, CurrentCount, Start
  <2>4. /\ \A c \in Callers : hist.used[c] \in Nat
        /\ limits.maxCalls \in 0..U32Max /\ U32Max \in Nat
    BY LimitsAssumption DEF IInv, TypeOK, Histories, Limits
  <2>5. \A c \in Callers :
          Gate(store, c) \in
            IF paused THEN {"ContractPaused"}
            ELSE IF allowlistEnabled /\ c \notin allowlist THEN {"CallerNotAllowed"}
            ELSE IF hist.used[c] >= limits.maxCalls THEN {"RateLimitExceeded", "trap"}
            ELSE {"open"}
    BY <2>3, <2>4 DEF Gate, Admitted
  <2> QED BY <2>1, <2>2, <2>5
<1> QED BY <1>1, Invariance, ReadsAreStutters, InitReadHolds, NextReadHolds, PTL DEF ReadSpec
=============================================================================
