----------------------------- MODULE SdkProofs -----------------------------
(* Theorems about what the SDK reads from and plans for the ledger, for every  *)
(* value of the constants: the expiry of a proof (ProofExpiry) and the history *)
(* of events (VerificationHistory); and about the files a user keeps and the   *)
(* commands that read them: verification keys, signals and proofs              *)
(* (CommandLine), and bundles that are signed, edited and imported             *)
(* (ProofBundle).                                                              *)
EXTENDS ProofExpiry, VerificationHistory, CommandLine, ProofBundle,
        FiniteSetTheorems, NaturalsInduction, WellFoundedInduction, TLAPS

-----------------------------------------------------------------------------
(* The expiry of a proof. *)

(* The inductive invariant: since any moment the application remembers, each   *)
(* close but the first has taken LeastGap; and what was planned, encoded and   *)
(* asked belongs to the readings it was made from.                             *)

ClockType ==
  /\ now \in Nat /\ closedAt \in Nat /\ closedAt <= now
  /\ sequence \in 0..LedgerEnd

\* With this ledger the last closed at a moment of the past, the ledgers since have
\* kept the least gap, but for the first of them, whose gap had begun before.
Paced(ledger, at, last, lastAt, clock) ==
  /\ ledger \in Nat /\ at \in Nat
  /\ ledger <= last /\ at <= clock
  /\ ledger < last => (last - ledger - 1) * LeastGap <= lastAt - at

ReadingHolds == read # Unset => Paced(read.ledger, read.at, sequence, closedAt, now)

PlanHolds ==
  planned # Unset =>
    /\ read # Unset
    /\ planned.expiryLedger \in 0..LedgerEnd \cup {NoExpiry}
    /\ \/ planned.ttl = 0
       \/ /\ planned.ttl \in Nat
          /\ planned.expiryLedger = RecommendExpiryLedger(read.ledger, planned.ttl)

MetaHolds ==
  meta # Unset =>
    /\ planned # Unset
    /\ meta.expiryLedger = planned.expiryLedger
    /\ Paced(meta.reading.ledger, meta.reading.at, sequence, closedAt, now)
    /\ Paced(meta.atLedger, meta.generatedAt, sequence, closedAt, now)
    /\ meta.expiryLedger # NoExpiry =>
         meta.estimatedExpiryAt
           = EstimateExpiryDate(meta.expiryLedger, meta.reading.ledger, meta.generatedAt)
    /\ inputs = FormatProof(meta.expiryLedger)

AskedHolds ==
  asked # Unset =>
    /\ meta # Unset
    /\ asked.ledger \in 0..sequence
    /\ asked.expired = IsProofExpired(meta.expiryLedger, asked.ledger)
    /\ asked.remaining = LedgersUntilExpiry(meta.expiryLedger, asked.ledger)

ExpiryInv == ClockType /\ ReadingHolds /\ PlanHolds /\ MetaHolds /\ AskedHolds

-----------------------------------------------------------------------------
(* Arithmetic of closing times. *)

\* A product with the least gap keeps the order.
LEMMA TimesLeastGap ==
  ASSUME NEW a \in Int, NEW b \in Int, a * LeastGap < b * LeastGap
  PROVE  a < b
<1>1. LeastGap \in Nat
  BY CloseTimeAssumption
<1>2. CASE a >= b
  <2>1. (a - b) * LeastGap >= 0
    BY <1>1, <1>2
  <2>2. (a - b) * LeastGap = a * LeastGap - b * LeastGap
    BY <1>1
  <2> QED BY <1>1, <2>1, <2>2
<1> QED BY <1>2

\* A time that is to a number of average closes as the least gap is to the average
\* is less than as many least gaps.
LEMMA InProportion ==
  ASSUME NEW elapsed \in Int, NEW ledgers \in Int,
         elapsed * CloseTime < (ledgers * CloseTime) * LeastGap
  PROVE  elapsed < ledgers * LeastGap
<1>1. CloseTime \in Nat /\ CloseTime > 0 /\ LeastGap \in Nat
  BY CloseTimeAssumption
<1> DEFINE room == ledgers * LeastGap
<1>2. room \in Int /\ (ledgers * CloseTime) * LeastGap = room * CloseTime
  BY <1>1
<1> HIDE DEF room
<1>3. CASE elapsed >= room
  <2>1. (elapsed - room) * CloseTime >= 0
    BY <1>1, <1>2, <1>3
  <2>2. (elapsed - room) * CloseTime = elapsed * CloseTime - room * CloseTime
    BY <1>1, <1>2
  <2> QED BY <1>1, <1>2, <2>1, <2>2
<1> QED BY <1>2, <1>3 DEF room

\* The ledgers that recommendExpiryLedger counts for a time to live last it.
LEMMA LedgersLast ==
  ASSUME NEW ttl \in Nat
  PROVE  /\ (ttl + CloseTime - 1) \div CloseTime \in Nat
         /\ ttl <= ((ttl + CloseTime - 1) \div CloseTime) * CloseTime
<1> DEFINE n == ttl + CloseTime - 1
           q == n \div CloseTime
<1>1. CloseTime \in Nat /\ CloseTime > 0 /\ n \in Nat
  BY CloseTimeAssumption
<1>2. q \in Nat /\ n % CloseTime < CloseTime /\ n = q * CloseTime + (n % CloseTime)
      /\ n % CloseTime \in Nat
  BY <1>1
<1> QED BY <1>1, <1>2

\* A ledger within as many closes of a remembered one as a stretch of time has room
\* for, the first one free, is not past that many ledgers.
LEMMA WithinReach ==
  ASSUME ClockType, NEW ledger, NEW at, Paced(ledger, at, sequence, closedAt, now),
         NEW ledgers \in Int, now - at < ledgers * LeastGap
  PROVE  sequence <= ledger + ledgers
<1> DEFINE passed == sequence - ledger
<1>1. /\ LeastGap \in Nat /\ now \in Nat /\ at \in Nat /\ at <= now
      /\ closedAt \in Nat /\ closedAt <= now
      /\ passed \in Nat /\ ledger \in Nat /\ sequence \in Nat
  BY CloseTimeAssumption, LedgersAssumption DEF ClockType, Paced
<1>2. CASE passed = 0
  <2>1. 0 * LeastGap < ledgers * LeastGap
    BY <1>1
  <2>2. 0 < ledgers
    BY <2>1, TimesLeastGap
  <2> QED BY <1>1, <1>2, <2>2
<1>3. CASE passed # 0
  <2>1. (passed - 1) * LeastGap <= closedAt - at
    BY <1>1, <1>3 DEF Paced
  <2>2. (passed - 1) * LeastGap < ledgers * LeastGap
    BY <1>1, <2>1
  <2>3. passed - 1 < ledgers
    BY <1>1, <2>2, TimesLeastGap
  <2> QED BY <1>1, <2>3
<1> QED BY <1>2, <1>3

\* The passing of time keeps the pace.
LEMMA TickPaced ==
  ASSUME NEW ledger, NEW at, NEW last \in Nat, NEW lastAt \in Nat, NEW clock \in Nat,
         Paced(ledger, at, last, lastAt, clock)
  PROVE  Paced(ledger, at, last, lastAt, clock + 1)
BY DEF Paced

\* A ledger that closes LeastGap or more after the one before keeps the pace.
LEMMA ClosePaced ==
  ASSUME NEW ledger, NEW at, NEW last \in Nat, NEW lastAt \in Nat, NEW clock \in Nat,
         Paced(ledger, at, last, lastAt, clock), clock - lastAt >= LeastGap
  PROVE  Paced(ledger, at, last + 1, clock, clock)
<1> DEFINE passed == last - ledger
<1>1. /\ ledger \in Nat /\ at \in Nat /\ at <= clock /\ passed \in Nat
      /\ LeastGap \in Nat
  BY CloseTimeAssumption DEF Paced
<1>2. passed * LeastGap <= clock - at
  <2>1. CASE passed = 0
    BY <2>1, <1>1
  <2>2. CASE passed # 0
    <3>1. (passed - 1) * LeastGap <= lastAt - at
      BY <1>1, <2>2 DEF Paced
    <3>2. passed * LeastGap = (passed - 1) * LeastGap + LeastGap
      BY <1>1
    <3>3. (passed - 1) * LeastGap \in Int
      BY <1>1
    <3> HIDE DEF passed
    <3> QED BY <3>1, <3>2, <3>3, <1>1
  <2> QED BY <2>1, <2>2
<1>3. (last + 1) - ledger - 1 = passed
  BY <1>1
<1> QED BY <1>1, <1>2, <1>3 DEF Paced

-----------------------------------------------------------------------------
(* The invariant. *)

\* The first state satisfies the invariant.
LEMMA ExpiryInitInv == ExpiryInit => ExpiryInv
BY LedgersAssumption
   DEF ExpiryInit, ExpiryInv, ClockType, ReadingHolds, PlanHolds, MetaHolds, AskedHolds

\* Every step keeps the invariant.
LEMMA ExpiryNextInv == ExpiryInv /\ [ExpiryNext]_expiryVars => ExpiryInv'
<1> SUFFICES ASSUME ExpiryInv, [ExpiryNext]_expiryVars PROVE ExpiryInv'
  OBVIOUS
<1> USE CloseTimeAssumption, TtlsAssumption, LedgersAssumption, ExpiryAssumption
<1>0. now \in Nat /\ closedAt \in Nat /\ sequence \in Nat
  BY DEF ExpiryInv, ClockType
<1>1. CASE Tick
  <2>1. ClockType' /\ AskedHolds' /\ PlanHolds'
    BY <1>1 DEF Tick, ExpiryInv, ClockType, PlanHolds, AskedHolds
  <2>2. /\ now' = now + 1
        /\ UNCHANGED <<sequence, closedAt, read, planned, meta, inputs>>
    BY <1>1 DEF Tick
  <2>3. ReadingHolds' /\ MetaHolds'
    BY <1>0, <2>2, TickPaced DEF ExpiryInv, ReadingHolds, MetaHolds
  <2> QED BY <2>1, <2>3 DEF ExpiryInv
<1>2. CASE CloseLedger
  <2>1. ClockType' /\ PlanHolds'
    BY <1>2 DEF CloseLedger, ExpiryInv, ClockType, PlanHolds
  <2>2. /\ sequence' = sequence + 1 /\ closedAt' = now /\ now' = now
        /\ now - closedAt >= LeastGap
        /\ UNCHANGED <<read, planned, meta, inputs>>
    BY <1>2 DEF CloseLedger
  <2>3. ReadingHolds' /\ MetaHolds'
    BY <1>0, <2>2, ClosePaced DEF ExpiryInv, ReadingHolds, MetaHolds
  <2>4. AskedHolds'
    BY <1>2 DEF CloseLedger, ExpiryInv, ClockType, AskedHolds
  <2> QED BY <2>1, <2>3, <2>4 DEF ExpiryInv
<1>3. CASE ReadLedger
  <2>1. read' = [ledger |-> sequence, at |-> now]
    BY <1>3 DEF ReadLedger
  <2>2. ReadingHolds'
    BY <2>1, <1>3 DEF ReadLedger, ExpiryInv, ClockType, ReadingHolds, Paced
  <2> QED
    BY <2>2, <1>3 DEF ReadLedger, ExpiryInv, ClockType, PlanHolds, MetaHolds, AskedHolds
<1>4. CASE Plan
  <2>1. meta = Unset
    BY <1>4 DEF Plan, ExpiryInv, MetaHolds
  <2>2. PlanHolds'
    <3>1. CASE \E ttl \in Ttls :
                 planned' = [expiryLedger |-> RecommendExpiryLedger(read.ledger, ttl), ttl |-> ttl]
      <4>1. PICK ttl \in Ttls :
              planned' = [expiryLedger |-> RecommendExpiryLedger(read.ledger, ttl), ttl |-> ttl]
        BY <3>1
      <4>2. ttl \in Nat /\ read.ledger \in Nat /\ read # Unset
        BY <1>4 DEF Plan, ExpiryInv, ReadingHolds, Paced
      <4>3. RecommendExpiryLedger(read.ledger, ttl) \in 0..LedgerEnd
        BY <4>2, LedgersLast DEF RecommendExpiryLedger
      <4> QED BY <4>1, <4>2, <4>3, <1>4 DEF Plan, PlanHolds
    <3>2. CASE \E expiry \in Expiries \cup {NoExpiry} :
                 planned' = [expiryLedger |-> expiry, ttl |-> 0]
      BY <3>2, <1>4 DEF Plan, PlanHolds
    <3> QED BY <3>1, <3>2, <1>4 DEF Plan
  <2> QED
    BY <2>1, <2>2, <1>4 DEF Plan, ExpiryInv, ClockType, ReadingHolds, MetaHolds, AskedHolds
<1>5. CASE CreateProofMetadata
  <2>1. asked = Unset
    BY <1>5 DEF CreateProofMetadata, ExpiryInv, AskedHolds
  <2>2. MetaHolds'
    <3>1. PICK reading \in {read, [ledger |-> sequence, at |-> now]} :
            meta' = [generatedAt |-> now,
                     expiryLedger |-> planned.expiryLedger,
                     estimatedExpiryAt |->
                       IF planned.expiryLedger = NoExpiry THEN Unset
                       ELSE EstimateExpiryDate(planned.expiryLedger, reading.ledger, now),
                     reading |-> reading,
                     atLedger |-> sequence]
      BY <1>5 DEF CreateProofMetadata
    <3>2. Paced(sequence, now, sequence, closedAt, now)
      BY <1>0 DEF Paced
    <3>3. Paced(read.ledger, read.at, sequence, closedAt, now)
      BY <1>5 DEF CreateProofMetadata, ExpiryInv, PlanHolds, ReadingHolds
    <3>4. Paced(reading.ledger, reading.at, sequence, closedAt, now)
      BY <3>2, <3>3
    <3>5. /\ UNCHANGED <<now, sequence, closedAt, planned>> /\ planned # Unset
          /\ inputs' = FormatProof(planned.expiryLedger)
      BY <1>5 DEF CreateProofMetadata
    <3> QED BY <3>1, <3>2, <3>4, <3>5 DEF MetaHolds
  <2> QED
    BY <2>1, <2>2, <1>5
       DEF CreateProofMetadata, ExpiryInv, ClockType, ReadingHolds, PlanHolds, AskedHolds
<1>6. CASE Precheck
  BY <1>6 DEF Precheck, ExpiryInv, ClockType, ReadingHolds, PlanHolds, MetaHolds, AskedHolds
<1>7. CASE UNCHANGED expiryVars
  BY <1>7 DEF expiryVars, ExpiryInv, ClockType, ReadingHolds, PlanHolds, MetaHolds, AskedHolds
<1> QED
  BY <1>1, <1>2, <1>3, <1>4, <1>5, <1>6, <1>7 DEF ExpiryNext

\* The invariant holds in every state.
LEMMA ExpiryInvAlways == ExpirySpec => []ExpiryInv
BY ExpiryInitInv, ExpiryNextInv, PTL DEF ExpirySpec

-----------------------------------------------------------------------------
\* The contract accepts what the metadata describes up to its expiry ledger.
LEMMA AcceptsUntilExpiry ==
  ASSUME ExpiryInv, HasExpiry
  PROVE  /\ meta.expiryLedger \in 0..LedgerEnd
         /\ ContractAccepts(inputs, sequence) <=> sequence <= meta.expiryLedger
<1>1. meta.expiryLedger \in 0..LedgerEnd
  BY DEF HasExpiry, ExpiryInv, MetaHolds, PlanHolds
<1>2. inputs = <<"signal", meta.expiryLedger>>
  BY DEF HasExpiry, ExpiryInv, MetaHolds, FormatProof
<1>3. Len(inputs) = 2 /\ inputs[2] = meta.expiryLedger
  BY <1>2
<1>4. sequence \in Nat /\ meta.expiryLedger \in Nat
  BY <1>1, LedgersAssumption DEF ExpiryInv, ClockType
<1> QED BY <1>1, <1>3, <1>4 DEF ContractAccepts

\* A proof given the expiry recommendExpiryLedger returns is accepted for its whole
\* time to live on a network whose ledgers keep the average at least, and for the
\* same share of it as the least gap is of the average on a faster one.
THEOREM LivesItsTimeToLiveAlways == ExpirySpec => []LivesItsTimeToLive
<1>1. ExpiryInv => LivesItsTimeToLive
  <2> SUFFICES ASSUME ExpiryInv, HasExpiry,
                      (now - read.at) * CloseTime < planned.ttl * LeastGap
               PROVE  sequence <= meta.expiryLedger
    BY AcceptsUntilExpiry DEF LivesItsTimeToLive
  <2> DEFINE ttl == planned.ttl
             ledgers == (ttl + CloseTime - 1) \div CloseTime
             elapsed == now - read.at
  <2>1. planned # Unset /\ read # Unset /\ meta.expiryLedger = planned.expiryLedger
    BY DEF HasExpiry, ExpiryInv, MetaHolds, PlanHolds
  <2>2. /\ now \in Nat /\ read.at \in Nat /\ read.at <= now /\ read.ledger \in Nat
        /\ sequence \in Nat /\ sequence <= LedgerEnd /\ elapsed \in Nat
        /\ CloseTime \in Nat /\ LeastGap \in Nat
    BY <2>1, LedgersAssumption, CloseTimeAssumption DEF ExpiryInv, ClockType, ReadingHolds, Paced
  <2>3. ttl \in Nat /\ planned.expiryLedger = RecommendExpiryLedger(read.ledger, ttl)
    <3>1. ttl # 0
      <4> SUFFICES ASSUME ttl = 0 PROVE FALSE
        OBVIOUS
      <4>1. elapsed * CloseTime >= 0 /\ ttl * LeastGap = 0
        BY <2>2
      <4> QED BY <2>2, <4>1
    <3> QED BY <2>1, <3>1 DEF ExpiryInv, PlanHolds
  <2>4. ledgers \in Nat /\ ttl <= ledgers * CloseTime
    BY <2>3, LedgersLast
  <2>5. RecommendExpiryLedger(read.ledger, ttl)
          = IF read.ledger + ledgers > LedgerEnd THEN LedgerEnd ELSE read.ledger + ledgers
    BY DEF RecommendExpiryLedger
  <2>6. elapsed * CloseTime < ttl * LeastGap
    OBVIOUS
  <2> HIDE DEF ledgers, ttl
  <2>7. now - read.at < ledgers * LeastGap
    <3> HIDE DEF elapsed
    <3> DEFINE room == ledgers * CloseTime
    <3>1. room \in Nat
      BY <2>2, <2>4
    <3>2. ttl <= room
      BY <2>4
    <3> HIDE DEF room
    <3>3. (room - ttl) * LeastGap >= 0 /\ (room - ttl) * LeastGap = room * LeastGap - ttl * LeastGap
      BY <2>2, <2>3, <3>1, <3>2
    <3>4. elapsed * CloseTime < room * LeastGap
      <4>1. elapsed * CloseTime \in Int /\ ttl * LeastGap \in Int /\ room * LeastGap \in Int
        BY <2>2, <2>3, <3>1
      <4> QED BY <2>6, <3>3, <4>1
    <3> QED BY <2>2, <2>4, <3>4, InProportion DEF room, elapsed
  <2>8. sequence <= read.ledger + ledgers
    BY <2>1, <2>4, <2>7, WithinReach DEF ExpiryInv, ReadingHolds
  <2> QED BY <2>1, <2>2, <2>3, <2>5, <2>8
<1> QED
  BY <1>1, ExpiryInvAlways, PTL

\* On a network whose ledgers keep the average at least, the contract accepts the
\* proof for the estimated life counted from the reading it was computed from, and
\* for the estimated life without the ledgers closed since that reading counted
\* from the generation; on a faster one for the same share of either.
THEOREM EstimateIsSafeAlways == ExpirySpec => []EstimateIsSafe
<1>1. ASSUME ExpiryInv, HasExpiry PROVE EstimateIsSafe
  <2> DEFINE e == meta.expiryLedger
             l == meta.reading.ledger
             g == meta.atLedger
  <2>1. /\ now \in Nat /\ meta.reading.at \in Nat /\ l \in Nat
        /\ g \in Nat /\ meta.generatedAt \in Nat
        /\ e \in Nat /\ sequence \in Nat /\ CloseTime \in Nat
    BY <1>1, AcceptsUntilExpiry, LedgersAssumption, CloseTimeAssumption
       DEF HasExpiry, ExpiryInv, ClockType, MetaHolds, Paced
  <2>2. /\ Paced(l, meta.reading.at, sequence, closedAt, now)
        /\ Paced(g, meta.generatedAt, sequence, closedAt, now)
        /\ meta.estimatedExpiryAt = meta.generatedAt + (e - l) * CloseTime
        /\ ClockType
    BY <1>1 DEF HasExpiry, ExpiryInv, MetaHolds, EstimateExpiryDate
  <2>3. EstimatedLife = (e - l) * CloseTime
    <3>1. (e - l) * CloseTime \in Int
      BY <2>1
    <3> QED BY <2>1, <2>2, <3>1 DEF EstimatedLife
  <2>4. EstimatedLife - StaleLife = (e - g) * CloseTime
    <3>1. (e - l) * CloseTime - CloseTime * (g - l) = (e - g) * CloseTime
      BY <2>1
    <3> QED BY <2>3, <3>1 DEF StaleLife
  <2>5. ASSUME (now - meta.reading.at) * CloseTime < EstimatedLife * LeastGap
        PROVE  sequence <= e
    <3>1. now - meta.reading.at < (e - l) * LeastGap
      BY <2>1, <2>3, <2>5, InProportion
    <3>2. sequence <= l + (e - l)
      BY <2>1, <2>2, <3>1, WithinReach
    <3> QED BY <2>1, <3>2
  <2>6. ASSUME (now - meta.generatedAt) * CloseTime < (EstimatedLife - StaleLife) * LeastGap
        PROVE  sequence <= e
    <3>1. now - meta.generatedAt < (e - g) * LeastGap
      BY <2>1, <2>4, <2>6, InProportion
    <3>2. sequence <= g + (e - g)
      BY <2>1, <2>2, <3>1, WithinReach
    <3> QED BY <2>1, <3>2
  <2> QED BY <1>1, <2>5, <2>6, AcceptsUntilExpiry DEF EstimateIsSafe
<1>2. ExpiryInv => EstimateIsSafe
  BY <1>1 DEF EstimateIsSafe
<1> QED
  BY <1>2, ExpiryInvAlways, PTL

\* What a precheck said stays true of the contract as ledgers pass.
THEOREM PrecheckForetellsAlways == ExpirySpec => []PrecheckForetells
<1>1. ExpiryInv => PrecheckForetells
  <2> SUFFICES ASSUME ExpiryInv, HasExpiry, asked # Unset
               PROVE  /\ asked.expired => ~(sequence <= meta.expiryLedger)
                      /\ ~asked.expired =>
                           (sequence <= meta.expiryLedger
                              <=> sequence - asked.ledger <= asked.remaining)
    BY AcceptsUntilExpiry DEF PrecheckForetells
  <2>1. meta.expiryLedger \in Nat /\ sequence \in Nat
        /\ asked.ledger \in Nat /\ asked.ledger <= sequence
    BY AcceptsUntilExpiry, LedgersAssumption DEF ExpiryInv, ClockType, AskedHolds
  <2>2. /\ asked.expired <=> asked.ledger > meta.expiryLedger
        /\ asked.remaining = IF meta.expiryLedger > asked.ledger
                                THEN meta.expiryLedger - asked.ledger ELSE 0
    BY DEF HasExpiry, ExpiryInv, AskedHolds, IsProofExpired, LedgersUntilExpiry
  <2> QED BY <2>1, <2>2
<1> QED
  BY <1>1, ExpiryInvAlways, PTL

-----------------------------------------------------------------------------
(* The history of events: what the application knows of every position. *)

\* What Publish appends.
LogEntries == [ledger : Nat, success : Kinds]

\* Events are published in the order of their ledgers, none of a later one
\* than the ledger now open.
LogInOrder ==
  /\ log \in Seq(LogEntries)
  /\ \A i, j \in 1..Len(log) : i <= j => log[i].ledger <= log[j].ledger
  /\ \A i \in 1..Len(log) : log[i].ledger <= current

\* The node is behind the network, keeps a range of ledgers that ends where it
\* has got to, and the application asks for none it does not know of.
NodeLags ==
  /\ current \in Nat /\ ingested \in Nat /\ kept \in Nat /\ start \in Nat /\ limit \in Nat \ {0}
  /\ ingested < current /\ kept <= ingested + 1 /\ start <= ingested

\* What the node no longer keeps, the application got or lost.
PrunedIsKnown == \A i \in 1..Len(log) : log[i].ledger < kept => i \in seen \cup lost

\* The invariant of the history.
HistoryInv == LogInOrder /\ NodeLags /\ PrunedIsKnown /\ FollowingMissesNothing

-----------------------------------------------------------------------------
(* The newest of the entries, and the oldest events of a page. *)

\* A set of positions that is not empty has a greatest one.
LEMMA GreatestElement ==
  ASSUME NEW n \in Nat, NEW T, T \subseteq 1..n, T # {}
  PROVE  \E m \in T : \A k \in T : k <= m
<1> DEFINE U == {n - k : k \in T}
<1>1. U \subseteq Nat /\ U # {}
  <2>1. \A k \in T : n - k \in Nat
    OBVIOUS
  <2> QED BY <2>1
<1>2. \E x \in U : \A y \in U : ~(<<y, x>> \in OpToRel(<, Nat))
  <2> HIDE DEF U
  <2> QED BY <1>1, NatLessThanWellFounded, WFMin, Zenon
<1>3. \A x, y \in Nat : y < x => <<y, x>> \in OpToRel(<, Nat)
  BY DEF OpToRel
<1>4. \E x \in U : \A y \in U : x <= y
  <2> HIDE DEF U
  <2>1. PICK x \in U : \A y \in U : ~(<<y, x>> \in OpToRel(<, Nat))
    BY <1>2, Zenon
  <2>2. \A y \in U : ~(y < x)
    BY <1>1, <1>3, <2>1
  <2>3. \A y \in U : x <= y
    BY <1>1, <2>2
  <2> QED BY <2>3
<1>5. PICK m \in T : \A k \in T : n - m <= n - k
  BY <1>4
<1> QED BY <1>5

\* The log is a sequence of events with numbered ledgers.
LEMMA LogIsTyped ==
  ASSUME LogInOrder
  PROVE  /\ DOMAIN log = 1..Len(log) /\ Len(log) \in Nat
         /\ \A i \in 1..Len(log) : log[i].ledger \in Nat
<1>1. log \in Seq(LogEntries)
  BY DEF LogInOrder
<1>2. DOMAIN log = 1..Len(log) /\ Len(log) \in Nat /\ \A i \in 1..Len(log) : log[i] \in LogEntries
  BY <1>1
<1>3. \A e \in LogEntries : e.ledger \in Nat
  BY DEF LogEntries
<1> QED BY <1>2, <1>3

\* The reversal puts the newest entry first.
LEMMA NewestFirst ==
  ASSUME NEW n \in Nat, NEW events, events \subseteq 1..n, events # {}
  PROVE  /\ Entries(events)[1] \in events
         /\ \A i \in events : i <= Entries(events)[1]
<1> DEFINE Newer(i) == {j \in events : j > i}
<1>1. IsFiniteSet(events) /\ \A i : IsFiniteSet(Newer(i))
  <2>1. IsFiniteSet(1..n)
    BY FS_Interval
  <2> QED BY <2>1, FS_Subset
<1>2. Cardinality(events) \in Nat \ {0}
  BY <1>1, FS_EmptySet, FS_CardinalityType
<1>3. Entries(events)[1] = CHOOSE i \in events : Cardinality(Newer(i)) = 0
  <2>1. Entries(events)[1] = CHOOSE i \in events : Cardinality(Newer(i)) = 1 - 1
    <3>1. 1 \in 1..Cardinality(events)
      BY <1>2
    <3> QED BY <3>1 DEF Entries
  <2>2. 1 - 1 = 0
    OBVIOUS
  <2> HIDE DEF Newer
  <2> QED BY <2>1, <2>2, Zenon
<1>4. \A i : Cardinality(Newer(i)) = 0 <=> Newer(i) = {}
  <2> HIDE DEF Newer
  <2> QED BY <1>1, FS_EmptySet
<1>5. PICK m \in events : \A k \in events : k <= m
  BY GreatestElement
<1>6. Newer(m) = {}
  <2>1. \A k \in events : k \in Int
    OBVIOUS
  <2>2. \A k \in events : ~(k > m)
    BY <1>5, <2>1
  <2> QED BY <2>2, Zenon
<1> DEFINE newest == Entries(events)[1]
<1>7. newest \in events /\ Cardinality(Newer(newest)) = 0
  <2> HIDE DEF Newer, newest
  <2>1. \E i \in events : Cardinality(Newer(i)) = 0
    BY <1>4, <1>6
  <2>2. newest = CHOOSE i \in events : Cardinality(Newer(i)) = 0
    BY <1>3 DEF newest
  <2> QED BY <2>1, <2>2, Zenon
<1>8. Newer(newest) = {}
  <2> HIDE DEF Newer, newest
  <2> QED BY <1>4, <1>7
<1> HIDE DEF newest
<1>9. \A i \in events : i <= newest
  <2>1. \A k \in events : k \in Int
    OBVIOUS
  <2> QED BY <1>7, <1>8, <2>1
<1> QED BY <1>7, <1>9 DEF newest

\* Every event the node has from before an event of its answer is in the answer.
LEMMA AnswerIsOldest ==
  ASSUME LogInOrder, limit \in Nat, NEW m \in GetEvents, NEW i \in Available, i <= m
  PROVE  i \in GetEvents
<1> DEFINE Before(k) == {j \in Available : j < k}
<1>1. Available \subseteq 1..Len(log) /\ m \in Available /\ Cardinality(Before(m)) < limit
  BY DEF LogInOrder, Available, GetEvents
<1>2. IsFiniteSet(Before(m))
  <2>1. IsFiniteSet(1..Len(log))
    <3>1. Len(log) \in Int /\ 1 \in Int
      BY DEF LogInOrder
    <3> QED BY <3>1, FS_Interval
  <2> QED BY <1>1, <2>1, FS_Subset
<1>3. Before(i) \subseteq Before(m)
  <2>1. i \in Int /\ m \in Int /\ \A k \in Available : k \in Int
    BY <1>1 DEF LogInOrder
  <2>2. \A k \in Available : k < i => k < m
    BY <2>1
  <2> QED BY <2>2, Zenon
<1>4. Cardinality(Before(i)) \in Nat /\ Cardinality(Before(m)) \in Nat
      /\ Cardinality(Before(i)) <= Cardinality(Before(m))
  <2> HIDE DEF Before
  <2> QED BY <1>2, <1>3, FS_Subset, FS_CardinalityType
<1>5. Cardinality(Before(i)) < limit
  <2> HIDE DEF Before
  <2> QED BY <1>1, <1>4
<1> QED BY <1>5 DEF GetEvents

-----------------------------------------------------------------------------
(* The steps. *)

\* The first state satisfies the invariant.
LEMMA HistoryInitInv == HistoryInit => HistoryInv
BY LimitsAssumption
   DEF HistoryInit, HistoryInv, LogInOrder, NodeLags, PrunedIsKnown, FollowingMissesNothing

\* A request keeps the invariant: what lies before the newest entry was in the
\* answer, or the node had dropped it, or an earlier answer had it.
LEMMA GetKeepsInv == HistoryInv /\ GetVerificationHistory => HistoryInv'
<1> SUFFICES ASSUME HistoryInv, GetVerificationHistory PROVE HistoryInv'
  OBVIOUS
<1> DEFINE events == {i \in GetEvents : Matches(i)}
<1>1. /\ seen' = seen \cup events
      /\ start' = IF events = {} THEN start ELSE log[Entries(events)[1]].ledger
      /\ UNCHANGED <<log, current, ingested, kept, limit, filter, lost>>
  BY DEF GetVerificationHistory, Deliver
<1>2. DOMAIN log = 1..Len(log) /\ Len(log) \in Nat /\ \A i \in 1..Len(log) : log[i].ledger \in Nat
  BY LogIsTyped DEF HistoryInv
<1>3. events \subseteq Available /\ events \subseteq 1..Len(log)
  BY <1>2 DEF GetEvents, Available
<1>4. LogInOrder' /\ PrunedIsKnown'
  BY <1>1 DEF HistoryInv, LogInOrder, PrunedIsKnown
<1>5. \A i : Matches(i)' <=> Matches(i)
  BY <1>1 DEF Matches
<1>6. CASE events = {}
  <2>1. start' = start /\ seen \subseteq seen'
    BY <1>1, <1>6
  <2> QED
    BY <1>1, <1>4, <1>5, <2>1 DEF HistoryInv, NodeLags, FollowingMissesNothing
<1>7. CASE events # {}
  <2> DEFINE newest == Entries(events)[1]
  <2>1. newest \in events /\ \A i \in events : i <= newest
    <3> HIDE DEF events
    <3> QED BY <1>2, <1>3, <1>7, NewestFirst
  <2>2. start' = log[newest].ledger
    BY <1>1, <1>7
  <2> HIDE DEF newest
  <2>3. /\ newest \in 1..Len(log) /\ log[newest].ledger \in Nat
        /\ log[newest].ledger <= ingested /\ newest \in GetEvents
    BY <1>2, <1>3, <2>1 DEF Available, HistoryInv, NodeLags
  <2>4. NodeLags'
    BY <1>1, <2>2, <2>3 DEF HistoryInv, NodeLags
  <2>5. FollowingMissesNothing'
    <3> SUFFICES ASSUME NEW i \in 1..Len(log), Matches(i), log[i].ledger < log[newest].ledger
                 PROVE  i \in seen' \cup lost
      BY <1>1, <1>2, <1>5, <2>2 DEF FollowingMissesNothing
    <3>1. CASE log[i].ledger < kept
      BY <1>1, <3>1 DEF HistoryInv, PrunedIsKnown
    <3>2. CASE log[i].ledger < start
      BY <1>1, <1>2, <3>2 DEF HistoryInv, FollowingMissesNothing
    <3>3. CASE kept <= log[i].ledger /\ start <= log[i].ledger
      <4>1. i <= newest
        <5>1. newest <= i => log[newest].ledger <= log[i].ledger
          BY <2>3 DEF HistoryInv, LogInOrder
        <5> QED BY <1>2, <2>3, <5>1
      <4>2. i \in Available
        BY <1>2, <2>3, <3>3 DEF Available, HistoryInv, NodeLags
      <4>3. i \in GetEvents
        BY <2>3, <4>1, <4>2, AnswerIsOldest DEF HistoryInv, NodeLags
      <4> QED BY <1>1, <4>3
    <3> QED BY <1>2, <3>1, <3>2, <3>3 DEF HistoryInv, NodeLags
  <2> QED BY <1>4, <2>4, <2>5 DEF HistoryInv
<1> QED BY <1>6, <1>7

\* Every step keeps the invariant.
LEMMA HistoryNextInv == HistoryInv /\ [HistoryNext]_historyVars => HistoryInv'
<1> SUFFICES ASSUME HistoryInv, [HistoryNext]_historyVars PROVE HistoryInv'
  OBVIOUS
<1>0. DOMAIN log = 1..Len(log) /\ Len(log) \in Nat /\ \A i \in 1..Len(log) : log[i].ledger \in Nat
  BY LogIsTyped DEF HistoryInv
<1>1. ASSUME NEW success \in Kinds, Publish(success) PROVE HistoryInv'
  <2> DEFINE e == [ledger |-> current, success |-> success]
  <2>1. e \in LogEntries /\ e.ledger = current
    BY DEF LogEntries, HistoryInv, NodeLags
  <2>2. log' = Append(log, e)
        /\ UNCHANGED <<current, ingested, kept, limit, filter, start, seen, lost>>
    BY <1>1 DEF Publish
  <2> HIDE DEF e
  <2>3. /\ log' \in Seq(LogEntries) /\ Len(log') = Len(log) + 1
        /\ \A i \in 1..Len(log) : log'[i] = log[i]
        /\ log'[Len(log) + 1] = e
    BY <2>1, <2>2 DEF HistoryInv, LogInOrder
  <2>4. \A i \in 1..Len(log') : i \in 1..Len(log) \/ i = Len(log) + 1
    BY <1>0, <2>3
  <2>5. LogInOrder'
    <3> DEFINE n == Len(log)
    <3>1. \A i \in 1..n : log'[i].ledger = log[i].ledger /\ log[i].ledger <= current
      BY <2>3 DEF HistoryInv, LogInOrder
    <3>2. log'[n + 1].ledger = current /\ current \in Nat /\ current' = current
      BY <2>1, <2>2, <2>3 DEF HistoryInv, NodeLags
    <3>3. \A i \in 1..Len(log') : log'[i].ledger <= current
      BY <2>4, <3>1, <3>2
    <3>4. ASSUME NEW i \in 1..Len(log'), NEW j \in 1..Len(log'), i <= j
          PROVE  log'[i].ledger <= log'[j].ledger
      <4>1. CASE j = n + 1
        BY <3>2, <3>3, <4>1
      <4>2. CASE j \in 1..n
        <5>1. i \in 1..n
          BY <1>0, <3>4, <4>2
        <5>2. log[i].ledger <= log[j].ledger
          BY <3>4, <4>2, <5>1 DEF HistoryInv, LogInOrder
        <5> QED BY <3>1, <4>2, <5>1, <5>2
      <4> QED BY <2>4, <4>1, <4>2
    <3> QED BY <2>2, <2>3, <3>3, <3>4 DEF LogInOrder
  <2>6. NodeLags'
    BY <2>2 DEF HistoryInv, NodeLags
  <2>7. PrunedIsKnown'
    BY <1>0, <2>1, <2>2, <2>3, <2>4 DEF HistoryInv, PrunedIsKnown, NodeLags
  <2>8. FollowingMissesNothing'
    <3>1. DOMAIN log' = 1..Len(log')
      BY <2>3
    <3> SUFFICES ASSUME NEW i \in 1..Len(log'), Matches(i)', log'[i].ledger < start
                 PROVE  i \in seen \cup lost
      BY <2>2, <3>1 DEF FollowingMissesNothing
    <3>2. i \in 1..Len(log)
      BY <1>0, <2>1, <2>3, <2>4 DEF HistoryInv, NodeLags
    <3>3. Matches(i)
      BY <2>2, <2>3, <3>2 DEF Matches
    <3> QED BY <1>0, <2>3, <3>2, <3>3 DEF HistoryInv, FollowingMissesNothing
  <2> QED BY <2>5, <2>6, <2>7, <2>8 DEF HistoryInv
<1>2. CASE CloseOpenLedger
  BY <1>2, <1>0
     DEF CloseOpenLedger, HistoryInv, LogInOrder, NodeLags, PrunedIsKnown, FollowingMissesNothing, Matches
<1>3. CASE Ingest
  BY <1>3, <1>0
     DEF Ingest, HistoryInv, LogInOrder, NodeLags, PrunedIsKnown, FollowingMissesNothing, Matches
<1>4. CASE Prune
  <2>1. PrunedIsKnown'
    BY <1>4, <1>0 DEF Prune, HistoryInv, NodeLags, PrunedIsKnown
  <2>2. FollowingMissesNothing'
    BY <1>4, <1>0 DEF Prune, HistoryInv, FollowingMissesNothing, Matches
  <2> QED BY <1>4, <2>1, <2>2 DEF Prune, HistoryInv, LogInOrder, NodeLags
<1>5. CASE UNCHANGED historyVars
  BY <1>5 DEF historyVars, HistoryInv, LogInOrder, NodeLags, PrunedIsKnown, FollowingMissesNothing, Matches
<1> QED BY <1>1, <1>2, <1>3, <1>4, <1>5, GetKeepsInv DEF HistoryNext

\* An application that continues from its newest entry misses no event but what
\* the node had dropped, for every limit, filter and length of history.
THEOREM FollowingMissesNothingAlways == HistorySpec => []FollowingMissesNothing
<1>1. HistoryInv => FollowingMissesNothing
  BY DEF HistoryInv
<1> QED BY <1>1, HistoryInitInv, HistoryNextInv, PTL DEF HistorySpec

-----------------------------------------------------------------------------
(* The files of the command line. *)

\* What an encoder writes, the host reads back.
LEMMA G2RoundTrip ==
  ASSUME NEW point \in G2
  PROVE  /\ ReadG2(EncodeG2(point)) = point
         /\ EncodeG2(point) \in Nat \X Nat \X Nat \X Nat
<1>1. PICK x0, x1, y0, y1 \in Nat : point = <<<<x0, x1>>, <<y0, y1>>>>
  BY DEF G2, G1
<1> QED BY <1>1 DEF EncodeG2, ReadG2

LEMMA ProofRoundTrip ==
  ASSUME NEW proof \in ProofFiles
  PROVE  [a |-> ReadG1(EncodeG1(proof.a)), b |-> ReadG2(EncodeG2(proof.b))] = proof
<1>1. proof \in [a : G1, b : G2]
  BY FilesAssumption
<1>2. ReadG1(EncodeG1(proof.a)) = proof.a /\ ReadG2(EncodeG2(proof.b)) = proof.b
  BY <1>1, G2RoundTrip DEF ReadG1, EncodeG1
<1>3. proof = [a |-> proof.a, b |-> proof.b]
  BY <1>1
<1> QED BY <1>2, <1>3, Zenon

\* The key that an admin registers from the printed call is the key of the file.
LEMMA KeyRoundTrip ==
  ASSUME NEW vk \in KeyFiles, FormatVerifyingKey(vk) # NoFile
  PROVE  LET printed == FormatVerifyingKey(vk)
         IN  [beta |-> ReadG2(printed.beta),
              ic |-> [i \in DOMAIN printed.ic |-> ReadG1(printed.ic[i])]] = vk
<1> DEFINE printed == FormatVerifyingKey(vk)
           ic == [i \in DOMAIN vk.ic |-> EncodeG1(vk.ic[i])]
<1>1. vk \in [beta : G2, ic : Seq(G1)]
  BY FilesAssumption
<1>2. printed = [beta |-> EncodeG2(vk.beta), ic |-> ic]
  BY DEF FormatVerifyingKey
<1>3. printed.beta = EncodeG2(vk.beta) /\ printed.ic = ic
  BY <1>2
<1>4. [i \in DOMAIN printed.ic |-> ReadG1(printed.ic[i])] = vk.ic
  BY <1>1, <1>3 DEF ReadG1, EncodeG1
<1>5. ReadG2(printed.beta) = vk.beta
  BY <1>1, <1>3, G2RoundTrip
<1>6. vk = [beta |-> vk.beta, ic |-> vk.ic]
  BY <1>1
<1> HIDE DEF printed
<1>7. [beta |-> ReadG2(printed.beta),
       ic |-> [i \in DOMAIN printed.ic |-> ReadG1(printed.ic[i])]] = vk
  BY <1>4, <1>5, <1>6, Zenon
<1> QED BY <1>7 DEF printed

\* When files encode, and as what.
LEMMA EncodeProofCases ==
  ASSUME NEW proof \in ProofFiles, NEW signals \in SignalFiles
  PROVE  LET calldata == EncodeProof(proof, signals)
             encodes == /\ ParsesG1(proof.a) /\ ParsesG2(proof.b)
                        /\ \A i \in DOMAIN signals : Parses(signals[i])
         IN  /\ calldata # NoFile <=> encodes
             /\ calldata # NoFile =>
                  /\ calldata.a = EncodeG1(proof.a) /\ calldata.b = EncodeG2(proof.b)
                  /\ calldata.publicInputs = Numbers(signals)
<1> DEFINE calldata == EncodeProof(proof, signals)
           encoded == [a |-> EncodeG1(proof.a), b |-> EncodeG2(proof.b),
                       publicInputs |-> Numbers(signals)]
           encodes == /\ ParsesG1(proof.a) /\ ParsesG2(proof.b)
                      /\ \A i \in DOMAIN signals : Parses(signals[i])
<1>1. calldata = IF encodes THEN encoded ELSE NoFile
  BY Zenon DEF EncodeProof, EncodePublicInputs
<1>2. /\ encoded.a = EncodeG1(proof.a) /\ encoded.b = EncodeG2(proof.b)
      /\ encoded.publicInputs = Numbers(signals)
  OBVIOUS
<1>3. ASSUME encodes PROVE encoded # NoFile
  <2>1. proof \in [a : G1, b : G2] /\ signals \in Seq(DOMAIN Number)
    BY FilesAssumption
  <2>2. \A i \in DOMAIN signals : Number[signals[i]] \in Nat
    BY <1>3, <2>1, FilesAssumption DEF Parses
  <2>3. Numbers(signals) \in Seq(Nat)
    BY <2>1, <2>2 DEF Numbers
  <2>4. EncodeG1(proof.a) \in G1 /\ EncodeG2(proof.b) \in Nat \X Nat \X Nat \X Nat
    BY <2>1, G2RoundTrip DEF EncodeG1
  <2>5. encoded \in EncodedProofs
    BY <2>3, <2>4 DEF EncodedProofs
  <2> QED BY <2>5, FilesAssumption
<1> HIDE DEF encodes, encoded
<1>4. calldata # NoFile <=> encodes
  BY <1>1, <1>3
<1>5. calldata # NoFile => calldata = encoded
  BY <1>1
<1>6. /\ calldata # NoFile <=> encodes
      /\ calldata # NoFile =>
           /\ calldata.a = EncodeG1(proof.a) /\ calldata.b = EncodeG2(proof.b)
           /\ calldata.publicInputs = Numbers(signals)
  BY <1>2, <1>4, <1>5, Zenon
<1> QED BY <1>6 DEF encodes

-----------------------------------------------------------------------------
\* The registry's key is the key of the file it was printed from, and its nullifiers
\* are those of the numbers it accepted.
KeysAreFiles ==
  /\ vkOf = registeredFrom
  /\ registeredFrom \in [CircuitIds -> KeyFiles \cup {NoFile}]
SettledAreAccepted ==
  /\ \A x \in accepted : x = <<x[1], x[2]>>
  /\ settled = {ContractNullifier(x[1], x[2]) : x \in accepted}
PrintedIsOfNumbers ==
  printedNullifier # NoFile =>
    printedNullifier.nullifier = ContractNullifier(printedNullifier.id, printedNullifier.numbers)
CommandInv == KeysAreFiles /\ SettledAreAccepted /\ PrintedIsOfNumbers /\ OffChainForetells

\* The hashes are free of collisions, so a nullifier tells its circuit and numbers.
LEMMA NullifierTells ==
  ASSUME SettledAreAccepted, NEW id, NEW numbers
  PROVE  ContractNullifier(id, numbers) \in settled <=> <<id, numbers>> \in accepted
<1>1. \A i, n : ContractNullifier(i, n) = ContractNullifier(id, numbers) => i = id /\ n = numbers
  BY DEF ContractNullifier, InputsHash
<1>2. ContractNullifier(id, numbers) \in settled => <<id, numbers>> \in accepted
  <2> SUFFICES ASSUME ContractNullifier(id, numbers) \in settled
               PROVE  <<id, numbers>> \in accepted
    OBVIOUS
  <2>1. PICK x \in accepted : ContractNullifier(x[1], x[2]) = ContractNullifier(id, numbers)
    BY DEF SettledAreAccepted
  <2>2. x[1] = id /\ x[2] = numbers /\ x = <<x[1], x[2]>>
    BY <1>1, <2>1 DEF SettledAreAccepted
  <2> QED BY <2>2
<1>3. <<id, numbers>> \in accepted => ContractNullifier(id, numbers) \in settled
  <2>1. <<id, numbers>>[1] = id /\ <<id, numbers>>[2] = numbers
    OBVIOUS
  <2> QED BY <2>1 DEF SettledAreAccepted
<1> QED BY <1>2, <1>3

LEMMA SubmitForetells ==
  ASSUME CommandInv, NEW id \in CircuitIds, NEW proof \in ProofFiles,
         NEW signals \in SignalFiles, Submit(id, proof, signals)
  PROVE  OffChainForetells'
<1> DEFINE calldata == EncodeProof(proof, signals)
           success == calldata # NoFile /\ RegistryAccepts(id, calldata)
           repeated == <<id, Numbers(signals)>> \in accepted
           encodes == /\ ParsesG1(proof.a) /\ ParsesG2(proof.b)
                      /\ \A i \in DOMAIN signals : Parses(signals[i])
           vk == registeredFrom[id]
           offChain == VerifyOffChain(proof, signals, vk)
<1>1. submission' = [id |-> id, proof |-> proof, signals |-> signals, success |-> success,
                     repeated |-> repeated, vk |-> vk]
  BY Zenon DEF Submit
<1>2. vkOf[id] = vk /\ vk \in KeyFiles \cup {NoFile}
  BY DEF CommandInv, KeysAreFiles
<1>3. /\ calldata # NoFile <=> encodes
      /\ calldata # NoFile =>
           /\ calldata.a = EncodeG1(proof.a) /\ calldata.b = EncodeG2(proof.b)
           /\ calldata.publicInputs = Numbers(signals)
  BY EncodeProofCases
<1>4. ASSUME calldata # NoFile, vk # NoFile
      PROVE  RegistryAccepts(id, calldata) <=> offChain /\ ~repeated
  <2>1. /\ calldata.publicInputs = Numbers(signals)
        /\ [a |-> ReadG1(calldata.a), b |-> ReadG2(calldata.b)] = proof
    BY <1>3, <1>4, ProofRoundTrip
  <2>2. ContractNullifier(id, calldata.publicInputs) \notin settled <=> ~repeated
    BY <2>1, NullifierTells DEF CommandInv
  <2>3. <<vk, Numbers(signals), proof>> \in Genuine => Len(Numbers(signals)) + 1 = Len(vk.ic)
    BY <1>2, <1>4, GenuineAssumption DEF Numbers
  <2>4. RegistryAccepts(id, calldata) <=>
          /\ ~repeated /\ Len(Numbers(signals)) + 1 = Len(vk.ic)
          /\ <<vk, Numbers(signals), proof>> \in Genuine
    <3> HIDE DEF calldata, repeated, vk
    <3> QED BY <1>2, <1>4, <2>1, <2>2, Zenon DEF RegistryAccepts
  <2>5. offChain <=> <<vk, Numbers(signals), proof>> \in Genuine
    BY <1>3, <1>4 DEF VerifyOffChain
  <2> HIDE DEF calldata, repeated, offChain, vk
  <2> QED BY <2>3, <2>4, <2>5, Zenon
<1>5. offChain => \A i \in DOMAIN signals : Parses(signals[i])
  BY DEF VerifyOffChain
<1>6. vk # NoFile =>
        /\ success => offChain /\ ~repeated
        /\ offChain /\ ~repeated /\ ParsesG1(proof.a) /\ ParsesG2(proof.b) => success
  <2> HIDE DEF calldata, repeated, offChain, vk
  <2> QED BY <1>3, <1>4, <1>5, Zenon
<1> HIDE DEF success, repeated, vk, offChain
<1>7. /\ submission'.proof = proof /\ submission'.signals = signals
      /\ submission'.success = success /\ submission'.repeated = repeated
      /\ submission'.vk = vk
  BY <1>1
<1> QED BY <1>6, <1>7, Zenon DEF OffChainForetells, offChain

LEMMA CommandStepInv ==
  ASSUME CommandInv, CommandNext
  PROVE  CommandInv'
<1>0. KeysAreFiles /\ SettledAreAccepted /\ PrintedIsOfNumbers /\ OffChainForetells
  BY DEF CommandInv
<1>1. ASSUME NEW id \in CircuitIds, NEW vk \in KeyFiles, FormatVk(id, vk)
      PROVE  CommandInv'
  <2>1. vkOf' = [vkOf EXCEPT ![id] = vk] /\ registeredFrom' = [registeredFrom EXCEPT ![id] = vk]
    BY <1>1, KeyRoundTrip, Zenon DEF FormatVk
  <2>2. KeysAreFiles'
    BY <1>0, <2>1 DEF KeysAreFiles
  <2>3. UNCHANGED <<settled, printedNullifier, accepted, submission>>
    BY <1>1 DEF FormatVk
  <2> QED BY <1>0, <2>2, <2>3
          DEF CommandInv, SettledAreAccepted, PrintedIsOfNumbers, OffChainForetells
<1>2. ASSUME NEW id \in CircuitIds, NEW proof \in ProofFiles, NEW signals \in SignalFiles,
             CheckNullifier(id, proof, signals)
      PROVE  CommandInv'
  <2> DEFINE calldata == EncodeProof(proof, signals)
  <2>1. /\ calldata # NoFile
        /\ printedNullifier' = [id |-> id, numbers |-> Numbers(signals),
                                nullifier |-> CheckedNullifier(id, calldata.publicInputs)]
        /\ UNCHANGED <<vkOf, settled, registeredFrom, accepted, submission>>
    BY <1>2, Zenon DEF CheckNullifier
  <2>2. calldata.publicInputs = Numbers(signals)
    BY <2>1, EncodeProofCases
  <2> HIDE DEF calldata
  <2>3. /\ printedNullifier'.id = id /\ printedNullifier'.numbers = Numbers(signals)
        /\ printedNullifier'.nullifier = CheckedNullifier(id, calldata.publicInputs)
    BY <2>1
  <2>4. PrintedIsOfNumbers'
    BY <2>2, <2>3, Zenon DEF PrintedIsOfNumbers, CheckedNullifier, ContractNullifier
  <2> QED BY <1>0, <2>1, <2>4 DEF CommandInv, KeysAreFiles, SettledAreAccepted, OffChainForetells
<1>3. ASSUME NEW id \in CircuitIds, NEW proof \in ProofFiles, NEW signals \in SignalFiles,
             Submit(id, proof, signals)
      PROVE  CommandInv'
  <2> DEFINE calldata == EncodeProof(proof, signals)
             success == calldata # NoFile /\ RegistryAccepts(id, calldata)
             pair == <<id, Numbers(signals)>>
  <2>1. /\ settled' = IF success THEN settled \cup {ContractNullifier(id, calldata.publicInputs)}
                      ELSE settled
        /\ accepted' = IF success THEN accepted \cup {pair} ELSE accepted
        /\ UNCHANGED <<vkOf, printedNullifier, registeredFrom>>
    BY <1>3, Zenon DEF Submit
  <2>2. success => calldata.publicInputs = Numbers(signals)
    BY EncodeProofCases
  <2>3. pair[1] = id /\ pair[2] = Numbers(signals) /\ pair = <<pair[1], pair[2]>>
    OBVIOUS
  <2> HIDE DEF calldata, success, pair
  <2>4. success => settled' = settled \cup {ContractNullifier(pair[1], pair[2])}
    BY <2>1, <2>2, <2>3
  <2>5. SettledAreAccepted'
    <3>1. CASE success
      <4>1. accepted' = accepted \cup {pair}
        BY <2>1, <3>1
      <4>2. \A x \in accepted' : x = <<x[1], x[2]>>
        BY <1>0, <2>3, <4>1, Zenon DEF SettledAreAccepted
      <4>3. settled' = {ContractNullifier(x[1], x[2]) : x \in accepted'}
        BY <1>0, <2>4, <3>1, <4>1 DEF SettledAreAccepted
      <4> QED BY <4>2, <4>3 DEF SettledAreAccepted, ContractNullifier, InputsHash
    <3>2. CASE ~success
      BY <1>0, <2>1, <3>2 DEF SettledAreAccepted
    <3> QED BY <3>1, <3>2
  <2>6. OffChainForetells'
    BY <1>3, SubmitForetells
  <2> QED BY <1>0, <2>1, <2>5, <2>6 DEF CommandInv, KeysAreFiles, PrintedIsOfNumbers
<1> QED BY <1>1, <1>2, <1>3 DEF CommandNext

LEMMA CommandInvAlways == CommandSpec => []CommandInv
<1>1. CommandInit => CommandInv
  BY DEF CommandInit, CommandInv, KeysAreFiles, SettledAreAccepted, PrintedIsOfNumbers,
         OffChainForetells
<1>2. ASSUME CommandInv, UNCHANGED commandVars
      PROVE  CommandInv'
  BY <1>2 DEF commandVars, CommandInv, KeysAreFiles, SettledAreAccepted, PrintedIsOfNumbers,
              OffChainForetells
<1>3. CommandInv /\ [CommandNext]_commandVars => CommandInv'
  BY <1>2, CommandStepInv
<1> QED BY <1>1, <1>3, PTL DEF CommandSpec

-----------------------------------------------------------------------------
\* The order of coordinate parts that the encoders write is the one the host reads,
\* and no signal, proof or key encodes as another's: for any files, the registry
\* answers as verifyOffChain does (proof.ts:18-40, 46-89, 179-223; lib.rs:303-340).
THEOREM OffChainForetellsAlways == CommandSpec => []OffChainForetells
<1>1. CommandInv => OffChainForetells
  BY DEF CommandInv
<1> QED BY <1>1, CommandInvAlways, PTL

\* check-nullifier's own hashes are the contract's: what it prints is found among the
\* registry's nullifiers exactly when the numbers were accepted (cli.ts:221-259).
THEOREM PrintedNullifierAlways == CommandSpec => []PrintedNullifierIsTheRegistrys
<1>1. ASSUME CommandInv
      PROVE  PrintedNullifierIsTheRegistrys
  BY <1>1, NullifierTells DEF CommandInv, PrintedIsOfNumbers, PrintedNullifierIsTheRegistrys
<1> QED BY <1>1, CommandInvAlways, PTL

-----------------------------------------------------------------------------
(* Bundles. *)

(* The inductive invariant: what is in memory and on file has a bundle's       *)
(* fields and a digest of something signed, and the time decode-bundle fills   *)
(* in is in none; and what is said to be made by the SDK is a bundle that      *)
(* createBundle and signBundle return.                                         *)

Known(b) ==
  /\ b = WithDigest(Content(b), b.digest)
  /\ b.digest \in Digests
  /\ b.generatedAt # Later

\* A bundle as createBundle and signBundle leave it, its time not blank.
Own(b) ==
  \E c \in Contents :
    /\ Creatable(c) /\ NonEmpty(CreateBundle(c, Now).generatedAt)
    /\ b = SignBundle(CreateBundle(c, Now))

SignedAreContents == \A c \in signed : Content(c) = c /\ c.generatedAt # Later

BundleInv ==
  /\ SignedAreContents
  /\ bundle # Nothing => Known(bundle)
  /\ file # Nothing => Known(file)
  /\ made /\ bundle # Nothing => Own(bundle)
  /\ genuine => file # Nothing /\ Own(file)

-----------------------------------------------------------------------------
(* The record operators. *)

\* Content forgets only the digest.
LEMMA ContentOfWithDigest ==
  ASSUME NEW c, NEW digest
  PROVE  /\ Content(WithDigest(c, digest)) = Content(c)
         /\ WithDigest(c, digest).digest = digest
         /\ Content(Content(c)) = Content(c)
         /\ WithDigest(Content(c), digest) = WithDigest(c, digest)
         /\ Known(WithDigest(c, digest)) <=> digest \in Digests /\ c.generatedAt # Later
BY DEF Content, WithDigest, Known

\* A signed bundle has the digest of its own content.
LEMMA SignedDigest ==
  ASSUME NEW c
  PROVE  /\ BundleDigest(SignBundle(c)) = BundleDigest(c)
         /\ BundleDigest(Content(c)) = BundleDigest(c)
         /\ SignBundle(c).digest = BundleDigest(c)
         /\ Content(SignBundle(c)) = Content(c)
BY ContentOfWithDigest DEF SignBundle, BundleDigest

\* Digests of contents are no markers, and different for different contents.
LEMMA DigestsFree ==
  ASSUME NEW c
  PROVE  /\ BundleDigest(c) # NoDigest /\ BundleDigest(c) # EmptyDigest
         /\ EmptyDigest # NoDigest
         /\ \A d : BundleDigest(c) = BundleDigest(d) => Content(c) = Content(d)
BY DEF BundleDigest, NoDigest, EmptyDigest

\* createBundle returns the five fields and nothing else.
LEMMA CreateBundleFields ==
  ASSUME NEW c, NEW at
  PROVE  /\ Content(CreateBundle(c, at)) = CreateBundle(c, at)
         /\ CreateBundle(c, at).proof = c.proof
         /\ CreateBundle(c, at).publicSignals = c.publicSignals
         /\ CreateBundle(c, at).circuit = Trim[c.circuit]
         /\ CreateBundle(c, at).generatedAt = IF c.generatedAt = Absent THEN at ELSE c.generatedAt
         /\ CreateBundle(c, at).networkPassphrase = c.networkPassphrase
BY DEF Content, CreateBundle

\* Trimming what is trimmed, and a time that is given, change nothing.
LEMMA CreateBundleAgain ==
  ASSUME NEW c, NEW at, Content(c) = c, Trim[c.circuit] = c.circuit, c.generatedAt # Absent
  PROVE  CreateBundle(c, at) = c
<1>1. c = [proof |-> c.proof, publicSignals |-> c.publicSignals, circuit |-> c.circuit,
           generatedAt |-> c.generatedAt, networkPassphrase |-> c.networkPassphrase]
  BY DEF Content
<1> QED BY <1>1 DEF CreateBundle

\* The library and the command both take what createBundle and signBundle made.
LEMMA OwnIsVerified ==
  ASSUME NEW b, Own(b)
  PROVE  /\ ImportSignedBundle(b) = [bundle |-> b, integrityVerified |-> TRUE]
         /\ DecodeBundle(b)
<1>1. PICK c \in Contents :
        /\ Creatable(c) /\ NonEmpty(CreateBundle(c, Now).generatedAt)
        /\ b = SignBundle(CreateBundle(c, Now))
  BY DEF Own
<1> DEFINE made1 == CreateBundle(c, Now)
<1>2. /\ Content(made1) = made1
      /\ made1.proof = c.proof /\ made1.publicSignals = c.publicSignals
      /\ made1.circuit = Trim[c.circuit] /\ made1.networkPassphrase = c.networkPassphrase
  BY CreateBundleFields
<1>3. /\ c.circuit \in Circuits /\ c.circuit \in Texts
      /\ Trim[c.circuit] \in Circuits /\ Trim[Trim[c.circuit]] = Trim[c.circuit]
      /\ Trim[c.circuit] # Blank /\ Trim[c.circuit] # Absent
  BY <1>1, TrimAssumption, MarkersAssumption DEF Contents, Creatable, NonEmpty, Texts
<1>4. /\ NonEmpty(made1.circuit) /\ NonEmpty(made1.networkPassphrase) /\ Encodable(made1)
      /\ NonEmpty(made1.generatedAt)
  BY <1>1, <1>2, <1>3 DEF Creatable, NonEmpty, Encodable
<1> HIDE DEF made1
<1>5. b = WithDigest(made1, BundleDigest(made1))
  BY <1>1 DEF made1, SignBundle
<1>6. /\ b.proof = made1.proof /\ b.publicSignals = made1.publicSignals
      /\ b.circuit = made1.circuit /\ b.generatedAt = made1.generatedAt
      /\ b.networkPassphrase = made1.networkPassphrase /\ b.digest = BundleDigest(made1)
  BY <1>5 DEF WithDigest
<1>7. Content(b) = made1
  BY <1>2, <1>5, ContentOfWithDigest
<1>8. BundleDigest(b) = BundleDigest(made1)
  BY <1>2, <1>7 DEF BundleDigest
<1>9. b.digest = BundleDigest(b) /\ b.digest # NoDigest /\ b.digest # EmptyDigest
  BY <1>6, <1>8, DigestsFree
<1>10. TextsPresent(b) /\ Encodable(b)
  BY <1>4, <1>6 DEF TextsPresent, Encodable
<1>11. ValidateBundleShape(b) /\ VerifyBundleIntegrity(b)
  BY <1>9, <1>10 DEF ValidateBundleShape, VerifyBundleIntegrity, Encodable
<1>12. Creatable(Content(b))
  BY <1>4, <1>7 DEF Creatable
<1>13. CreateBundle(Content(b), Later) = made1
  BY <1>2, <1>3, <1>4, <1>7, CreateBundleAgain DEF NonEmpty
<1> QED
  BY <1>5, <1>6, <1>9, <1>11, <1>12, <1>13 DEF ImportSignedBundle, DecodeBundle

-----------------------------------------------------------------------------
(* The invariant. *)

\* The first state satisfies the invariant.
LEMMA BundleInitInv == BundleInit => BundleInv
BY DEF BundleInit, BundleInv, SignedAreContents

\* Signing more keeps what is known.
LEMMA KnownMonotone ==
  ASSUME signed \subseteq signed', NEW b, Known(b)
  PROVE  Known(b)'
BY DEF Known, Digests

\* Signing a content puts its digest among the known ones.
LEMMA SignedIsKnown ==
  ASSUME NEW c, Content(c) \in signed', c.generatedAt # Later
  PROVE  Known(SignBundle(c))'
<1>1. BundleDigest(c) \in Digests'
  BY SignedDigest DEF Digests
<1> QED BY <1>1 DEF Known, SignBundle, WithDigest, Content

\* Every step keeps the invariant.
LEMMA BundleNextInv == BundleInv /\ [BundleNext]_bundleVars => BundleInv'
<1> SUFFICES ASSUME BundleInv, [BundleNext]_bundleVars PROVE BundleInv'
  OBVIOUS
<1>1. ASSUME NEW c \in Contents, Sign(c) PROVE BundleInv'
  <2> DEFINE m == CreateBundle(c, Now)
  <2>1. Content(m) = m /\ m.generatedAt # Later
    BY CreateBundleFields, MarkersAssumption DEF Contents
  <2>2. /\ Creatable(c) /\ signed' = signed \cup {m} /\ bundle' = SignBundle(m)
        /\ made' = NonEmpty(m.generatedAt) /\ file' = file /\ genuine' = genuine
    BY <1>1 DEF Sign
  <2>3. SignedAreContents'
    BY <2>1, <2>2 DEF BundleInv, SignedAreContents
  <2>4. Known(bundle)'
    BY <2>1, <2>2, SignedIsKnown
  <2>5. file' # Nothing => Known(file)'
    BY <2>2, KnownMonotone DEF BundleInv
  <2>6. made' => Own(bundle)'
    BY <2>2 DEF Own
  <2>7. genuine' => file' # Nothing /\ Own(file)'
    BY <2>2 DEF BundleInv, Own
  <2> QED BY <2>3, <2>4, <2>5, <2>6, <2>7 DEF BundleInv
<1>2. CASE Export
  <2>1. /\ Known(bundle) /\ (made => Own(bundle)) /\ bundle # Nothing
        /\ signed' = signed /\ made' = made /\ bundle' = Nothing
    BY <1>2 DEF Export, BundleInv
  <2>2. CASE file' = bundle /\ genuine' = made
    BY <2>1, <2>2 DEF BundleInv, SignedAreContents, Known, Digests, Own
  <2>3. CASE file' = WithDigest(bundle, NoDigest) /\ genuine' = FALSE
    <3>1. NoDigest \in Digests /\ bundle.generatedAt # Later
      BY <2>1 DEF Digests, Known
    <3>2. Known(file')
      BY <2>3, <3>1, ContentOfWithDigest
    <3>3. Known(file)'
      BY <2>1, <3>2, KnownMonotone
    <3> QED BY <2>1, <2>3, <3>3 DEF BundleInv, SignedAreContents
  <2> QED BY <1>2, <2>2, <2>3 DEF Export
<1>3. CASE EditFile
  <2>1. /\ Known(file) /\ file # Nothing /\ bundle' = bundle /\ signed' = signed /\ made' = made
        /\ genuine' = FALSE
    BY <1>3 DEF EditFile, BundleInv
  <2>2. file = [proof |-> file.proof, publicSignals |-> file.publicSignals,
                circuit |-> file.circuit, generatedAt |-> file.generatedAt,
                networkPassphrase |-> file.networkPassphrase, digest |-> file.digest]
        /\ file.digest \in Digests /\ file.generatedAt # Later
    BY <2>1 DEF Known, WithDigest, Content
  <2>3. Known(file')
    <3>1. CASE \E v \in Proofs : file' = [file EXCEPT !.proof = v]
      BY <2>2, <3>1 DEF Known, WithDigest, Content
    <3>2. CASE \E v \in Signals : file' = [file EXCEPT !.publicSignals = v]
      BY <2>2, <3>2 DEF Known, WithDigest, Content
    <3>3. CASE \E v \in Circuits \cup {Absent} : file' = [file EXCEPT !.circuit = v]
      BY <2>2, <3>3 DEF Known, WithDigest, Content
    <3>4. CASE \E t \in Times \cup {Absent} : file' = [file EXCEPT !.generatedAt = t]
      <4>1. \A t \in Times \cup {Absent} : t # Later
        BY MarkersAssumption DEF Texts
      <4> QED BY <2>2, <3>4, <4>1 DEF Known, WithDigest, Content
    <3>5. CASE \E n \in Networks \cup {Absent} : file' = [file EXCEPT !.networkPassphrase = n]
      BY <2>2, <3>5 DEF Known, WithDigest, Content
    <3>6. CASE \E d \in Digests : file' = [file EXCEPT !.digest = d]
      BY <2>2, <3>6 DEF Known, WithDigest, Content
    <3> QED BY <1>3, <3>1, <3>2, <3>3, <3>4, <3>5, <3>6 DEF EditFile
  <2>4. Known(file)'
    BY <2>1, <2>3, KnownMonotone
  <2> QED
    BY <2>1, <2>4, KnownMonotone DEF BundleInv, SignedAreContents, Own
<1>4. CASE Import
  <2> DEFINE answer == ImportSignedBundle(file)
  <2>1. /\ Known(file) /\ file # Nothing /\ file' = file /\ genuine' = genuine /\ made' = genuine
        /\ answer # Refused /\ bundle' = answer.bundle
        /\ signed' = IF answer.integrityVerified THEN signed ELSE signed \cup {Content(file)}
    BY <1>4 DEF Import, BundleInv
  <2>2. SignedAreContents'
    <3>1. Content(file).generatedAt = file.generatedAt /\ file.generatedAt # Later
      BY <2>1 DEF Content, Known
    <3> QED BY <2>1, <3>1, ContentOfWithDigest DEF BundleInv, SignedAreContents
  <2>3. \/ answer = [bundle |-> file, integrityVerified |-> TRUE]
        \/ answer = [bundle |-> SignBundle(file), integrityVerified |-> FALSE]
    BY <2>1 DEF ImportSignedBundle
  <2> HIDE DEF answer
  <2>4. Known(file)'
    BY <2>1, KnownMonotone
  <2>5. Known(bundle)'
    <3>1. CASE answer = [bundle |-> file, integrityVerified |-> TRUE]
      BY <2>1, <2>4, <3>1 DEF Known, Digests
    <3>2. CASE answer = [bundle |-> SignBundle(file), integrityVerified |-> FALSE]
      <4>1. file.generatedAt # Later
        BY <2>1 DEF Known
      <4> QED BY <2>1, <3>2, <4>1, SignedIsKnown DEF Known, Digests
    <3> QED BY <2>3, <3>1, <3>2
  <2>6. made' => Own(bundle)'
    BY <2>1, OwnIsVerified DEF BundleInv, answer, Own
  <2>7. genuine' => file' # Nothing /\ Own(file)'
    BY <2>1 DEF BundleInv, Own
  <2> QED BY <2>2, <2>4, <2>5, <2>6, <2>7 DEF BundleInv
<1>5. CASE UNCHANGED bundleVars
  BY <1>5 DEF bundleVars, BundleInv, SignedAreContents, Known, Digests, Own
<1> QED BY <1>1, <1>2, <1>3, <1>4, <1>5 DEF BundleNext

\* The invariant holds in every state.
LEMMA BundleInvAlways == BundleSpec => []BundleInv
BY BundleInitInv, BundleNextInv, PTL DEF BundleSpec

-----------------------------------------------------------------------------
\* Import reports integrity only of a content that was signed as a whole.
THEOREM VerifiedWasSignedAlways == BundleSpec => []VerifiedWasSigned
<1>1. BundleInv => VerifiedWasSigned
  <2> SUFFICES ASSUME BundleInv, file # Nothing, ImportSignedBundle(file).integrityVerified
               PROVE  Content(file) \in signed
    BY DEF VerifiedWasSigned
  <2>1. file.digest \in Digests
    BY DEF BundleInv, Known
  <2>2. file.digest # NoDigest /\ VerifyBundleIntegrity(file)
    BY DEF ImportSignedBundle, Refused
  <2>3. file.digest = BundleDigest(file)
    BY <2>2 DEF VerifyBundleIntegrity
  <2>4. PICK c \in signed : BundleDigest(file) = BundleDigest(c)
    BY <2>1, <2>3, DigestsFree DEF Digests
  <2> QED BY <2>4, DigestsFree DEF BundleInv, SignedAreContents
<1> QED BY <1>1, BundleInvAlways, PTL

\* A bundle of the SDK's own comes through every export and import unchanged.
THEOREM OwnBundlesRoundTripAlways == BundleSpec => []OwnBundlesRoundTrip
<1>1. BundleInv => OwnBundlesRoundTrip
  BY OwnIsVerified DEF BundleInv, OwnBundlesRoundTrip
<1> QED BY <1>1, BundleInvAlways, PTL

\* What integrity says depends on the fields alone.
LEMMA IntegrityOfFields ==
  ASSUME NEW b
  PROVE  VerifyBundleIntegrity(WithDigest(Content(b), b.digest)) <=> VerifyBundleIntegrity(b)
<1> DEFINE d == WithDigest(Content(b), b.digest)
<1>1. /\ d.proof = b.proof /\ d.publicSignals = b.publicSignals /\ d.circuit = b.circuit
      /\ d.generatedAt = b.generatedAt /\ d.networkPassphrase = b.networkPassphrase
      /\ d.digest = b.digest
  BY DEF WithDigest, Content
<1>2. Content(d) = Content(b)
  BY ContentOfWithDigest
<1> HIDE DEF d
<1>3. BundleDigest(d) = BundleDigest(b)
  BY <1>2 DEF BundleDigest
<1>4. (TextsPresent(d) <=> TextsPresent(b)) /\ (Encodable(d) <=> Encodable(b))
  BY <1>1 DEF TextsPresent, Encodable
<1>5. VerifyBundleIntegrity(d) <=> VerifyBundleIntegrity(b)
  BY <1>1, <1>3, <1>4, Zenon DEF VerifyBundleIntegrity
<1> QED BY <1>5 DEF d

\* A digest that is no marker is that of a content that was signed.
LEMMA SoundWasSigned ==
  ASSUME BundleInv, NEW b, b.digest \in Digests, b.digest # NoDigest, VerifyBundleIntegrity(b)
  PROVE  Content(b) \in signed
<1>1. b.digest = BundleDigest(b)
  BY DEF VerifyBundleIntegrity
<1>2. PICK c \in signed : BundleDigest(b) = BundleDigest(c)
  BY <1>1, DigestsFree DEF Digests
<1> QED BY <1>2, DigestsFree DEF BundleInv, SignedAreContents

\* Of a file with its digest, decode-bundle checks the trimmed copy: a time that is
\* missing it fills in with one that was never signed.
LEMMA DecodeIsOfTrimmed ==
  ASSUME BundleInv, file # Nothing, file.digest \notin {NoDigest, EmptyDigest}
  PROVE  DecodeBundle(file) <=> VerifyBundleIntegrity(Trimmed(file))
<1> DEFINE d == WithDigest(CreateBundle(Content(file), Later), file.digest)
           t == Trimmed(file)
<1>1. /\ Content(file).proof = file.proof /\ Content(file).publicSignals = file.publicSignals
      /\ Content(file).circuit = file.circuit /\ Content(file).generatedAt = file.generatedAt
      /\ Content(file).networkPassphrase = file.networkPassphrase
  BY DEF Content
<1>2. /\ d.proof = file.proof /\ d.publicSignals = file.publicSignals
      /\ d.circuit = Trim[file.circuit]
      /\ d.generatedAt = IF file.generatedAt = Absent THEN Later ELSE file.generatedAt
      /\ d.networkPassphrase = file.networkPassphrase /\ d.digest = file.digest
  BY <1>1, CreateBundleFields DEF WithDigest
<1>3. DecodeBundle(file) <=> Creatable(Content(file)) /\ VerifyBundleIntegrity(d)
  BY DEF DecodeBundle
<1>4. /\ file = WithDigest(Content(file), file.digest) /\ file.digest \in Digests
      /\ file.generatedAt # Later
  BY DEF BundleInv, Known
<1>5. /\ t.proof = file.proof /\ t.publicSignals = file.publicSignals
      /\ t.circuit = IF file.circuit = Absent THEN Absent ELSE Trim[file.circuit]
      /\ t.generatedAt = file.generatedAt /\ t.networkPassphrase = file.networkPassphrase
      /\ t.digest = file.digest
  <2>1. file = [proof |-> file.proof, publicSignals |-> file.publicSignals,
                circuit |-> file.circuit, generatedAt |-> file.generatedAt,
                networkPassphrase |-> file.networkPassphrase, digest |-> file.digest]
    BY <1>4 DEF WithDigest, Content
  <2> QED BY <2>1 DEF Trimmed
<1> HIDE DEF d, t
<1>6. CASE file.generatedAt = Absent
  <2>1. ~VerifyBundleIntegrity(t)
    BY <1>5, <1>6 DEF VerifyBundleIntegrity, TextsPresent, NonEmpty
  <2>2. ASSUME VerifyBundleIntegrity(d) PROVE FALSE
    <3>1. Content(d) \in signed
      BY <1>2, <1>4, <2>2, SoundWasSigned
    <3>2. Content(d).generatedAt = Later
      BY <1>2, <1>6 DEF Content
    <3> QED BY <3>1, <3>2 DEF BundleInv, SignedAreContents
  <2> QED BY <1>3, <2>1, <2>2 DEF t
<1>7. CASE file.circuit = Absent
  <2>1. ~VerifyBundleIntegrity(t)
    BY <1>5, <1>7 DEF VerifyBundleIntegrity, TextsPresent, NonEmpty
  <2>2. ~Creatable(Content(file))
    BY <1>1, <1>7 DEF Creatable, NonEmpty
  <2> QED BY <1>3, <2>1, <2>2 DEF t
<1>8. CASE file.generatedAt # Absent /\ file.circuit # Absent
  <2>1. /\ d.circuit = t.circuit /\ d.generatedAt = t.generatedAt /\ d.proof = t.proof
        /\ d.publicSignals = t.publicSignals /\ d.networkPassphrase = t.networkPassphrase
        /\ d.digest = t.digest
    BY <1>2, <1>5, <1>8
  <2>2. BundleDigest(d) = BundleDigest(t)
    BY <2>1 DEF BundleDigest, Content
  <2>3. (TextsPresent(d) <=> TextsPresent(t)) /\ (Encodable(d) <=> Encodable(t))
    BY <2>1 DEF TextsPresent, Encodable
  <2>4. VerifyBundleIntegrity(d) <=> VerifyBundleIntegrity(t)
    BY <2>1, <2>2, <2>3, Zenon DEF VerifyBundleIntegrity
  <2>5. VerifyBundleIntegrity(d) => Creatable(Content(file))
    <3>1. ASSUME NonEmpty(d.circuit) PROVE NonEmpty(file.circuit)
      BY <1>2, <1>8, <3>1, TrimAssumption DEF NonEmpty
    <3> QED BY <1>1, <1>2, <3>1 DEF VerifyBundleIntegrity, TextsPresent, Encodable, Creatable
  <2> QED BY <1>3, <2>4, <2>5 DEF t
<1> QED BY <1>6, <1>7, <1>8

\* What decode-bundle says of a file with a digest is what import says of it
\* trimmed: it was signed; and of a bundle import verifies they differ only by the
\* outer spaces of its name.
THEOREM CommandAgreesWithImportAlways == BundleSpec => []CommandAgreesWithImport
<1>1. ASSUME BundleInv, file # Nothing, file.digest \notin {NoDigest, EmptyDigest}
      PROVE  /\ DecodeBundle(file) <=> ImportSignedBundle(Trimmed(file)).integrityVerified
             /\ DecodeBundle(file) => Content(Trimmed(file)) \in signed
             /\ ImportSignedBundle(file).integrityVerified
                  => (DecodeBundle(file) <=> Trim[file.circuit] = file.circuit)
  <2>1. DecodeBundle(file) <=> VerifyBundleIntegrity(Trimmed(file))
    BY <1>1, DecodeIsOfTrimmed
  <2>2. file = WithDigest(Content(file), file.digest) /\ file.digest \in Digests
    BY <1>1 DEF BundleInv, Known
  <2>3. /\ Trimmed(file).digest = file.digest
        /\ file.circuit # Absent => /\ Trimmed(file).circuit = Trim[file.circuit]
                                    /\ Content(Trimmed(file)).circuit = Trim[file.circuit]
        /\ file.circuit # Absent /\ Trim[file.circuit] = file.circuit => Trimmed(file) = file
    <3>1. file = [proof |-> file.proof, publicSignals |-> file.publicSignals,
                  circuit |-> file.circuit, generatedAt |-> file.generatedAt,
                  networkPassphrase |-> file.networkPassphrase, digest |-> file.digest]
      BY <2>2 DEF WithDigest, Content
    <3> QED BY <3>1 DEF Trimmed, Content
  <2>4. \A b : b.digest # NoDigest =>
          (ImportSignedBundle(b).integrityVerified
             <=> ValidateBundleShape(b) /\ VerifyBundleIntegrity(b))
    BY DEF ImportSignedBundle, Refused
  <2>5. \A b : VerifyBundleIntegrity(b) => ValidateBundleShape(b)
    BY DEF VerifyBundleIntegrity, ValidateBundleShape, TextsPresent, Encodable
  <2>6. DecodeBundle(file) <=> ImportSignedBundle(Trimmed(file)).integrityVerified
    BY <1>1, <2>1, <2>3, <2>4, <2>5
  <2>7. DecodeBundle(file) => Content(Trimmed(file)) \in signed
    BY <1>1, <2>1, <2>2, <2>3, SoundWasSigned
  <2>8. ASSUME ImportSignedBundle(file).integrityVerified
        PROVE  DecodeBundle(file) <=> Trim[file.circuit] = file.circuit
    <3>1. VerifyBundleIntegrity(file) /\ file.circuit # Absent
      BY <1>1, <2>4, <2>8 DEF ValidateBundleShape, TextsPresent, NonEmpty
    <3>2. Trim[file.circuit] = file.circuit => DecodeBundle(file)
      BY <2>1, <2>3, <3>1
    <3>3. ASSUME DecodeBundle(file) PROVE Trim[file.circuit] = file.circuit
      <4>1. BundleDigest(Trimmed(file)) = BundleDigest(file)
        BY <1>1, <2>1, <2>3, <3>1, <3>3 DEF VerifyBundleIntegrity
      <4>2. Content(Trimmed(file)) = Content(file)
        BY <4>1, DigestsFree
      <4>3. Content(file).circuit = file.circuit
        BY DEF Content
      <4> QED BY <2>3, <3>1, <4>2, <4>3
    <3> QED BY <3>2, <3>3
  <2> QED BY <2>6, <2>7, <2>8
<1>2. ASSUME file.digest = EmptyDigest PROVE ImportSignedBundle(file) = Refused
  <2>1. file.digest # NoDigest /\ file.digest # BundleDigest(file)
    BY <1>2, DigestsFree
  <2> QED BY <2>1 DEF ImportSignedBundle, VerifyBundleIntegrity
<1>3. BundleInv => CommandAgreesWithImport
  BY <1>1, <1>2 DEF CommandAgreesWithImport
<1> QED BY <1>3, BundleInvAlways, PTL

=============================================================================
