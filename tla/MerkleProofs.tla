---------------------------- MODULE MerkleProofs ----------------------------
(* Theorems about MerkleTree, for trees of every depth: the tree, the proofs  *)
(* it gives and the circuit agree, by induction over the levels.              *)
EXTENDS MerkleTree, NaturalsInduction, WellFoundedInduction, TLAPS

-----------------------------------------------------------------------------
(* Induction, by least elements of sets of numbers. *)

\* A set of natural numbers that is not empty has a least element.
LEMMA LeastElement ==
  ASSUME NEW T, T \subseteq Nat, T # {}
  PROVE  \E m \in T : \A k \in T : m <= k
<1>1. \E x \in T : \A y \in T : ~(<<y, x>> \in OpToRel(<, Nat))
  BY NatLessThanWellFounded, WFMin, Zenon
<1>2. \A x, y \in Nat : y < x => <<y, x>> \in OpToRel(<, Nat)
  BY DEF OpToRel
<1>3. PICK m \in T : \A k \in T : ~(<<k, m>> \in OpToRel(<, Nat))
  BY <1>1, Zenon
<1>4. \A k \in T : ~(k < m)
  BY <1>2, <1>3
<1>5. \A k \in T : m <= k
  BY <1>4
<1> QED BY <1>5

\* A set with 0 that is closed under successors up to n holds 0..n.
LEMMA InductionUpTo ==
  ASSUME NEW n \in Nat, NEW T, 0 \in T,
         \A k \in 0..n : k \in T /\ k < n => k + 1 \in T
  PROVE  \A k \in 0..n : k \in T
<1> DEFINE U == {k \in 0..n : k \notin T}
<1> SUFFICES ASSUME U # {} PROVE FALSE
  OBVIOUS
<1>1. PICK m \in U : \A k \in U : m <= k
  <2>1. U \subseteq Nat
    OBVIOUS
  <2> HIDE DEF U
  <2> QED BY <2>1, LeastElement
<1>2. m # 0 /\ m \in 0..n
  OBVIOUS
<1>3. m - 1 \in 0..n /\ m - 1 \in T
  <2>1. m - 1 \notin U
    BY <1>1, <1>2
  <2> QED BY <1>2, <2>1
<1> QED BY <1>2, <1>3

\* A set with n that is closed under predecessors holds 0..n.
LEMMA InductionDownFrom ==
  ASSUME NEW n \in Nat, NEW T, n \in T,
         \A k \in 0..n : k + 1 \in T /\ k < n => k \in T
  PROVE  \A k \in 0..n : k \in T
<1> DEFINE U == {k \in 0..n : n - k \in T}
<1>1. 0 \in U
  OBVIOUS
<1>2. \A k \in 0..n : k \in U /\ k < n => k + 1 \in U
  <2> SUFFICES ASSUME NEW k \in 0..n, k \in U, k < n PROVE k + 1 \in U
    OBVIOUS
  <2>1. n - (k + 1) \in 0..n /\ (n - (k + 1)) + 1 = n - k /\ n - (k + 1) < n
    OBVIOUS
  <2>2. n - (k + 1) \in T
    BY <2>1
  <2> QED BY <2>2
<1>3. \A k \in 0..n : k \in U
  <2> HIDE DEF U
  <2> QED BY <1>1, <1>2, InductionUpTo
<1>4. \A k \in 0..n : n - k \in 0..n /\ n - (n - k) = k
  OBVIOUS
<1> QED BY <1>3, <1>4

-----------------------------------------------------------------------------
(* The recursions over the levels have solutions, so they say what they seem to. *)

\* LevelWidth doubles from level to level.
LEMMA LevelWidthDef ==
  \A k \in 0..Depth :
           LevelWidth[k] = IF k = 0 THEN 1 ELSE 2 * LevelWidth[k - 1]
<1> DEFINE Turn(before, k) == 2 * before
           P(f, n) == f = [k \in 0..n |-> IF k = 0 THEN 1 ELSE Turn(f[k - 1], k)]
           T == {n \in Nat : \E f : P(f, n)}
<1>1. LevelWidth = CHOOSE f : P(f, Depth)
  BY DEF LevelWidth
<1> HIDE DEF Turn
<1>2. 0 \in T
  <2> DEFINE f == [k \in 0..0 |-> 1]
  <2>1. P(f, 0)
    OBVIOUS
  <2> QED BY <2>1
<1>3. ASSUME NEW n \in Nat, NEW f, P(f, n) PROVE \E g : P(g, n + 1)
  <2> DEFINE g == [k \in 0..(n + 1) |-> IF k \in 0..n THEN f[k] ELSE Turn(f[n], n + 1)]
  <2>1. \A k \in 0..(n + 1) : g[k] = IF k = 0 THEN 1 ELSE Turn(g[k - 1], k)
    <3> TAKE k \in 0..(n + 1)
    <3>1. CASE k = 0
      BY <1>3, <3>1
    <3>2. CASE k \in 1..n
      <4>1. k - 1 \in 0..n /\ k - 1 \in 0..(n + 1) /\ k \in 0..n
        BY <3>2
      <4>2. g[k] = f[k] /\ g[k - 1] = f[k - 1]
        BY <4>1
      <4> QED BY <1>3, <3>2, <4>1, <4>2
    <3>3. CASE k = n + 1
      <4>1. k - 1 \in 0..(n + 1) /\ ~(k \in 0..n) /\ k # 0 /\ k - 1 = n
        BY <3>3
      <4>2. g[k] = Turn(f[n], n + 1) /\ g[k - 1] = f[n]
        BY <4>1
      <4> QED BY <3>3, <4>1, <4>2
    <3> QED BY <3>1, <3>2, <3>3
  <2>2. P(g, n + 1)
    BY <2>1
  <2> QED BY <2>2
<1>4. \E f : P(f, Depth)
  <2> HIDE DEF P
  <2>1. \A n \in Nat : n \in T <=> \E f : P(f, n)
    OBVIOUS
  <2>2. \A n \in Nat : n \in T => n + 1 \in T
    BY <1>3, <2>1
  <2> HIDE DEF T
  <2>3. Depth \in T
    BY <1>2, <2>2, InductionUpTo, DepthAssumption
  <2> QED BY <2>1, <2>3, DepthAssumption
<1>5. P(LevelWidth, Depth)
  <2> HIDE DEF P
  <2> QED BY <1>1, <1>4, Zenon
<1> QED BY <1>5 DEF Turn

\* The index of a leaf is halved from level to level.
LEMMA AncestorsDef ==
  ASSUME NEW i
  PROVE  \A k \in 0..Depth :
           Ancestors(i)[k] = IF k = 0 THEN i ELSE (Ancestors(i)[k - 1] \div 2)
<1> DEFINE Turn(before, k) == (before \div 2)
           P(f, n) == f = [k \in 0..n |-> IF k = 0 THEN i ELSE Turn(f[k - 1], k)]
           T == {n \in Nat : \E f : P(f, n)}
<1>1. Ancestors(i) = CHOOSE f : P(f, Depth)
  BY DEF Ancestors
<1> HIDE DEF Turn
<1>2. 0 \in T
  <2> DEFINE f == [k \in 0..0 |-> i]
  <2>1. P(f, 0)
    OBVIOUS
  <2> QED BY <2>1
<1>3. ASSUME NEW n \in Nat, NEW f, P(f, n) PROVE \E g : P(g, n + 1)
  <2> DEFINE g == [k \in 0..(n + 1) |-> IF k \in 0..n THEN f[k] ELSE Turn(f[n], n + 1)]
  <2>1. \A k \in 0..(n + 1) : g[k] = IF k = 0 THEN i ELSE Turn(g[k - 1], k)
    <3> TAKE k \in 0..(n + 1)
    <3>1. CASE k = 0
      BY <1>3, <3>1
    <3>2. CASE k \in 1..n
      <4>1. k - 1 \in 0..n /\ k - 1 \in 0..(n + 1) /\ k \in 0..n
        BY <3>2
      <4>2. g[k] = f[k] /\ g[k - 1] = f[k - 1]
        BY <4>1
      <4> QED BY <1>3, <3>2, <4>1, <4>2
    <3>3. CASE k = n + 1
      <4>1. k - 1 \in 0..(n + 1) /\ ~(k \in 0..n) /\ k # 0 /\ k - 1 = n
        BY <3>3
      <4>2. g[k] = Turn(f[n], n + 1) /\ g[k - 1] = f[n]
        BY <4>1
      <4> QED BY <3>3, <4>1, <4>2
    <3> QED BY <3>1, <3>2, <3>3
  <2>2. P(g, n + 1)
    BY <2>1
  <2> QED BY <2>2
<1>4. \E f : P(f, Depth)
  <2> HIDE DEF P
  <2>1. \A n \in Nat : n \in T <=> \E f : P(f, n)
    OBVIOUS
  <2>2. \A n \in Nat : n \in T => n + 1 \in T
    BY <1>3, <2>1
  <2> HIDE DEF T
  <2>3. Depth \in T
    BY <1>2, <2>2, InductionUpTo, DepthAssumption
  <2> QED BY <2>1, <2>3, DepthAssumption
<1>5. P(Ancestors(i), Depth)
  <2> HIDE DEF P
  <2> QED BY <1>1, <1>4, Zenon
<1> QED BY <1>5 DEF Turn

\* A layer pairs the nodes of the one below.
Paired(layer, d) ==
  [i \in 0..LevelWidth[Depth - d] - 1 |-> Poseidon(layer[2 * i], layer[2 * i + 1])]
LEMMA LayersDef ==
  ASSUME NEW padded
  PROVE  \A k \in 0..Depth :
           Layers(padded)[k] = IF k = 0 THEN padded ELSE Paired(Layers(padded)[k - 1], k)
<1> DEFINE Turn(before, k) == Paired(before, k)
           P(f, n) == f = [k \in 0..n |-> IF k = 0 THEN padded ELSE Turn(f[k - 1], k)]
           T == {n \in Nat : \E f : P(f, n)}
<1>1. Layers(padded) = CHOOSE f : P(f, Depth)
  BY DEF Layers, Paired
<1> HIDE DEF Turn
<1>2. 0 \in T
  <2> DEFINE f == [k \in 0..0 |-> padded]
  <2>1. P(f, 0)
    OBVIOUS
  <2> QED BY <2>1
<1>3. ASSUME NEW n \in Nat, NEW f, P(f, n) PROVE \E g : P(g, n + 1)
  <2> DEFINE g == [k \in 0..(n + 1) |-> IF k \in 0..n THEN f[k] ELSE Turn(f[n], n + 1)]
  <2>1. \A k \in 0..(n + 1) : g[k] = IF k = 0 THEN padded ELSE Turn(g[k - 1], k)
    <3> TAKE k \in 0..(n + 1)
    <3>1. CASE k = 0
      BY <1>3, <3>1
    <3>2. CASE k \in 1..n
      <4>1. k - 1 \in 0..n /\ k - 1 \in 0..(n + 1) /\ k \in 0..n
        BY <3>2
      <4>2. g[k] = f[k] /\ g[k - 1] = f[k - 1]
        BY <4>1
      <4> QED BY <1>3, <3>2, <4>1, <4>2
    <3>3. CASE k = n + 1
      <4>1. k - 1 \in 0..(n + 1) /\ ~(k \in 0..n) /\ k # 0 /\ k - 1 = n
        BY <3>3
      <4>2. g[k] = Turn(f[n], n + 1) /\ g[k - 1] = f[n]
        BY <4>1
      <4> QED BY <3>3, <4>1, <4>2
    <3> QED BY <3>1, <3>2, <3>3
  <2>2. P(g, n + 1)
    BY <2>1
  <2> QED BY <2>2
<1>4. \E f : P(f, Depth)
  <2> HIDE DEF P
  <2>1. \A n \in Nat : n \in T <=> \E f : P(f, n)
    OBVIOUS
  <2>2. \A n \in Nat : n \in T => n + 1 \in T
    BY <1>3, <2>1
  <2> HIDE DEF T
  <2>3. Depth \in T
    BY <1>2, <2>2, InductionUpTo, DepthAssumption
  <2> QED BY <2>1, <2>3, DepthAssumption
<1>5. P(Layers(padded), Depth)
  <2> HIDE DEF P
  <2> QED BY <1>1, <1>4, Zenon
<1> QED BY <1>5 DEF Turn

\* A level hash is of the one below and its path element, in the order of the bit.
Switched(hash, element, s) ==
  LET out == DualMux(<<hash, element>>, s) IN Poseidon(out[1], out[2])
LEMMA LevelHashesDef ==
  ASSUME NEW leaf, NEW pathElements, NEW pathIndices
  PROVE  \A k \in 0..Depth :
           LevelHashes(leaf, pathElements, pathIndices)[k] =
             IF k = 0 THEN leaf
             ELSE Switched(LevelHashes(leaf, pathElements, pathIndices)[k - 1],
                           pathElements[k - 1], pathIndices[k - 1])
<1> DEFINE Turn(before, k) == Switched(before, pathElements[k - 1], pathIndices[k - 1])
           P(f, n) == f = [k \in 0..n |-> IF k = 0 THEN leaf ELSE Turn(f[k - 1], k)]
           T == {n \in Nat : \E f : P(f, n)}
<1>1. LevelHashes(leaf, pathElements, pathIndices) = CHOOSE f : P(f, Depth)
  BY DEF LevelHashes, Switched
<1> HIDE DEF Turn
<1>2. 0 \in T
  <2> DEFINE f == [k \in 0..0 |-> leaf]
  <2>1. P(f, 0)
    OBVIOUS
  <2> QED BY <2>1
<1>3. ASSUME NEW n \in Nat, NEW f, P(f, n) PROVE \E g : P(g, n + 1)
  <2> DEFINE g == [k \in 0..(n + 1) |-> IF k \in 0..n THEN f[k] ELSE Turn(f[n], n + 1)]
  <2>1. \A k \in 0..(n + 1) : g[k] = IF k = 0 THEN leaf ELSE Turn(g[k - 1], k)
    <3> TAKE k \in 0..(n + 1)
    <3>1. CASE k = 0
      BY <1>3, <3>1
    <3>2. CASE k \in 1..n
      <4>1. k - 1 \in 0..n /\ k - 1 \in 0..(n + 1) /\ k \in 0..n
        BY <3>2
      <4>2. g[k] = f[k] /\ g[k - 1] = f[k - 1]
        BY <4>1
      <4> QED BY <1>3, <3>2, <4>1, <4>2
    <3>3. CASE k = n + 1
      <4>1. k - 1 \in 0..(n + 1) /\ ~(k \in 0..n) /\ k # 0 /\ k - 1 = n
        BY <3>3
      <4>2. g[k] = Turn(f[n], n + 1) /\ g[k - 1] = f[n]
        BY <4>1
      <4> QED BY <3>3, <4>1, <4>2
    <3> QED BY <3>1, <3>2, <3>3
  <2>2. P(g, n + 1)
    BY <2>1
  <2> QED BY <2>2
<1>4. \E f : P(f, Depth)
  <2> HIDE DEF P
  <2>1. \A n \in Nat : n \in T <=> \E f : P(f, n)
    OBVIOUS
  <2>2. \A n \in Nat : n \in T => n + 1 \in T
    BY <1>3, <2>1
  <2> HIDE DEF T
  <2>3. Depth \in T
    BY <1>2, <2>2, InductionUpTo, DepthAssumption
  <2> QED BY <2>1, <2>3, DepthAssumption
<1>5. P(LevelHashes(leaf, pathElements, pathIndices), Depth)
  <2> HIDE DEF P
  <2> QED BY <1>1, <1>4, Zenon
<1> QED BY <1>5 DEF Turn
-----------------------------------------------------------------------------
(* Positions and levels. *)

LEMMA WidthsArePositive ==
  \A k \in 0..Depth : LevelWidth[k] \in Nat \ {0}
<1> DEFINE T == {k \in 0..Depth : LevelWidth[k] \in Nat \ {0}}
<1>1. 0 \in T
  BY LevelWidthDef, DepthAssumption
<1>2. \A k \in 0..Depth : k \in T /\ k < Depth => k + 1 \in T
  <2> SUFFICES ASSUME NEW k \in 0..Depth, LevelWidth[k] \in Nat \ {0}, k < Depth
               PROVE  k + 1 \in 0..Depth /\ LevelWidth[k + 1] \in Nat \ {0}
    OBVIOUS
  <2>1. k + 1 \in 0..Depth /\ k + 1 # 0 /\ (k + 1) - 1 = k
    BY DepthAssumption
  <2>2. LevelWidth[k + 1] = 2 * LevelWidth[k]
    BY <2>1, LevelWidthDef
  <2> QED BY <2>1, <2>2
<1>3. \A k \in 0..Depth : k \in T
  <2> HIDE DEF T
  <2> QED BY <1>1, <1>2, InductionUpTo, DepthAssumption
<1> QED BY <1>3

\* Each level is twice as wide as the one above it.
LEMMA WidthOfLevel ==
  ASSUME NEW d \in 0..Depth, d < Depth
  PROVE  /\ d + 1 \in 0..Depth /\ Depth - d \in 0..Depth /\ Depth - (d + 1) \in 0..Depth
         /\ LevelWidth[Depth - d] = 2 * LevelWidth[Depth - (d + 1)]
         /\ LevelWidth[Depth - (d + 1)] \in Nat \ {0}
<1>1. /\ d + 1 \in 0..Depth /\ Depth - d \in 0..Depth /\ Depth - (d + 1) \in 0..Depth
      /\ Depth - d # 0 /\ (Depth - d) - 1 = Depth - (d + 1)
  BY DepthAssumption
<1> QED BY <1>1, LevelWidthDef, WidthsArePositive

LEMMA AncestorSteps ==
  ASSUME NEW i
  PROVE  /\ Ancestor(i, 0) = i
         /\ \A d \in 0..Depth : d < Depth => Ancestor(i, d + 1) = Ancestor(i, d) \div 2
<1>1. 0 \in 0..Depth
  BY DepthAssumption
<1>2. ASSUME NEW d \in 0..Depth, d < Depth
      PROVE  d + 1 \in 0..Depth /\ d + 1 # 0 /\ (d + 1) - 1 = d
  BY <1>2, DepthAssumption
<1> QED BY <1>1, <1>2, AncestorsDef DEF Ancestor

\* A number is its half, doubled, and its last bit.
LEMMA Halves ==
  ASSUME NEW a \in Nat
  PROVE  /\ a \div 2 \in Nat /\ a % 2 \in {0, 1}
         /\ a = (2 * (a \div 2)) + (a % 2)
         /\ \A w \in Nat : a < 2 * w => a \div 2 < w
BY SMT

\* Every ancestor is a node of its layer, and the last one is the root.
LEMMA AncestorInRange ==
  ASSUME NEW i \in Positions
  PROVE  \A d \in 0..Depth : Ancestor(i, d) \in 0..LevelWidth[Depth - d] - 1
<1> DEFINE T == {d \in 0..Depth : Ancestor(i, d) \in 0..LevelWidth[Depth - d] - 1}
<1>1. 0 \in T
  BY AncestorSteps, DepthAssumption DEF Positions, MaxLeaves
<1>2. \A d \in 0..Depth : d \in T /\ d < Depth => d + 1 \in T
  <2> SUFFICES ASSUME NEW d \in 0..Depth, d < Depth,
                      Ancestor(i, d) \in 0..LevelWidth[Depth - d] - 1
               PROVE  /\ d + 1 \in 0..Depth
                      /\ Ancestor(i, d + 1) \in 0..LevelWidth[Depth - (d + 1)] - 1
    OBVIOUS
  <2> DEFINE a == Ancestor(i, d)
             w == LevelWidth[Depth - (d + 1)]
  <2>1. d + 1 \in 0..Depth /\ w \in Nat \ {0} /\ a \in 0..(2 * w) - 1
    BY WidthOfLevel
  <2>2. Ancestor(i, d + 1) = a \div 2
    BY AncestorSteps
  <2> HIDE DEF a, w
  <2>3. a \in Nat /\ a < 2 * w
    BY <2>1
  <2>4. a \div 2 \in Nat /\ a \div 2 < w
    BY <2>1, <2>3, Halves
  <2>5. a \div 2 \in 0..w - 1
    BY <2>1, <2>4
  <2> QED BY <2>1, <2>2, <2>5 DEF w
<1>3. \A d \in 0..Depth : d \in T
  <2> HIDE DEF T
  <2> QED BY <1>1, <1>2, InductionUpTo, DepthAssumption
<1> QED BY <1>3

LEMMA TopAncestor ==
  ASSUME NEW i \in Positions
  PROVE  Ancestor(i, Depth) = 0
<1>1. Depth \in 0..Depth /\ 0 \in 0..Depth /\ Depth - Depth = 0
  BY DepthAssumption
<1>2. LevelWidth[0] = 1
  BY <1>1, LevelWidthDef
<1>3. Ancestor(i, Depth) \in 0..LevelWidth[Depth - Depth] - 1
  BY <1>1, AncestorInRange
<1> QED BY <1>1, <1>2, <1>3

\* Positions whose paths turn the same way at every level are the same position.
LEMMA BitsDetermine ==
  ASSUME NEW i \in Positions, NEW j \in Positions,
         \A d \in Levels : Ancestor(i, d) % 2 = Ancestor(j, d) % 2
  PROVE  i = j
<1> DEFINE T == {d \in 0..Depth : Ancestor(i, d) = Ancestor(j, d)}
<1>1. Depth \in T
  BY TopAncestor, DepthAssumption
<1>2. \A d \in 0..Depth : d + 1 \in T /\ d < Depth => d \in T
  <2> SUFFICES ASSUME NEW d \in 0..Depth, d < Depth, Ancestor(i, d + 1) = Ancestor(j, d + 1)
               PROVE  Ancestor(i, d) = Ancestor(j, d)
    OBVIOUS
  <2> DEFINE a == Ancestor(i, d)
             b == Ancestor(j, d)
  <2>1. a \div 2 = b \div 2
    <3>1. Ancestor(i, d + 1) = Ancestor(i, d) \div 2
      BY AncestorSteps
    <3>2. Ancestor(j, d + 1) = Ancestor(j, d) \div 2
      BY AncestorSteps
    <3> QED BY <3>1, <3>2
  <2>2. d \in Levels
    BY DepthAssumption DEF Levels
  <2>3. a % 2 = b % 2
    BY <2>2
  <2>4. /\ a \in 0..LevelWidth[Depth - d] - 1 /\ b \in 0..LevelWidth[Depth - d] - 1
        /\ LevelWidth[Depth - d] \in Nat
    BY AncestorInRange, WidthOfLevel, WidthsArePositive
  <2> HIDE DEF a, b
  <2>5. a \in Nat /\ b \in Nat
    BY <2>4
  <2>6. a = (2 * (a \div 2)) + (a % 2) /\ b = (2 * (b \div 2)) + (b % 2)
    BY <2>5, Halves
  <2>7. a = b
    BY <2>1, <2>3, <2>6
  <2> QED BY <2>7 DEF a, b
<1>3. \A d \in 0..Depth : d \in T
  <2> HIDE DEF T
  <2> QED BY <1>1, <1>2, InductionDownFrom, DepthAssumption
<1>4. Ancestor(i, 0) = Ancestor(j, 0)
  BY <1>3, DepthAssumption
<1> QED BY <1>4, AncestorSteps

\* Every way down from the root ends at a position.
LEMMA BitsLead ==
  ASSUME NEW bits \in [Levels -> {0, 1}]
  PROVE  \E i \in Positions : \A d \in Levels : bits[d] = Ancestor(i, d) % 2
<1> DEFINE Ends(i, k, q) == Ancestor(i, k) = q /\ \A d \in 0..k - 1 : bits[d] = Ancestor(i, d) % 2
           T == {k \in 0..Depth : \A q \in 0..LevelWidth[Depth - k] - 1 :
                                    \E i \in Positions : Ends(i, k, q)}
<1>1. 0 \in T
  <2>1. \A q \in Positions : Ends(q, 0, q)
    BY AncestorSteps
  <2>2. 0 \in 0..Depth /\ Depth - 0 = Depth
    BY DepthAssumption
  <2> HIDE DEF Ends
  <2> QED BY <2>1, <2>2 DEF Positions, MaxLeaves
<1>2. \A k \in 0..Depth : k \in T /\ k < Depth => k + 1 \in T
  <2> SUFFICES ASSUME NEW k \in 0..Depth, k < Depth, k \in T
               PROVE  k + 1 \in T
    OBVIOUS
  <2> SUFFICES ASSUME NEW q \in 0..LevelWidth[Depth - (k + 1)] - 1
               PROVE  \E i \in Positions : Ends(i, k + 1, q)
    BY WidthOfLevel
  <2> DEFINE w == LevelWidth[Depth - (k + 1)]
             b == bits[k]
  <2>1. k + 1 \in 0..Depth /\ w \in Nat \ {0} /\ LevelWidth[Depth - k] = 2 * w
    BY WidthOfLevel
  <2>2. k \in Levels /\ b \in {0, 1}
    BY DepthAssumption DEF Levels
  <2>3. q \in 0..w - 1
    OBVIOUS
  <2>4. \A p \in 0..LevelWidth[Depth - k] - 1 : \E i \in Positions : Ends(i, k, p)
    OBVIOUS
  <2> HIDE DEF w, b, T, Ends
  <2>5. 2 * q + b \in 0..(2 * w) - 1
    BY <2>1, <2>2, <2>3
  <2>6. PICK i \in Positions : Ends(i, k, 2 * q + b)
    BY <2>1, <2>4, <2>5
  <2>7. (2 * q + b) \div 2 = q /\ (2 * q + b) % 2 = b
    BY <2>1, <2>2, <2>3
  <2>8. Ancestor(i, k) = 2 * q + b /\ \A d \in 0..k - 1 : bits[d] = Ancestor(i, d) % 2
    BY <2>6 DEF Ends
  <2>9. Ancestor(i, k + 1) = q /\ bits[k] = Ancestor(i, k) % 2
    BY <2>7, <2>8, AncestorSteps DEF b
  <2>10. \A d \in 0..(k + 1) - 1 : d \in 0..k - 1 \/ d = k
    OBVIOUS
  <2>11. Ends(i, k + 1, q)
    BY <2>8, <2>9, <2>10 DEF Ends
  <2> QED BY <2>11
<1>3. \A k \in 0..Depth : k \in T
  <2> HIDE DEF T
  <2> QED BY <1>1, <1>2, InductionUpTo, DepthAssumption
<1>4. Depth \in 0..Depth /\ Depth - Depth = 0 /\ 0 \in 0..Depth /\ LevelWidth[0] = 1
  BY DepthAssumption, LevelWidthDef
<1>5. \E i \in Positions : Ends(i, Depth, 0)
  BY <1>3, <1>4
<1> QED BY <1>5 DEF Levels

LEMMA PositionOfBits ==
  ASSUME NEW bits \in [Levels -> {0, 1}]
  PROVE  /\ PositionOf(bits) \in Positions
         /\ \A d \in Levels : bits[d] = Ancestor(PositionOf(bits), d) % 2
BY BitsLead DEF PositionOf


-----------------------------------------------------------------------------
(* The tree, the path and the circuit, level by level. *)

\* No two pairs of nodes have one hash.
CollisionFree == \A a, b, c, d : Poseidon(a, b) = Poseidon(c, d) => a = c /\ b = d

\* A node is the hash of its two children.
LEMMA Children ==
  ASSUME NEW padded, NEW d \in 0..Depth, d < Depth,
         NEW q \in 0..LevelWidth[Depth - (d + 1)] - 1
  PROVE  Layers(padded)[d + 1][q]
           = Poseidon(Layers(padded)[d][2 * q], Layers(padded)[d][2 * q + 1])
<1>1. d + 1 \in 0..Depth /\ d + 1 # 0 /\ (d + 1) - 1 = d
  BY DepthAssumption
<1>2. Layers(padded)[d + 1] = Paired(Layers(padded)[d], d + 1)
  BY <1>1, LayersDef
<1>3. Paired(Layers(padded)[d], d + 1)[q]
        = Poseidon(Layers(padded)[d][2 * q], Layers(padded)[d][2 * q + 1])
  BY DEF Paired
<1> QED BY <1>2, <1>3

\* The switch keeps the order of its inputs at 0 and swaps them at 1.
LEMMA SwitchedOrder ==
  ASSUME NEW x, NEW y
  PROVE  Switched(x, y, 0) = Poseidon(x, y) /\ Switched(x, y, 1) = Poseidon(y, x)
BY DEF Switched, DualMux

\* One level of the circuit.
LEMMA HashOfLevel ==
  ASSUME NEW leaf, NEW elements, NEW bits, NEW d \in 0..Depth, d < Depth
  PROVE  LevelHashes(leaf, elements, bits)[d + 1]
           = Switched(LevelHashes(leaf, elements, bits)[d], elements[d], bits[d])
<1>1. d + 1 \in 0..Depth /\ d + 1 # 0 /\ (d + 1) - 1 = d
  BY DepthAssumption
<1> QED BY <1>1, LevelHashesDef

\* The ancestor one level up and its two children, one of which is this ancestor.
LEMMA Family ==
  ASSUME NEW i \in Positions, NEW d \in 0..Depth, d < Depth
  PROVE  LET a == Ancestor(i, d)
             q == Ancestor(i, d + 1)
         IN  /\ q \in 0..LevelWidth[Depth - (d + 1)] - 1
             /\ a % 2 \in {0, 1}
             /\ a % 2 = 0 => 2 * q = a /\ 2 * q + 1 = a + 1
             /\ a % 2 = 1 => 2 * q = a - 1 /\ 2 * q + 1 = a
<1> DEFINE a == Ancestor(i, d)
           q == Ancestor(i, d + 1)
<1>1. d + 1 \in 0..Depth
  BY DepthAssumption
<1>2. q = a \div 2
  BY AncestorSteps
<1>3. q \in 0..LevelWidth[Depth - (d + 1)] - 1
  BY <1>1, AncestorInRange
<1>4. a \in 0..LevelWidth[Depth - d] - 1
  BY AncestorInRange
<1>5. LevelWidth[Depth - d] \in Nat
  BY WidthOfLevel
<1> HIDE DEF a, q
<1>6. a \in Nat
  BY <1>4, <1>5
<1>7. a \div 2 \in Nat /\ a % 2 \in {0, 1} /\ a = (2 * (a \div 2)) + (a % 2)
  BY <1>6, Halves
<1>8. a % 2 = 0 => 2 * q = a /\ 2 * q + 1 = a + 1
  BY <1>2, <1>7
<1>9. a % 2 = 1 => 2 * q = a - 1 /\ 2 * q + 1 = a
  BY <1>2, <1>7
<1> QED BY <1>3, <1>7, <1>8, <1>9 DEF a, q

\* What buildMerkleProof returns.
LEMMA ProofFields ==
  ASSUME NEW leaves, NEW i \in Positions
  PROVE  LET p == Proof(Tree(leaves), i)
             L == Layers(Padded(leaves))
         IN  /\ p.leaf = L[0][i]
             /\ p.root = L[Depth][0]
             /\ p.leafIndex = i
             /\ Tree(leaves).root = L[Depth][0]
             /\ Tree(leaves).leaves = L[0]
             /\ \A d \in Levels :
                  /\ p.pathIndices[d] = Ancestor(i, d) % 2
                  /\ Ancestor(i, d) % 2 = 1 => p.pathElements[d] = L[d][Ancestor(i, d) - 1]
                  /\ Ancestor(i, d) % 2 # 1 => p.pathElements[d] = L[d][Ancestor(i, d) + 1]
<1>1. Layers(Padded(leaves))[0] = Padded(leaves)
  BY LayersDef, DepthAssumption
<1> QED BY <1>1 DEF Proof, Tree

\* The circuit's hash at each level of a tree's own proof is the node above the leaf.
LEMMA OwnPathClimbs ==
  ASSUME NEW leaves, NEW i \in Positions
  PROVE  LET p == Proof(Tree(leaves), i)
         IN  \A d \in 0..Depth :
               LevelHashes(p.leaf, p.pathElements, p.pathIndices)[d]
                 = Layers(Padded(leaves))[d][Ancestor(i, d)]
<1> DEFINE p == Proof(Tree(leaves), i)
           L == Layers(Padded(leaves))
           h == LevelHashes(p.leaf, p.pathElements, p.pathIndices)
           T == {d \in 0..Depth : h[d] = L[d][Ancestor(i, d)]}
<1>1. 0 \in T
  <2>1. 0 \in 0..Depth
    BY DepthAssumption
  <2>2. h[0] = p.leaf
    BY <2>1, LevelHashesDef
  <2>3. p.leaf = L[0][i]
    BY ProofFields
  <2> QED BY <2>1, <2>2, <2>3, AncestorSteps
<1>2. \A d \in 0..Depth : d \in T /\ d < Depth => d + 1 \in T
  <2> SUFFICES ASSUME NEW d \in 0..Depth, d < Depth, h[d] = L[d][Ancestor(i, d)]
               PROVE  d + 1 \in 0..Depth /\ h[d + 1] = L[d + 1][Ancestor(i, d + 1)]
    OBVIOUS
  <2> DEFINE a == Ancestor(i, d)
             q == Ancestor(i, d + 1)
  <2>1. d + 1 \in 0..Depth /\ d \in Levels
    BY DepthAssumption DEF Levels
  <2>2. h[d + 1] = Switched(h[d], p.pathElements[d], p.pathIndices[d])
    BY HashOfLevel
  <2>3. /\ q \in 0..LevelWidth[Depth - (d + 1)] - 1
        /\ a % 2 \in {0, 1}
        /\ a % 2 = 0 => 2 * q = a /\ 2 * q + 1 = a + 1
        /\ a % 2 = 1 => 2 * q = a - 1 /\ 2 * q + 1 = a
    BY Family
  <2>4. /\ p.pathIndices[d] = a % 2
        /\ a % 2 = 1 => p.pathElements[d] = L[d][a - 1]
        /\ a % 2 # 1 => p.pathElements[d] = L[d][a + 1]
    BY <2>1, ProofFields
  <2>5. L[d + 1][q] = Poseidon(L[d][2 * q], L[d][2 * q + 1])
    BY <2>3, Children
  <2>6. h[d] = L[d][a]
    OBVIOUS
  <2> HIDE DEF p, L, h, a, q
  <2>7. CASE a % 2 = 0
    <3>1. p.pathElements[d] = L[d][a + 1] /\ p.pathIndices[d] = 0
      BY <2>4, <2>7
    <3>2. h[d + 1] = Poseidon(L[d][a], L[d][a + 1])
      BY <2>2, <2>6, <3>1, SwitchedOrder
    <3> QED BY <2>1, <2>3, <2>5, <2>7, <3>2 DEF q
  <2>8. CASE a % 2 = 1
    <3>1. p.pathElements[d] = L[d][a - 1] /\ p.pathIndices[d] = 1
      BY <2>4, <2>8
    <3>2. h[d + 1] = Poseidon(L[d][a - 1], L[d][a])
      BY <2>2, <2>6, <3>1, SwitchedOrder
    <3> QED BY <2>1, <2>3, <2>5, <2>8, <3>2 DEF q
  <2> QED BY <2>3, <2>7, <2>8
<1>3. \A d \in 0..Depth : d \in T
  <2> HIDE DEF T
  <2> QED BY <1>1, <1>2, InductionUpTo, DepthAssumption
<1> QED BY <1>3

\* Without collisions a path that ends at a tree's root runs through its nodes.
LEMMA PathDescends ==
  ASSUME CollisionFree,
         NEW leaves, NEW leaf, NEW elements, NEW bits, NEW i \in Positions,
         \A d \in Levels : bits[d] = Ancestor(i, d) % 2,
         LevelHashes(leaf, elements, bits)[Depth] = Layers(Padded(leaves))[Depth][0]
  PROVE  leaf = Layers(Padded(leaves))[0][i]
<1> DEFINE L == Layers(Padded(leaves))
           h == LevelHashes(leaf, elements, bits)
           T == {d \in 0..Depth : h[d] = L[d][Ancestor(i, d)]}
<1>0. \A a, b, x, y : Poseidon(a, b) = Poseidon(x, y) => a = x /\ b = y
  BY DEF CollisionFree
<1>1. Depth \in T
  BY TopAncestor, DepthAssumption
<1>2. \A d \in 0..Depth : d + 1 \in T /\ d < Depth => d \in T
  <2> SUFFICES ASSUME NEW d \in 0..Depth, d < Depth,
                      h[d + 1] = L[d + 1][Ancestor(i, d + 1)]
               PROVE  h[d] = L[d][Ancestor(i, d)]
    OBVIOUS
  <2> DEFINE a == Ancestor(i, d)
             q == Ancestor(i, d + 1)
  <2>1. d \in Levels
    BY DepthAssumption DEF Levels
  <2>2. h[d + 1] = Switched(h[d], elements[d], bits[d])
    BY HashOfLevel
  <2>3. /\ q \in 0..LevelWidth[Depth - (d + 1)] - 1
        /\ a % 2 \in {0, 1}
        /\ a % 2 = 0 => 2 * q = a
        /\ a % 2 = 1 => 2 * q + 1 = a
    BY Family
  <2>4. bits[d] = a % 2
    BY <2>1
  <2>5. L[d + 1][q] = Poseidon(L[d][2 * q], L[d][2 * q + 1])
    BY <2>3, Children
  <2>6. h[d + 1] = L[d + 1][q]
    OBVIOUS
  <2> HIDE DEF L, h, a, q
  <2> DEFINE left == L[d][2 * q]
             right == L[d][2 * q + 1]
             below == h[d]
             beside == elements[d]
  <2>7. CASE a % 2 = 0
    <3>1. h[d + 1] = Poseidon(h[d], elements[d])
      BY <2>2, <2>4, <2>7, SwitchedOrder
    <3>2. Poseidon(below, beside) = Poseidon(left, right)
      BY <2>5, <2>6, <3>1
    <3> HIDE DEF below, beside, left, right
    <3>3. below = left
      BY <1>0, <3>2
    <3> QED BY <2>3, <2>7, <3>3 DEF a, below, left
  <2>8. CASE a % 2 = 1
    <3>1. h[d + 1] = Poseidon(elements[d], h[d])
      BY <2>2, <2>4, <2>8, SwitchedOrder
    <3>2. Poseidon(beside, below) = Poseidon(left, right)
      BY <2>5, <2>6, <3>1
    <3> HIDE DEF below, beside, left, right
    <3>3. below = right
      BY <1>0, <3>2
    <3> QED BY <2>3, <2>8, <3>3 DEF a, below, right
  <2> QED BY <2>3, <2>7, <2>8
<1>3. \A d \in 0..Depth : d \in T
  <2> HIDE DEF T
  <2> QED BY <1>1, <1>2, InductionDownFrom, DepthAssumption
<1>4. 0 \in 0..Depth /\ h[0] = leaf
  BY DepthAssumption, LevelHashesDef
<1>5. h[0] = L[0][Ancestor(i, 0)]
  BY <1>3, <1>4
<1> QED BY <1>4, <1>5, AncestorSteps

-----------------------------------------------------------------------------
(* The issuer and the member. *)

\* Every tree is of some list of leaves, every proof of some tree and position.
MerkleInv ==
  /\ \E leaves : tree = Tree(leaves)
  /\ held # NoProof =>
       \E leaves : \E i \in Positions : held = Proof(Tree(leaves), i)

\* Every operation keeps the trees and the proofs well built.
LEMMA MerkleInvInductive ==
  /\ MerkleInit => MerkleInv
  /\ MerkleInv /\ [MerkleNext]_merkleVars => MerkleInv'
<1>1. MerkleInit => MerkleInv
  BY DEF MerkleInit, MerkleInv
<1>2. ASSUME MerkleInv, NEW leaves, BuildMerkleTree(leaves) PROVE MerkleInv'
  <2>1. tree' = Tree(leaves) /\ held' = held
    BY <1>2 DEF BuildMerkleTree
  <2> QED BY <1>2, <2>1 DEF MerkleInv
<1>3. ASSUME MerkleInv, NEW i \in Positions, BuildMerkleProof(i) PROVE MerkleInv'
  <2>1. held' = Proof(tree, i) /\ tree' = tree
    BY <1>3 DEF BuildMerkleProof
  <2> QED BY <1>3, <2>1 DEF MerkleInv
<1>4. ASSUME MerkleInv, UNCHANGED merkleVars PROVE MerkleInv'
  BY <1>4 DEF MerkleInv, merkleVars
<1>5. MerkleInv /\ [MerkleNext]_merkleVars => MerkleInv'
  BY <1>2, <1>3, <1>4 DEF MerkleNext, MerkleRootCommand
<1> QED BY <1>1, <1>5

\* A proof of a tree is accepted under a root exactly if the root is its own.
LEMMA AcceptedUnderItsRoot ==
  ASSUME NEW leaves, NEW i \in Positions, NEW root
  PROVE  LET p == Proof(Tree(leaves), i)
         IN  MerkleInclusion(p.leaf, p.pathElements, p.pathIndices, root) <=> p.root = root
<1> DEFINE p == Proof(Tree(leaves), i)
           L == Layers(Padded(leaves))
           h == LevelHashes(p.leaf, p.pathElements, p.pathIndices)
<1>1. \A d \in Levels : p.pathIndices[d] \in {0, 1}
  <2>1. \A d \in Levels : d \in 0..Depth /\ d < Depth
    BY DepthAssumption DEF Levels
  <2>2. \A d \in Levels : Ancestor(i, d) % 2 \in {0, 1}
    BY <2>1, Family
  <2> QED BY <2>2, ProofFields
<1>2. h[Depth] = L[Depth][Ancestor(i, Depth)]
  BY OwnPathClimbs, DepthAssumption
<1>3. p.root = L[Depth][0]
  BY ProofFields
<1>4. h[Depth] = p.root
  BY <1>2, <1>3, TopAncestor
<1> HIDE DEF p
<1>5. MerkleInclusion(p.leaf, p.pathElements, p.pathIndices, root) <=> p.root = root
  BY <1>1, <1>4 DEF MerkleInclusion
<1> QED BY <1>5 DEF p

\* The direction bits of a proof spell its position.
LEMMA DirectionsSpellThePosition ==
  ASSUME NEW leaves, NEW i \in Positions
  PROVE  PositionOf(Proof(Tree(leaves), i).pathIndices) = i
<1> DEFINE bits == Proof(Tree(leaves), i).pathIndices
<1>1. \A d \in Levels : bits[d] = Ancestor(i, d) % 2
  BY ProofFields
<1> HIDE DEF bits
<1>2. \E j \in Positions : \A d \in Levels : bits[d] = Ancestor(j, d) % 2
  BY <1>1
<1>3. /\ PositionOf(bits) \in Positions
      /\ \A d \in Levels : bits[d] = Ancestor(PositionOf(bits), d) % 2
  BY <1>2 DEF PositionOf
<1>4. \A d \in Levels : Ancestor(PositionOf(bits), d) % 2 = Ancestor(i, d) % 2
  BY <1>1, <1>3
<1>5. PositionOf(bits) = i
  BY <1>3, <1>4, BitsDetermine
<1> QED BY <1>5 DEF bits

\* The invariant gives the first property.
LEMMA FitFromInv ==
  ASSUME CollisionFree, MerkleInv
  PROVE  ProofsFitTheCircuit
<1> SUFFICES ASSUME held # NoProof
             PROVE  /\ MerkleInclusion(held.leaf, held.pathElements, held.pathIndices, tree.root)
                         <=> held.root = tree.root
                    /\ PositionOf(held.pathIndices) = held.leafIndex
                    /\ held.root = tree.root => tree.leaves[held.leafIndex] = held.leaf
  BY DEF ProofsFitTheCircuit
<1>1. PICK published : tree = Tree(published)
  BY DEF MerkleInv
<1>2. \E leaves : \E i \in Positions : held = Proof(Tree(leaves), i)
  BY DEF MerkleInv
<1>3. PICK leaves : \E i \in Positions : held = Proof(Tree(leaves), i)
  BY <1>2
<1>4. PICK i \in Positions : held = Proof(Tree(leaves), i)
  BY <1>3
<1>5. MerkleInclusion(held.leaf, held.pathElements, held.pathIndices, tree.root)
        <=> held.root = tree.root
  BY <1>4, AcceptedUnderItsRoot
<1>6. held.leafIndex = i /\ \A d \in Levels : held.pathIndices[d] = Ancestor(i, d) % 2
  BY <1>4, ProofFields
<1>7. PositionOf(held.pathIndices) = held.leafIndex
  BY <1>4, <1>6, DirectionsSpellThePosition
<1>8. ASSUME held.root = tree.root PROVE tree.leaves[held.leafIndex] = held.leaf
  <2>1. LevelHashes(held.leaf, held.pathElements, held.pathIndices)[Depth] = tree.root
    BY <1>5, <1>8 DEF MerkleInclusion
  <2>2. /\ tree.root = Layers(Padded(published))[Depth][0]
        /\ tree.leaves = Layers(Padded(published))[0]
    BY <1>1, <1>4, ProofFields
  <2>3. held.leaf = Layers(Padded(published))[0][i]
    BY <1>6, <2>1, <2>2, PathDescends
  <2> QED BY <1>6, <2>2, <2>3
<1> QED BY <1>5, <1>7, <1>8

\* The invariant gives the second property.
LEMMA MembersFromInv ==
  ASSUME CollisionFree, MerkleInv
  PROVE  OnlyMembersProve
<1> SUFFICES ASSUME NEW leaf, NEW elements, NEW bits \in [Levels -> {0, 1}],
                    MerkleInclusion(leaf, elements, bits, tree.root)
             PROVE  leaf = tree.leaves[PositionOf(bits)]
  BY DEF OnlyMembersProve
<1>1. PICK published : tree = Tree(published)
  BY DEF MerkleInv
<1>2. /\ PositionOf(bits) \in Positions
      /\ \A d \in Levels : bits[d] = Ancestor(PositionOf(bits), d) % 2
  BY PositionOfBits
<1>3. /\ tree.root = Layers(Padded(published))[Depth][0]
      /\ tree.leaves = Layers(Padded(published))[0]
  BY <1>1, <1>2, ProofFields
<1>4. LevelHashes(leaf, elements, bits)[Depth] = tree.root
  BY DEF MerkleInclusion
<1>5. leaf = Layers(Padded(published))[0][PositionOf(bits)]
  BY <1>2, <1>3, <1>4, PathDescends
<1> QED BY <1>3, <1>5

-----------------------------------------------------------------------------
(* The theorems. *)

\* buildMerkleProof and the inclusion circuit agree, for trees of every depth:
\* without collisions a proof is accepted exactly as long as the published root
\* is its own (merkle.ts:215-238, circuit.circom).
THEOREM ProofsFitTheCircuitAlways ==
  ASSUME CollisionFree
  PROVE  MerkleSpec => []ProofsFitTheCircuit
<1>1. MerkleInv => ProofsFitTheCircuit
  BY FitFromInv
<1> QED BY <1>1, MerkleInvInductive, PTL DEF MerkleSpec

\* Without collisions the circuit accepts only the leaf at the position that the
\* direction bits spell, for trees of every depth (circuit.circom).
THEOREM OnlyMembersProveAlways ==
  ASSUME CollisionFree
  PROVE  MerkleSpec => []OnlyMembersProve
<1>1. MerkleInv => OnlyMembersProve
  BY MembersFromInv
<1> QED BY <1>1, MerkleInvInductive, PTL DEF MerkleSpec

=============================================================================
