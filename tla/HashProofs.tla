----------------------------- MODULE HashProofs -----------------------------
(* Theorems about Poseidon, for every field, every width and every number of  *)
(* rounds: the schedule that the code runs computes the permutation as it is  *)
(* defined, when the file of constants folds the rounds as ScheduleFolds says. *)
EXTENDS Poseidon, MerkleProofs

-----------------------------------------------------------------------------
(* Residues. *)

\* The residues of the field.
ResiduesOfField == 0..Modulus - 1

\* A quotient and a remainder below the divisor are the only ones there are.
LEMMA OneRemainder ==
  ASSUME NEW m \in Nat, m > 0, NEW x \in Int, NEW k \in Int, NEW r \in 0..(m - 1),
         x = (m * k) + r
  PROVE  x % m = r
<1> DEFINE a == x \div m
           s == x % m
<1>1. a \in Int /\ s \in 0..(m - 1) /\ x = (m * a) + s
  OBVIOUS
<1> HIDE DEF a, s
<1> DEFINE q == k - a
<1>2. q \in Int /\ s - r = m * q
  BY <1>1
<1> HIDE DEF q
<1>3. q >= 1 => m * q >= m
  BY <1>2
<1>4. q <= -1 => m * q <= -m
  BY <1>2
<1>5. s - r < m /\ r - s < m
  BY <1>1
<1>6. q = 0
  BY <1>2, <1>3, <1>4, <1>5, <1>1
<1>7. s = r
  BY <1>1, <1>2, <1>6
<1> QED BY <1>7 DEF s

\* Mod (poseidon.ts:28-31), which corrects the sign of a truncated remainder, is the
\* remainder that is never negative.
LEMMA ModIsRemainder ==
  ASSUME NEW x \in Int
  PROVE  Mod(x) = x % Modulus
<1> DEFINE m == Modulus
<1>1. m \in Nat /\ m > 0
  BY FieldAssumption
<1> HIDE DEF m
<1>2. CASE x >= 0
  <2>1. x % m \in 0..(m - 1)
    BY <1>1
  <2> QED BY <1>1, <1>2, <2>1 DEF Mod, Remainder, m
<1>3. CASE x < 0
  <2> DEFINE a == (-x) \div m
             r == (-x) % m
  <2>1. a \in Int /\ r \in 0..(m - 1) /\ -x = (m * a) + r
    BY <1>1
  <2>2. Remainder(x) \in Int /\ Remainder(x) = 0 - r
    <3>1. Remainder(x) = -r
      BY <1>3 DEF Remainder, m
    <3>2. r \in Int
      BY <1>1, <2>1
    <3> HIDE DEF r
    <3> QED BY <3>1, <3>2
  <2> HIDE DEF a, r
  <2>3. CASE r = 0
    <3>1. Mod(x) = 0
      <4>1. Remainder(x) = 0
        BY <1>1, <2>1, <2>2, <2>3
      <4> QED BY <4>1 DEF Mod
    <3>2. x = (m * (-a)) + 0 /\ -a \in Int /\ 0 \in 0..(m - 1)
      BY <1>1, <2>1, <2>3
    <3>3. x % m = 0
      BY <1>1, <3>2, OneRemainder
    <3> QED BY <3>1, <3>3 DEF m
  <2>4. CASE r # 0
    <3>1. Mod(x) = m - r
      BY <1>1, <2>1, <2>2, <2>4 DEF Mod, m
    <3>2. x = (m * (-a - 1)) + (m - r) /\ -a - 1 \in Int /\ m - r \in 0..(m - 1)
      BY <1>1, <2>1, <2>4
    <3>3. x % m = m - r
      BY <1>1, <3>2, OneRemainder
    <3> QED BY <3>1, <3>3 DEF m
  <2> QED BY <2>3, <2>4
<1> QED BY <1>2, <1>3

\* Mod gives residues, and leaves residues alone.
LEMMA ModResidue ==
  /\ Modulus \in Nat \ {0}
  /\ \A x \in Int : Mod(x) \in ResiduesOfField
  /\ \A x \in ResiduesOfField : Mod(x) = x
  /\ \A x \in Nat : Mod(x) \in Nat /\ Mod(x) <= x
<1>1. Modulus \in Nat \ {0}
  BY FieldAssumption
<1>2. ASSUME NEW x \in Int PROVE Mod(x) \in ResiduesOfField
  <2>1. x % Modulus \in 0..(Modulus - 1)
    BY <1>1
  <2> QED BY <2>1, ModIsRemainder DEF ResiduesOfField
<1>3. ASSUME NEW x \in ResiduesOfField PROVE Mod(x) = x
  <2>1. x \in Nat /\ x \in Int /\ x < Modulus
    BY <1>1 DEF ResiduesOfField
  <2>2. x % Modulus = x
    BY <1>1, <2>1
  <2> QED BY <2>1, <2>2, ModIsRemainder
<1>4. ASSUME NEW x \in Nat PROVE Mod(x) \in Nat /\ Mod(x) <= x
  <2>1. x \in Int /\ x % Modulus \in Nat /\ x % Modulus <= x
    BY <1>1
  <2> QED BY <2>1, ModIsRemainder
<1> QED BY <1>1, <1>2, <1>3, <1>4

-----------------------------------------------------------------------------
(* Lists. *)

\* The elements of a list are numbered from 1.
IsList(list) == Len(list) \in Nat /\ DOMAIN list = 1..Len(list)

\* Sequences are such lists.
LEMMA SequencesAreLists ==
  ASSUME NEW U, NEW list \in Seq(U)
  PROVE  IsList(list)
BY DEF IsList

\* A function from 1 is as long as its domain.
LEMMA FunctionsAreLists ==
  ASSUME NEW n \in Nat, NEW f, f = [i \in 1..n |-> f[i]]
  PROVE  IsList(f) /\ Len(f) = n
<1> DEFINE U == {f[i] : i \in 1..n}
<1>1. f \in [1..n -> U]
  OBVIOUS
<1> HIDE DEF U
<1>2. f \in Seq(U) /\ DOMAIN f = 1..n
  BY <1>1
<1>3. Len(f) \in Nat /\ 1..Len(f) = 1..n
  BY <1>2
<1>4. Len(f) = n
  BY <1>3
<1> QED BY <1>2, <1>4 DEF IsList

-----------------------------------------------------------------------------
(* Arithmetic modulo the field's order. *)

\* Numbers with the same residue differ by a multiple of the modulus.
LEMMA SameResidue ==
  ASSUME NEW x \in Int, NEW y \in Int
  PROVE  Mod(x) = Mod(y) <=> \E k \in Int : x = y + k * Modulus
<1> DEFINE m == Modulus
<1>1. m \in Nat /\ m > 0
  BY ModResidue
<1> HIDE DEF m
<1>2. /\ x \div m \in Int /\ x % m \in 0..(m - 1) /\ x = (m * (x \div m)) + (x % m)
      /\ y \div m \in Int /\ y % m \in 0..(m - 1) /\ y = (m * (y \div m)) + (y % m)
  BY <1>1
<1>3. ASSUME x % m = y % m PROVE \E k \in Int : x = y + k * m
  <2> DEFINE a == x \div m
             b == y \div m
             r == x % m
  <2>1. a \in Int /\ b \in Int /\ r \in Int /\ x = (m * a) + r /\ y = (m * b) + r
    BY <1>2, <1>3
  <2> HIDE DEF a, b, r
  <2>2. a - b \in Int /\ x = y + (a - b) * m
    BY <1>1, <2>1
  <2> QED BY <2>2
<1>4. ASSUME NEW k \in Int, x = y + k * m PROVE x % m = y % m
  <2> DEFINE b == y \div m
             r == y % m
  <2>1. b \in Int /\ r \in 0..(m - 1) /\ y = (m * b) + r
    BY <1>2
  <2> HIDE DEF b, r
  <2>2. b + k \in Int /\ x = (m * (b + k)) + r
    BY <1>1, <1>4, <2>1
  <2>3. x % m = r
    BY <1>1, <2>1, <2>2, OneRemainder
  <2> QED BY <2>3 DEF r
<1> QED BY <1>3, <1>4, ModIsRemainder DEF m

\* Sums of congruent numbers are congruent.
LEMMA ModOfSum ==
  ASSUME NEW x \in Int, NEW y \in Int, NEW u \in Int, NEW v \in Int,
         Mod(x) = Mod(u), Mod(y) = Mod(v)
  PROVE  Mod(x + y) = Mod(u + v)
<1>1. PICK k \in Int : x = u + k * Modulus
  BY SameResidue
<1>2. PICK l \in Int : y = v + l * Modulus
  BY SameResidue
<1>3. Modulus \in Int
  BY ModResidue
<1>4. x + y \in Int /\ u + v \in Int /\ k + l \in Int /\ x + y = (u + v) + (k + l) * Modulus
  BY <1>1, <1>2, <1>3
<1> QED BY <1>4, SameResidue

\* One number added to both.
LEMMA ModOfShift ==
  \A x, y, z \in Int : Mod(x) = Mod(y) => Mod(x + z) = Mod(y + z)
<1> SUFFICES ASSUME NEW x \in Int, NEW y \in Int, NEW z \in Int, Mod(x) = Mod(y)
             PROVE  Mod(x + z) = Mod(y + z)
  OBVIOUS
<1>1. PICK k \in Int : x = y + k * Modulus
  BY SameResidue
<1>2. Modulus \in Int
  BY ModResidue
<1>3. x + z \in Int /\ y + z \in Int /\ x + z = (y + z) + k * Modulus
  BY <1>1, <1>2
<1> QED BY <1>3, SameResidue

\* Products of congruent numbers are congruent.
LEMMA ModOfProduct ==
  ASSUME NEW x \in Int, NEW y \in Int, NEW u \in Int, NEW v \in Int,
         Mod(x) = Mod(u), Mod(y) = Mod(v)
  PROVE  Mod(x * y) = Mod(u * v)
<1>1. PICK k \in Int : x = u + k * Modulus
  BY SameResidue
<1>2. PICK l \in Int : y = v + l * Modulus
  BY SameResidue
<1>3. Modulus \in Int
  BY ModResidue
<1> DEFINE m == Modulus
           q == k * v + u * l + k * l * m
<1>4. x * y = u * v + q * m /\ q \in Int
  <2>0. m \in Int /\ x = u + k * m /\ y = v + l * m
    BY <1>1, <1>2, <1>3
  <2> HIDE DEF m
  <2>1. x * y = u * v + u * (l * m) + (k * m) * v + (k * m) * (l * m)
    BY <2>0
  <2>2. q * m = (k * v) * m + (u * l) * m + (k * l * m) * m
    BY <2>0
  <2>3. u * (l * m) = (u * l) * m /\ (k * m) * v = (k * v) * m /\ (k * m) * (l * m) = (k * l * m) * m
    BY <2>0
  <2> QED BY <2>0, <2>1, <2>2, <2>3
<1>5. x * y \in Int /\ u * v \in Int
  OBVIOUS
<1> HIDE DEF q
<1> QED BY <1>4, <1>5, SameResidue

\* Both multiplied by one number.
LEMMA ModOfMultiple ==
  \A x, y, z \in Int : Mod(y) = Mod(z) => x * y \in Int /\ Mod(x * y) = Mod(x * z)
<1> SUFFICES ASSUME NEW x \in Int, NEW y \in Int, NEW z \in Int, Mod(y) = Mod(z)
             PROVE  x * y \in Int /\ Mod(x * y) = Mod(x * z)
  OBVIOUS
<1>1. x * y \in Int
  OBVIOUS
<1>2. PICK k \in Int : y = z + k * Modulus
  BY SameResidue
<1>3. Modulus \in Int
  BY ModResidue
<1>4. x * y = x * z + (x * k) * Modulus /\ x * z \in Int /\ x * k \in Int
  BY <1>2, <1>3
<1>5. Mod(x * y) = Mod(x * z)
  BY <1>1, <1>4, SameResidue
<1> QED BY <1>1, <1>5

\* A residue is its own residue.
LEMMA ModOfMod ==
  ASSUME NEW x \in Int
  PROVE  Mod(x) \in Int /\ Mod(Mod(x)) = Mod(x)
BY ModResidue DEF ResiduesOfField

\* The S-box is of residues.
LEMMA PowerOfResidue ==
  ASSUME NEW x \in Int, NEW y \in Int, Mod(x) = Mod(y)
  PROVE  Pow5(x) = Pow5(y) /\ Pow5(x) \in ResiduesOfField
<1> DEFINE p == Mod(x * x)
           q == Mod(p * p)
<1>1. Mod(y * y) = p
  BY ModOfProduct
<1>2. x * x \in Int /\ p \in Int
  BY ModOfMod
<1> HIDE DEF p
<1>3. p * p \in Int /\ q \in Int
  BY <1>2, ModOfMod
<1>4. Pow5(x) = Mod(x * q) /\ Pow5(y) = Mod(y * q)
  BY <1>1 DEF Pow5, p
<1> HIDE DEF q
<1>5. Mod(x * q) = Mod(y * q)
  <2>1. q \in Int /\ Mod(q) = Mod(q)
    BY <1>3
  <2> QED BY <2>1, ModOfProduct, ZenonT(60)
<1>6. Mod(x * q) \in ResiduesOfField
  <2>1. x * q \in Int
    BY <1>3
  <2> QED BY <2>1, ModResidue
<1> QED BY <1>4, <1>5, <1>6

-----------------------------------------------------------------------------
(* Sums. *)

\* The sums of the first terms, up to n of them.
SumsUp(term, n, sum) ==
  /\ Reduce(term, n) = sum[n]
  /\ sum = [k \in 0..n |-> IF k = 0 THEN 0 ELSE sum[k - 1] + term[k - 1]]

\* Reduce (state.reduce) adds the terms one after the other.
LEMMA ReduceDef ==
  ASSUME NEW term, NEW n \in Nat
  PROVE  \E sum : SumsUp(term, n, sum)
<1> DEFINE Turn(before, k) == before + term[k - 1]
           Solves(f, m) == f = [k \in 0..m |-> IF k = 0 THEN 0 ELSE Turn(f[k - 1], k)]
           T == {m \in Nat : \E f : Solves(f, m)}
           sum == CHOOSE f : Solves(f, n)
<1>1. Reduce(term, n) = sum[n]
  BY DEF Reduce
<1> HIDE DEF Turn
<1>2. 0 \in T
  <2> DEFINE f == [k \in 0..0 |-> 0]
  <2>1. Solves(f, 0)
    OBVIOUS
  <2> QED BY <2>1
<1>3. ASSUME NEW m \in Nat, NEW f, Solves(f, m) PROVE \E g : Solves(g, m + 1)
  <2> DEFINE g == [k \in 0..(m + 1) |-> IF k \in 0..m THEN f[k] ELSE Turn(f[m], m + 1)]
  <2>1. \A k \in 0..(m + 1) : g[k] = IF k = 0 THEN 0 ELSE Turn(g[k - 1], k)
    <3> TAKE k \in 0..(m + 1)
    <3>1. CASE k = 0
      BY <1>3, <3>1
    <3>2. CASE k \in 1..m
      <4>1. k - 1 \in 0..m /\ k - 1 \in 0..(m + 1) /\ k \in 0..m
        BY <3>2
      <4>2. g[k] = f[k] /\ g[k - 1] = f[k - 1]
        BY <4>1
      <4> QED BY <1>3, <3>2, <4>1, <4>2
    <3>3. CASE k = m + 1
      <4>1. k - 1 \in 0..(m + 1) /\ ~(k \in 0..m) /\ k # 0 /\ k - 1 = m
        BY <3>3
      <4>2. g[k] = Turn(f[m], m + 1) /\ g[k - 1] = f[m]
        BY <4>1
      <4> QED BY <3>3, <4>1, <4>2
    <3> QED BY <3>1, <3>2, <3>3
  <2>2. Solves(g, m + 1)
    BY <2>1
  <2> QED BY <2>2
<1>4. \E f : Solves(f, n)
  <2> HIDE DEF Solves
  <2>1. \A m \in Nat : m \in T <=> \E f : Solves(f, m)
    OBVIOUS
  <2>2. \A m \in Nat : m \in T => m + 1 \in T
    BY <1>3, <2>1
  <2> HIDE DEF T
  <2>3. n \in T
    BY <1>2, <2>2, InductionUpTo
  <2> QED BY <2>1, <2>3
<1>5. Solves(sum, n)
  <2> HIDE DEF Solves
  <2> QED BY <1>4, Zenon
<1> HIDE DEF sum
<1>6. SumsUp(term, n, sum)
  BY <1>1, <1>5 DEF Turn, SumsUp
<1> QED BY <1>6

\* A sum of no terms, and a sum of one term more.
LEMMA ReduceSteps ==
  ASSUME NEW term
  PROVE  /\ Reduce(term, 0) = 0
         /\ \A n \in Nat : Reduce(term, n + 1) = Reduce(term, n) + term[n]
<1>1. Reduce(term, 0) = 0
  <2>1. PICK sum : SumsUp(term, 0, sum)
    BY ReduceDef
  <2> QED BY <2>1 DEF SumsUp
<1>2. ASSUME NEW n \in Nat PROVE Reduce(term, n + 1) = Reduce(term, n) + term[n]
  <2>0. n + 1 \in Nat /\ n \in 0..(n + 1) /\ (n + 1) - 1 = n /\ n + 1 # 0 /\ n + 1 \in 0..(n + 1)
    OBVIOUS
  <2>a. PICK f : SumsUp(term, n, f)
    BY ReduceDef
  <2>b. PICK g : SumsUp(term, n + 1, g)
    BY <2>0, ReduceDef
  <2>1. /\ Reduce(term, n) = f[n]
        /\ f = [k \in 0..n |-> IF k = 0 THEN 0 ELSE f[k - 1] + term[k - 1]]
    BY <2>a DEF SumsUp
  <2>2. /\ Reduce(term, n + 1) = g[n + 1]
        /\ g = [k \in 0..(n + 1) |-> IF k = 0 THEN 0 ELSE g[k - 1] + term[k - 1]]
    BY <2>b DEF SumsUp
  <2> DEFINE T == {k \in 0..n : f[k] = g[k]}
  <2>3. 0 \in T
    BY <2>1, <2>2
  <2>4. \A k \in 0..n : k \in T /\ k < n => k + 1 \in T
    <3> SUFFICES ASSUME NEW k \in 0..n, f[k] = g[k], k < n PROVE k + 1 \in 0..n /\ f[k + 1] = g[k + 1]
      OBVIOUS
    <3>1. k + 1 \in 0..n /\ k + 1 \in 0..(n + 1) /\ k + 1 # 0 /\ (k + 1) - 1 = k
      OBVIOUS
    <3>2. f[k + 1] = f[k] + term[k]
      BY <2>1, <3>1
    <3>3. g[k + 1] = g[k] + term[k]
      BY <2>2, <3>1
    <3> QED BY <3>1, <3>2, <3>3
  <2>5. \A k \in 0..n : k \in T
    <3> HIDE DEF T
    <3> QED BY <2>3, <2>4, InductionUpTo
  <2>6. f[n] = g[n]
    BY <2>5
  <2>7. g[n + 1] = g[n] + term[n]
    BY <2>0, <2>2
  <2> QED BY <2>1, <2>2, <2>6, <2>7
<1> QED BY <1>1, <1>2

\* Terms that are integers.
LEMMA ReduceInt ==
  ASSUME NEW term, NEW n \in Nat, \A l \in 0..n - 1 : term[l] \in Int
  PROVE  Reduce(term, n) \in Int
<1> DEFINE T == {k \in 0..n : Reduce(term, k) \in Int}
<1>1. 0 \in T
  BY ReduceSteps
<1>2. \A k \in 0..n : k \in T /\ k < n => k + 1 \in T
  <2> SUFFICES ASSUME NEW k \in 0..n, Reduce(term, k) \in Int, k < n
               PROVE  k + 1 \in 0..n /\ Reduce(term, k + 1) \in Int
    OBVIOUS
  <2>1. k \in Nat /\ k \in 0..n - 1 /\ k + 1 \in 0..n
    OBVIOUS
  <2> QED BY <2>1, ReduceSteps
<1>3. \A k \in 0..n : k \in T
  <2> HIDE DEF T
  <2> QED BY <1>1, <1>2, InductionUpTo
<1> QED BY <1>3

\* A sum of multiples and further terms.
LEMMA ReduceLinear ==
  ASSUME NEW f, NEW g, NEW h, NEW a \in Int, NEW n \in Nat,
         \A l \in 0..n - 1 : f[l] \in Int /\ g[l] \in Int /\ h[l] = a * f[l] + g[l]
  PROVE  Reduce(h, n) = a * Reduce(f, n) + Reduce(g, n)
<1> DEFINE T == {k \in 0..n : Reduce(h, k) = a * Reduce(f, k) + Reduce(g, k)}
<1>1. 0 \in T
  BY ReduceSteps
<1>2. \A k \in 0..n : k \in T /\ k < n => k + 1 \in T
  <2> SUFFICES ASSUME NEW k \in 0..n, Reduce(h, k) = a * Reduce(f, k) + Reduce(g, k), k < n
               PROVE  k + 1 \in 0..n /\ Reduce(h, k + 1) = a * Reduce(f, k + 1) + Reduce(g, k + 1)
    OBVIOUS
  <2>1. k \in Nat /\ k \in 0..n - 1 /\ k + 1 \in 0..n
    OBVIOUS
  <2>2. /\ Reduce(h, k + 1) = Reduce(h, k) + h[k]
        /\ Reduce(f, k + 1) = Reduce(f, k) + f[k]
        /\ Reduce(g, k + 1) = Reduce(g, k) + g[k]
    BY <2>1, ReduceSteps
  <2>3. Reduce(f, k) \in Int /\ Reduce(g, k) \in Int
    <3>1. \A l \in 0..k - 1 : f[l] \in Int /\ g[l] \in Int
      OBVIOUS
    <3> QED BY <2>1, <3>1, ReduceInt
  <2>4. \A x, y, s, t \in Int : (a * s + t) + (a * x + y) = a * (s + x) + (t + y)
    OBVIOUS
  <2>5. f[k] \in Int /\ g[k] \in Int /\ h[k] = a * f[k] + g[k]
    BY <2>1
  <2>6. (a * Reduce(f, k) + Reduce(g, k)) + (a * f[k] + g[k])
          = a * (Reduce(f, k) + f[k]) + (Reduce(g, k) + g[k])
    BY <2>3, <2>4, <2>5
  <2>7. Reduce(h, k + 1) = a * Reduce(f, k + 1) + Reduce(g, k + 1)
    BY <2>2, <2>5, <2>6
  <2> QED BY <2>1, <2>7
<1>3. \A k \in 0..n : k \in T
  <2> HIDE DEF T
  <2> QED BY <1>1, <1>2, InductionUpTo
<1> QED BY <1>3

\* A sum of zeros.
LEMMA ReduceZero ==
  ASSUME NEW f, NEW n \in Nat, \A l \in 0..n - 1 : f[l] = 0
  PROVE  Reduce(f, n) = 0
<1> DEFINE T == {k \in 0..n : Reduce(f, k) = 0}
<1>1. 0 \in T
  BY ReduceSteps
<1>2. \A k \in 0..n : k \in T /\ k < n => k + 1 \in T
  <2> SUFFICES ASSUME NEW k \in 0..n, Reduce(f, k) = 0, k < n
               PROVE  k + 1 \in 0..n /\ Reduce(f, k + 1) = 0
    OBVIOUS
  <2>1. k \in Nat /\ k \in 0..n - 1 /\ k + 1 \in 0..n
    OBVIOUS
  <2> QED BY <2>1, ReduceSteps
<1>3. \A k \in 0..n : k \in T
  <2> HIDE DEF T
  <2> QED BY <1>1, <1>2, InductionUpTo
<1> QED BY <1>3

\* Sums term by term: of multiples, of equals and of sums.
LEMMA ReduceMultiple ==
  ASSUME NEW f, NEW h, NEW a \in Int, NEW n \in Nat,
         \A l \in 0..n - 1 : f[l] \in Int /\ h[l] = a * f[l]
  PROVE  Reduce(h, n) = a * Reduce(f, n)
<1> DEFINE zero == [l \in 0..n - 1 |-> 0]
<1>1. \A l \in 0..n - 1 : zero[l] \in Int /\ zero[l] = 0
  OBVIOUS
<1> HIDE DEF zero
<1>2. Reduce(zero, n) = 0 /\ Reduce(f, n) \in Int
  BY <1>1, ReduceZero, ReduceInt
<1>3. \A l \in 0..n - 1 : f[l] \in Int /\ zero[l] \in Int /\ h[l] = a * f[l] + zero[l]
  BY <1>1
<1>4. Reduce(h, n) = a * Reduce(f, n) + Reduce(zero, n)
  BY <1>3, ReduceLinear
<1> QED BY <1>2, <1>4

\* Sums of equal terms, and of terms that are sums.
LEMMA ReduceTerms ==
  ASSUME NEW f, NEW g, NEW h, NEW n \in Nat,
         \A l \in 0..n - 1 : f[l] \in Int /\ g[l] \in Int
  PROVE  /\ (\A l \in 0..n - 1 : h[l] = f[l]) => Reduce(h, n) = Reduce(f, n)
         /\ (\A l \in 0..n - 1 : h[l] = f[l] + g[l]) => Reduce(h, n) = Reduce(f, n) + Reduce(g, n)
<1>1. 1 \in Int /\ Reduce(f, n) \in Int /\ Reduce(g, n) \in Int
  BY ReduceInt
<1>2. ASSUME \A l \in 0..n - 1 : h[l] = f[l] PROVE Reduce(h, n) = Reduce(f, n)
  <2>1. \A l \in 0..n - 1 : f[l] \in Int /\ h[l] = 1 * f[l]
    BY <1>2
  <2>2. Reduce(h, n) = 1 * Reduce(f, n)
    BY <1>1, <2>1, ReduceMultiple
  <2> QED BY <1>1, <2>2
<1>3. ASSUME \A l \in 0..n - 1 : h[l] = f[l] + g[l] PROVE Reduce(h, n) = Reduce(f, n) + Reduce(g, n)
  <2>1. \A l \in 0..n - 1 : f[l] \in Int /\ g[l] \in Int /\ h[l] = 1 * f[l] + g[l]
    BY <1>3
  <2>2. Reduce(h, n) = 1 * Reduce(f, n) + Reduce(g, n)
    BY <1>1, <2>1, ReduceLinear
  <2> QED BY <1>1, <2>2
<1> QED BY <1>2, <1>3

\* Sums of congruent terms.
LEMMA ReduceCongruent ==
  ASSUME NEW f, NEW g, NEW n \in Nat,
         \A l \in 0..n - 1 : f[l] \in Int /\ g[l] \in Int /\ Mod(f[l]) = Mod(g[l])
  PROVE  Mod(Reduce(f, n)) = Mod(Reduce(g, n))
<1> DEFINE T == {k \in 0..n : Mod(Reduce(f, k)) = Mod(Reduce(g, k))}
<1>1. 0 \in T
  BY ReduceSteps
<1>2. \A k \in 0..n : k \in T /\ k < n => k + 1 \in T
  <2> SUFFICES ASSUME NEW k \in 0..n, Mod(Reduce(f, k)) = Mod(Reduce(g, k)), k < n
               PROVE  k + 1 \in 0..n /\ Mod(Reduce(f, k + 1)) = Mod(Reduce(g, k + 1))
    OBVIOUS
  <2>1. k \in Nat /\ k \in 0..n - 1 /\ k + 1 \in 0..n
    OBVIOUS
  <2>2. Reduce(f, k + 1) = Reduce(f, k) + f[k] /\ Reduce(g, k + 1) = Reduce(g, k) + g[k]
    BY <2>1, ReduceSteps
  <2>3. Reduce(f, k) \in Int /\ Reduce(g, k) \in Int
    <3>1. \A l \in 0..k - 1 : f[l] \in Int /\ g[l] \in Int
      OBVIOUS
    <3> QED BY <2>1, <3>1, ReduceInt
  <2>4. f[k] \in Int /\ g[k] \in Int /\ Mod(f[k]) = Mod(g[k])
    BY <2>1
  <2>5. Mod(Reduce(f, k) + f[k]) = Mod(Reduce(g, k) + g[k])
    BY <2>3, <2>4, ModOfSum, ZenonT(60)
  <2> QED BY <2>1, <2>2, <2>5
<1>3. \A k \in 0..n : k \in T
  <2> HIDE DEF T
  <2> QED BY <1>1, <1>2, InductionUpTo
<1> QED BY <1>3

\* A sum with one term that counts.
LEMMA ReduceSingle ==
  ASSUME NEW f, NEW n \in Nat, NEW i \in 0..n - 1, f[i] \in Int,
         \A l \in 0..n - 1 : l # i => f[l] = 0
  PROVE  Reduce(f, n) = f[i]
<1> DEFINE T == {k \in 0..n : Reduce(f, k) = IF i < k THEN f[i] ELSE 0}
<1>1. 0 \in T
  BY ReduceSteps
<1>2. \A k \in 0..n : k \in T /\ k < n => k + 1 \in T
  <2> SUFFICES ASSUME NEW k \in 0..n, Reduce(f, k) = IF i < k THEN f[i] ELSE 0, k < n
               PROVE  k + 1 \in 0..n /\ Reduce(f, k + 1) = IF i < k + 1 THEN f[i] ELSE 0
    OBVIOUS
  <2>1. k \in Nat /\ k \in 0..n - 1 /\ k + 1 \in 0..n
    OBVIOUS
  <2>2. Reduce(f, k + 1) = Reduce(f, k) + f[k]
    BY <2>1, ReduceSteps
  <2>3. CASE k = i
    BY <2>1, <2>2, <2>3
  <2>4. CASE k # i
    <3>1. f[k] = 0
      BY <2>1, <2>4
    <3> QED BY <2>1, <2>2, <2>4, <3>1
  <2> QED BY <2>3, <2>4
<1>3. \A k \in 0..n : k \in T
  <2> HIDE DEF T
  <2> QED BY <1>1, <1>2, InductionUpTo
<1>4. n \in 0..n
  OBVIOUS
<1> QED BY <1>3, <1>4

\* Two sums change places.
LEMMA ReduceSwap ==
  ASSUME NEW n \in Nat, NEW a, \A i, l \in 0..n - 1 : a[i][l] \in Int
  PROVE  Reduce([i \in 0..n - 1 |-> Reduce(a[i], n)], n)
           = Reduce([l \in 0..n - 1 |-> Reduce([i \in 0..n - 1 |-> a[i][l]], n)], n)
<1> DEFINE rows == [i \in 0..n - 1 |-> Reduce(a[i], n)]
           column(l) == [i \in 0..n - 1 |-> a[i][l]]
           upTo(k) == [l \in 0..n - 1 |-> Reduce(column(l), k)]
           T == {k \in 0..n : Reduce(rows, k) = Reduce(upTo(k), n)}
<1>1. 0 \in T
  <2>1. \A l \in 0..n - 1 : upTo(0)[l] = 0
    BY ReduceSteps
  <2> HIDE DEF upTo, rows
  <2>2. Reduce(rows, 0) = 0 /\ Reduce(upTo(0), n) = 0
    BY <2>1, ReduceSteps, ReduceZero
  <2> QED BY <2>2
<1>2. \A k \in 0..n : k \in T /\ k < n => k + 1 \in T
  <2> SUFFICES ASSUME NEW k \in 0..n, Reduce(rows, k) = Reduce(upTo(k), n), k < n
               PROVE  k + 1 \in 0..n /\ Reduce(rows, k + 1) = Reduce(upTo(k + 1), n)
    OBVIOUS
  <2>1. k \in Nat /\ k \in 0..n - 1 /\ k + 1 \in 0..n
    OBVIOUS
  <2>2. Reduce(rows, k + 1) = Reduce(rows, k) + Reduce(a[k], n)
    <3>1. rows[k] = Reduce(a[k], n)
      BY <2>1
    <3> HIDE DEF rows
    <3> QED BY <2>1, <3>1, ReduceSteps
  <2>3. \A l \in 0..n - 1 :
          upTo(k)[l] \in Int /\ a[k][l] \in Int /\ upTo(k + 1)[l] = upTo(k)[l] + a[k][l]
    <3> TAKE l \in 0..n - 1
    <3>1. column(l)[k] = a[k][l] /\ a[k][l] \in Int /\ \A i \in 0..k - 1 : column(l)[i] \in Int
      BY <2>1
    <3>2. upTo(k)[l] = Reduce(column(l), k) /\ upTo(k + 1)[l] = Reduce(column(l), k + 1)
      OBVIOUS
    <3> HIDE DEF column, upTo
    <3>3. Reduce(column(l), k) \in Int
      BY <2>1, <3>1, ReduceInt
    <3>4. Reduce(column(l), k + 1) = Reduce(column(l), k) + column(l)[k]
      BY <2>1, ReduceSteps
    <3> QED BY <3>1, <3>2, <3>3, <3>4
  <2>4. Reduce(upTo(k + 1), n) = Reduce(upTo(k), n) + Reduce(a[k], n)
    <3> DEFINE before == upTo(k)
               after == upTo(k + 1)
               row == a[k]
    <3>1. \A l \in 0..n - 1 : before[l] \in Int /\ row[l] \in Int /\ after[l] = before[l] + row[l]
      BY <2>3
    <3> HIDE DEF before, after, row
    <3>2. Reduce(after, n) = Reduce(before, n) + Reduce(row, n)
      BY <3>1, ReduceTerms
    <3> QED BY <3>2 DEF before, after, row
  <2> QED BY <2>1, <2>2, <2>4
<1>3. \A k \in 0..n : k \in T
  <2> HIDE DEF T
  <2> QED BY <1>1, <1>2, InductionUpTo
<1>4. n \in T
  <2>1. n \in 0..n
    OBVIOUS
  <2> HIDE DEF T
  <2> QED BY <1>3, <2>1
<1>5. Reduce(rows, n) = Reduce(upTo(n), n)
  <2> HIDE DEF rows, upTo
  <2> QED BY <1>4
<1> QED BY <1>5

-----------------------------------------------------------------------------
(* Matrices. *)

Vectors(n) == [Indices(n) -> Int]
Matrices(n) == [Indices(n) -> Vectors(n)]

\* The product of a matrix and a vector, and of two matrices.
Apply(A, v, n) == [i \in Indices(n) |-> Reduce([l \in Indices(n) |-> A[i][l] * v[l]], n)]
Column(A, l, n) == [i \in Indices(n) |-> A[i][l]]

\* One element of a product.
LEMMA ApplyAt ==
  ASSUME NEW n \in Nat, NEW A \in Matrices(n), NEW v \in Vectors(n), NEW i \in Indices(n), NEW terms,
         \A l \in Indices(n) : terms[l] = A[i][l] * v[l]
  PROVE  /\ Apply(A, v, n)[i] = Reduce(terms, n)
         /\ Apply(A, v, n)[i] \in Int
         /\ \A l \in Indices(n) : terms[l] \in Int
<1> DEFINE own == [l \in Indices(n) |-> A[i][l] * v[l]]
<1>1. \A l \in Indices(n) : A[i][l] \in Int /\ v[l] \in Int
  BY DEF Matrices, Vectors
<1>2. \A l \in 0..n - 1 : own[l] \in Int /\ terms[l] \in Int /\ terms[l] = own[l]
  BY <1>1 DEF Indices
<1>3. Apply(A, v, n)[i] = Reduce(own, n)
  BY DEF Apply
<1> HIDE DEF own
<1>4. Reduce(terms, n) = Reduce(own, n) /\ Reduce(own, n) \in Int
  BY <1>2, ReduceTerms, ReduceInt, ZenonT(60)
<1> QED BY <1>2, <1>3, <1>4 DEF Indices

\* A product is a vector.
LEMMA ApplyInt ==
  ASSUME NEW n \in Nat, NEW A \in Matrices(n), NEW v \in Vectors(n)
  PROVE  Apply(A, v, n) \in Vectors(n)
<1>1. ASSUME NEW i \in Indices(n) PROVE Apply(A, v, n)[i] \in Int
  <2> DEFINE own == [l \in Indices(n) |-> A[i][l] * v[l]]
  <2>1. \A l \in Indices(n) : own[l] = A[i][l] * v[l]
    OBVIOUS
  <2> HIDE DEF own
  <2> QED BY <2>1, ApplyAt
<1>2. Apply(A, v, n) = [i \in Indices(n) |-> Apply(A, v, n)[i]]
  BY DEF Apply
<1> QED BY <1>1, <1>2 DEF Vectors

\* The product with a sum, and with a congruent vector.
LEMMA ApplySum ==
  ASSUME NEW n \in Nat, NEW A \in Matrices(n), NEW u \in Vectors(n), NEW v \in Vectors(n),
         NEW w \in Vectors(n), \A l \in Indices(n) : w[l] = u[l] + v[l], NEW i \in Indices(n)
  PROVE  Apply(A, w, n)[i] = Apply(A, u, n)[i] + Apply(A, v, n)[i]
<1> DEFINE f == [l \in Indices(n) |-> A[i][l] * u[l]]
           g == [l \in Indices(n) |-> A[i][l] * v[l]]
           h == [l \in Indices(n) |-> A[i][l] * w[l]]
<1>1. \A l \in Indices(n) : /\ f[l] = A[i][l] * u[l] /\ g[l] = A[i][l] * v[l]
                            /\ h[l] = A[i][l] * w[l]
  OBVIOUS
<1> HIDE DEF f, g, h
<1>2. /\ Apply(A, u, n)[i] = Reduce(f, n) /\ \A l \in Indices(n) : f[l] \in Int
      /\ Apply(A, v, n)[i] = Reduce(g, n) /\ \A l \in Indices(n) : g[l] \in Int
      /\ Apply(A, w, n)[i] = Reduce(h, n)
  BY <1>1, ApplyAt
<1>3. \A l \in 0..n - 1 : f[l] \in Int /\ g[l] \in Int /\ h[l] = f[l] + g[l]
  <2> SUFFICES ASSUME NEW l \in Indices(n) PROVE f[l] \in Int /\ g[l] \in Int /\ h[l] = f[l] + g[l]
    BY DEF Indices
  <2>1. A[i][l] \in Int /\ u[l] \in Int /\ v[l] \in Int /\ w[l] = u[l] + v[l]
    BY DEF Matrices, Vectors
  <2>2. A[i][l] * (u[l] + v[l]) = A[i][l] * u[l] + A[i][l] * v[l]
    BY <2>1
  <2> QED BY <1>1, <1>2, <2>1, <2>2
<1> QED BY <1>2, <1>3, ReduceTerms

\* Congruent matrices take congruent vectors to congruent vectors.
LEMMA ApplyCongruent ==
  ASSUME NEW n \in Nat, NEW A \in Matrices(n), NEW B \in Matrices(n),
         NEW u \in Vectors(n), NEW v \in Vectors(n),
         \A i, l \in Indices(n) : Mod(A[i][l]) = Mod(B[i][l]),
         Congruent(u, v, n)
  PROVE  Congruent(Apply(A, u, n), Apply(B, v, n), n)
<1> SUFFICES ASSUME NEW i \in Indices(n) PROVE Mod(Apply(A, u, n)[i]) = Mod(Apply(B, v, n)[i])
  BY DEF Congruent
<1> DEFINE f == [l \in Indices(n) |-> A[i][l] * u[l]]
           g == [l \in Indices(n) |-> B[i][l] * v[l]]
<1>1. \A l \in Indices(n) : f[l] = A[i][l] * u[l] /\ g[l] = B[i][l] * v[l]
  OBVIOUS
<1> HIDE DEF f, g
<1>2. /\ Apply(A, u, n)[i] = Reduce(f, n) /\ \A l \in Indices(n) : f[l] \in Int
      /\ Apply(B, v, n)[i] = Reduce(g, n) /\ \A l \in Indices(n) : g[l] \in Int
  BY <1>1, ApplyAt
<1>3. \A l \in 0..n - 1 : f[l] \in Int /\ g[l] \in Int /\ Mod(f[l]) = Mod(g[l])
  <2> SUFFICES ASSUME NEW l \in Indices(n) PROVE f[l] \in Int /\ g[l] \in Int /\ Mod(f[l]) = Mod(g[l])
    BY DEF Indices
  <2>1. /\ A[i][l] \in Int /\ B[i][l] \in Int /\ u[l] \in Int /\ v[l] \in Int
        /\ Mod(A[i][l]) = Mod(B[i][l]) /\ Mod(u[l]) = Mod(v[l])
    BY DEF Matrices, Vectors, Congruent
  <2>2. Mod(A[i][l] * u[l]) = Mod(B[i][l] * v[l])
    BY <2>1, ModOfProduct, ZenonT(60)
  <2> QED BY <1>1, <1>2, <2>2
<1> QED BY <1>2, <1>3, ReduceCongruent

\* The product with a product: the columns say what two matrices come to.
LEMMA ApplyTwice ==
  ASSUME NEW n \in Nat, NEW A \in Matrices(n), NEW B \in Matrices(n), NEW E \in Matrices(n),
         \A l \in Indices(n) : Congruent(Apply(A, Column(B, l, n), n), Column(E, l, n), n),
         NEW v \in Vectors(n)
  PROVE  Congruent(Apply(A, Apply(B, v, n), n), Apply(E, v, n), n)
<1> SUFFICES ASSUME NEW i \in Indices(n)
             PROVE  Mod(Apply(A, Apply(B, v, n), n)[i]) = Mod(Apply(E, v, n)[i])
  BY DEF Congruent
<1> DEFINE a == [k \in 0..n - 1 |-> [l \in 0..n - 1 |-> A[i][k] * (B[k][l] * v[l])]]
           rows == [k \in 0..n - 1 |-> Reduce(a[k], n)]
           sums == [l \in 0..n - 1 |-> Reduce([k \in 0..n - 1 |-> a[k][l]], n)]
           terms == [l \in Indices(n) |-> E[i][l] * v[l]]
<1>1. \A k, l \in Indices(n) : /\ A[i][k] \in Int /\ B[k][l] \in Int /\ v[l] \in Int /\ E[k][l] \in Int
                               /\ a[k][l] = A[i][k] * (B[k][l] * v[l]) /\ a[k][l] \in Int
  <2> TAKE k, l \in Indices(n)
  <2>1. A[i][k] \in Int /\ B[k][l] \in Int /\ v[l] \in Int /\ E[k][l] \in Int
    BY DEF Matrices, Vectors
  <2>2. a[k][l] = A[i][k] * (B[k][l] * v[l])
    BY DEF Indices
  <2> QED BY <2>1, <2>2
<1>2. Reduce(rows, n) = Reduce(sums, n)
  <2>1. \A k, l \in 0..n - 1 : a[k][l] \in Int
    BY <1>1 DEF Indices
  <2> HIDE DEF a
  <2> QED BY <2>1, ReduceSwap
<1>3. Apply(A, Apply(B, v, n), n)[i] = Reduce(rows, n)
  <2>1. ASSUME NEW k \in Indices(n) PROVE rows[k] = A[i][k] * Apply(B, v, n)[k]
    <3> DEFINE own == [l \in Indices(n) |-> B[k][l] * v[l]]
    <3>1. rows[k] = Reduce(a[k], n) /\ \A l \in Indices(n) : own[l] = B[k][l] * v[l]
      BY DEF Indices
    <3> HIDE DEF own, a, rows
    <3>2. Apply(B, v, n)[k] = Reduce(own, n) /\ \A l \in Indices(n) : own[l] \in Int
      BY <3>1, ApplyAt
    <3>3. \A l \in 0..n - 1 : own[l] \in Int /\ a[k][l] = A[i][k] * own[l]
      BY <1>1, <3>1, <3>2 DEF Indices
    <3>4. A[i][k] \in Int
      BY <1>1
    <3>5. Reduce(a[k], n) = A[i][k] * Reduce(own, n)
      BY <3>3, <3>4, ReduceMultiple
    <3> QED BY <3>1, <3>2, <3>5
  <2> HIDE DEF rows
  <2>2. Apply(B, v, n) \in Vectors(n)
    BY ApplyInt
  <2> QED BY <2>1, <2>2, ApplyAt
<1>4. Apply(E, v, n)[i] = Reduce(terms, n) /\ \A l \in Indices(n) : terms[l] \in Int /\ terms[l] = E[i][l] * v[l]
  <2>1. \A l \in Indices(n) : terms[l] = E[i][l] * v[l]
    OBVIOUS
  <2> HIDE DEF terms
  <2> QED BY <2>1, ApplyAt
<1>5. ASSUME NEW l \in Indices(n) PROVE sums[l] \in Int /\ Mod(sums[l]) = Mod(terms[l])
  <2> DEFINE down == [k \in 0..n - 1 |-> a[k][l]]
             own == [k \in Indices(n) |-> A[i][k] * Column(B, l, n)[k]]
  <2>1. \A k \in Indices(n) : down[k] = a[k][l] /\ own[k] = A[i][k] * B[k][l] /\ own[k] = A[i][k] * Column(B, l, n)[k]
    BY DEF Indices, Column
  <2>2. sums[l] = Reduce(down, n)
    BY DEF Indices
  <2> HIDE DEF down, own, a, sums, terms
  <2>3. Column(B, l, n) \in Vectors(n)
    BY <1>1 DEF Column, Vectors
  <2>4. Apply(A, Column(B, l, n), n)[i] = Reduce(own, n) /\ Reduce(own, n) \in Int
    BY <2>1, <2>3, ApplyAt
  <2>5. \A k \in 0..n - 1 : own[k] \in Int /\ down[k] = v[l] * own[k]
    <3> SUFFICES ASSUME NEW k \in Indices(n) PROVE own[k] \in Int /\ down[k] = v[l] * own[k]
      BY DEF Indices
    <3>1. \A x, y, z \in Int : x * y \in Int /\ x * (y * z) = z * (x * y)
      OBVIOUS
    <3> QED BY <1>1, <2>1, <3>1
  <2>6. v[l] \in Int /\ E[i][l] \in Int
    BY <1>1
  <2>7. Reduce(down, n) = v[l] * Reduce(own, n)
    BY <2>5, <2>6, ReduceMultiple
  <2>8. Mod(Reduce(own, n)) = Mod(E[i][l])
    BY <2>4 DEF Congruent, Column
  <2>9. v[l] * Reduce(own, n) \in Int /\ Mod(v[l] * Reduce(own, n)) = Mod(v[l] * E[i][l])
    BY <2>4, <2>6, <2>8, ModOfMultiple
  <2>10. v[l] * E[i][l] = E[i][l] * v[l]
    BY <2>6
  <2> QED BY <1>4, <2>2, <2>7, <2>9, <2>10
<1>6. Mod(Reduce(sums, n)) = Mod(Reduce(terms, n))
  <2> HIDE DEF sums, terms
  <2>1. \A l \in 0..n - 1 : sums[l] \in Int /\ terms[l] \in Int /\ Mod(sums[l]) = Mod(terms[l])
    BY <1>4, <1>5 DEF Indices
  <2> QED BY <2>1, ReduceCongruent
<1> QED BY <1>2, <1>3, <1>4, <1>6

-----------------------------------------------------------------------------
(* The file of constants and the matrices in it. *)

\* What RoundsAssumption and ConstantsAssumption say of one width.
LEMMA Rounds ==
  /\ Half \in Nat /\ Half >= 1 /\ FullRounds = 2 * Half
  /\ \A n \in Widths : n \in Nat /\ n >= 2 /\ PartialRounds[n] \in Nat /\ 0 \in Indices(n)
<1>1. FullRounds \in Nat /\ FullRounds % 2 = 0 /\ FullRounds >= 2
  BY RoundsAssumption
<1>2. Half \in Nat /\ Half >= 1 /\ FullRounds = 2 * Half
  BY <1>1 DEF Half
<1>3. ASSUME NEW n \in Widths PROVE n \in Nat /\ n >= 2 /\ PartialRounds[n] \in Nat /\ 0 \in Indices(n)
  <2>1. n \in Nat \ {0, 1} /\ PartialRounds[n] \in Nat
    BY RoundsAssumption
  <2> QED BY <2>1 DEF Indices
<1> QED BY <1>2, <1>3

\* A square of the file, as it is and transposed.
ByRows(matrix, n) == [i \in Indices(n) |-> [l \in Indices(n) |-> matrix[i + 1][l + 1]]]
ByColumns(matrix, n) == [i \in Indices(n) |-> [l \in Indices(n) |-> matrix[l + 1][i + 1]]]

\* The products that ScheduleFolds is stated with are these.
LEMMA SquaresAreMatrices ==
  ASSUME NEW n \in Nat, NEW matrix \in [1..n -> [1..n -> Int]]
  PROVE  /\ ByRows(matrix, n) \in Matrices(n) /\ ByColumns(matrix, n) \in Matrices(n)
         /\ \A v : RowsTimes(matrix, v, n) = Apply(ByRows(matrix, n), v, n)
         /\ \A v : ColumnsTimes(matrix, v, n) = Apply(ByColumns(matrix, n), v, n)
<1>1. \A i, l \in Indices(n) : matrix[i + 1][l + 1] \in Int
  <2> SUFFICES ASSUME NEW i \in Indices(n), NEW l \in Indices(n) PROVE matrix[i + 1][l + 1] \in Int
    OBVIOUS
  <2>1. i + 1 \in 1..n /\ l + 1 \in 1..n
    BY DEF Indices
  <2> QED BY <2>1
<1>2. ByRows(matrix, n) \in Matrices(n) /\ ByColumns(matrix, n) \in Matrices(n)
  BY <1>1 DEF ByRows, ByColumns, Matrices, Vectors
<1>3. ASSUME NEW v PROVE RowsTimes(matrix, v, n) = Apply(ByRows(matrix, n), v, n)
  <2>1. ASSUME NEW i \in Indices(n)
        PROVE  [l \in Indices(n) |-> matrix[i + 1][l + 1] * v[l]]
                 = [l \in Indices(n) |-> ByRows(matrix, n)[i][l] * v[l]]
    BY DEF ByRows
  <2> QED BY <2>1 DEF RowsTimes, Apply
<1>4. ASSUME NEW v PROVE ColumnsTimes(matrix, v, n) = Apply(ByColumns(matrix, n), v, n)
  <2>1. ASSUME NEW i \in Indices(n)
        PROVE  [l \in Indices(n) |-> matrix[l + 1][i + 1] * v[l]]
                 = [l \in Indices(n) |-> ByColumns(matrix, n)[i][l] * v[l]]
    BY DEF ByColumns
  <2> QED BY <2>1 DEF ColumnsTimes, Apply
<1> QED BY <1>2, <1>3, <1>4

\* The products of the rounds are products of matrices.
SparseMatrix(j, n) ==
  [k \in Indices(n) |->
     [l \in Indices(n) |->
        IF k = 0 THEN S[n][(2 * n - 1) * j + l + 1]
        ELSE IF l = k THEN 1 ELSE IF l = 0 THEN S[n][(2 * n - 1) * j + n + k] ELSE 0]]

\* The constants of one partial round are in the list.
LEMMA SparseIndices ==
  ASSUME NEW n \in Widths, NEW j \in 0..PartialRounds[n] - 1
  PROVE  \A p \in 1..2 * n - 1 : S[n][(2 * n - 1) * j + p] \in Int
<1> DEFINE R == PartialRounds[n]
           a == 2 * n - 1
<1>1. S[n] \in [1..a * R -> Int]
  BY ConstantsAssumption
<1>2. a \in Nat /\ R \in Nat
  BY Rounds
<1>3. j \in Nat /\ j + 1 <= R
  BY <1>2
<1> HIDE DEF a, R
<1> SUFFICES ASSUME NEW p \in 1..a PROVE S[n][a * j + p] \in Int
  BY DEF a
<1>4. a * j + a = a * (j + 1) /\ a * j \in Nat
  BY <1>2, <1>3
<1>5. a * (j + 1) <= a * R
  BY <1>2, <1>3
<1>6. a * j + p \in 1..a * R
  BY <1>2, <1>4, <1>5
<1> QED BY <1>1, <1>6

\* The product of a partial round is that of its matrix.
LEMMA SparseIsAMatrix ==
  ASSUME NEW n \in Widths, NEW j \in 0..PartialRounds[n] - 1
  PROVE  /\ SparseMatrix(j, n) \in Matrices(n)
         /\ \A v \in Vectors(n) : \A k \in Indices(n) :
              SparseTimes(j, v, n)[k] = Apply(SparseMatrix(j, n), v, n)[k]
<1> DEFINE from == (2 * n - 1) * j
           A == SparseMatrix(j, n)
<1>1. n \in Nat /\ n >= 2 /\ 0 \in Indices(n)
  BY Rounds
<1>2. /\ \A l \in Indices(n) : S[n][from + l + 1] \in Int
      /\ \A k \in Indices(n) : k # 0 => S[n][from + n + k] \in Int
  <2>1. from \in Int
    BY <1>1, Rounds
  <2>2. \A p \in 1..2 * n - 1 : S[n][from + p] \in Int
    BY SparseIndices
  <2> HIDE DEF from
  <2>3. ASSUME NEW l \in Indices(n) PROVE S[n][from + l + 1] \in Int
    <3>1. l + 1 \in 1..2 * n - 1 /\ from + l + 1 = from + (l + 1)
      BY <1>1, <2>1 DEF Indices
    <3> QED BY <2>2, <3>1
  <2>4. ASSUME NEW k \in Indices(n), k # 0 PROVE S[n][from + n + k] \in Int
    <3>1. n + k \in 1..2 * n - 1 /\ from + n + k = from + (n + k)
      BY <1>1, <2>1, <2>4 DEF Indices
    <3> QED BY <2>2, <3>1
  <2> QED BY <2>3, <2>4
<1>3. ASSUME NEW k \in Indices(n), NEW l \in Indices(n)
      PROVE  /\ A[k][l] = IF k = 0 THEN S[n][from + l + 1]
                          ELSE IF l = k THEN 1 ELSE IF l = 0 THEN S[n][from + n + k] ELSE 0
             /\ A[k][l] \in Int
  BY <1>2 DEF SparseMatrix
<1>4. A \in Matrices(n)
  <2>1. A = [k \in Indices(n) |-> [l \in Indices(n) |-> A[k][l]]]
    BY Zenon DEF SparseMatrix
  <2> HIDE DEF A
  <2>2. \A k, l \in Indices(n) : A[k][l] \in Int
    BY <1>3
  <2> QED BY <2>1, <2>2 DEF Matrices, Vectors
<1>5. ASSUME NEW v \in Vectors(n), NEW k \in Indices(n)
      PROVE  SparseTimes(j, v, n)[k] = Apply(A, v, n)[k]
  <2>1. \A l \in Indices(n) : v[l] \in Int
    BY DEF Vectors
  <2>2. CASE k = 0
    <3> DEFINE terms == [i \in Indices(n) |-> S[n][from + i + 1] * v[i]]
    <3>1. SparseTimes(j, v, n)[k] = Reduce(terms, n)
      BY <2>2 DEF SparseTimes
    <3>2. \A l \in Indices(n) : terms[l] = A[k][l] * v[l]
      BY <1>3, <2>2
    <3> HIDE DEF terms, A
    <3> QED BY <1>1, <1>4, <3>1, <3>2, ApplyAt
  <2>3. CASE k # 0
    <3> DEFINE terms == [l \in Indices(n) |-> A[k][l] * v[l]]
               one == [l \in Indices(n) |-> IF l = k THEN v[k] ELSE 0]
               other == [l \in Indices(n) |-> IF l = 0 THEN v[0] * S[n][from + n + k] ELSE 0]
    <3>1. SparseTimes(j, v, n)[k] = v[k] + v[0] * S[n][from + n + k]
      BY <2>3 DEF SparseTimes
    <3>2. S[n][from + n + k] \in Int /\ v[0] \in Int /\ v[k] \in Int
      BY <1>1, <1>2, <2>1, <2>3
    <3>3. \A l \in Indices(n) : one[l] \in Int /\ other[l] \in Int /\ terms[l] = one[l] + other[l]
      <4> TAKE l \in Indices(n)
      <4>1. CASE l = k
        BY <1>3, <2>3, <3>2, <4>1
      <4>2. CASE l = 0
        <5>1. A[k][l] = S[n][from + n + k] /\ one[l] = 0 /\ other[l] = v[0] * S[n][from + n + k]
          BY <1>3, <2>3, <4>2
        <5>2. terms[l] = S[n][from + n + k] * v[0]
          BY <4>2, <5>1
        <5> HIDE DEF from, A, one, other, terms
        <5> QED BY <3>2, <5>1, <5>2
      <4>3. CASE l # k /\ l # 0
        BY <1>3, <2>1, <2>3, <4>3
      <4> QED BY <4>1, <4>2, <4>3
    <3>4. /\ one[k] = v[k] /\ \A l \in Indices(n) : l # k => one[l] = 0
          /\ other[0] = v[0] * S[n][from + n + k] /\ \A l \in Indices(n) : l # 0 => other[l] = 0
      BY <1>1
    <3>5. \A l \in Indices(n) : terms[l] = A[k][l] * v[l]
      OBVIOUS
    <3> HIDE DEF terms, one, other, A
    <3>6. Apply(A, v, n)[k] = Reduce(terms, n)
      BY <1>1, <1>4, <3>5, ApplyAt
    <3>7. Reduce(terms, n) = Reduce(one, n) + Reduce(other, n)
      BY <1>1, <3>3, ReduceTerms DEF Indices
    <3>8. Reduce(one, n) = one[k]
      BY <1>1, <3>3, <3>4, ReduceSingle DEF Indices
    <3>9. Reduce(other, n) = other[0]
      BY <1>1, <3>3, <3>4, ReduceSingle DEF Indices
    <3> QED BY <3>1, <3>4, <3>6, <3>7, <3>8, <3>9
  <2> QED BY <2>2, <2>3
<1> QED BY <1>4, <1>5

-----------------------------------------------------------------------------
(* The rounds of the code and of the permutation, side by side. *)

Residues(n) == [Indices(n) -> ResiduesOfField]

\* Residues are integers.
LEMMA ResiduesAreVectors ==
  \A n : Residues(n) \subseteq Vectors(n)
<1>1. ResiduesOfField \subseteq Int
  BY ModResidue DEF ResiduesOfField
<1> QED BY <1>1 DEF Residues, Vectors

\* The S-boxes of congruent states are equal.
LEMMA BoxesAgree ==
  ASSUME NEW n \in Nat, NEW s \in Vectors(n), NEW t \in Vectors(n), Congruent(s, t, n)
  PROVE  SBox(s) = SBox(t) /\ SBox(s) \in Residues(n)
<1>1. DOMAIN s = Indices(n) /\ DOMAIN t = Indices(n)
  BY DEF Vectors
<1>2. \A i \in Indices(n) : Pow5(s[i]) = Pow5(t[i]) /\ Pow5(s[i]) \in ResiduesOfField
  BY PowerOfResidue DEF Vectors, Congruent
<1> QED BY <1>1, <1>2 DEF SBox, Residues

\* AddConstants adds a piece of the list.
LEMMA ConstantsAdded ==
  ASSUME NEW n \in Nat, NEW s \in Vectors(n), NEW list, NEW from, Piece(list, from, n) \in Vectors(n)
  PROVE  /\ AddConstants(s, list, from) \in Residues(n)
         /\ \A i \in Indices(n) : /\ s[i] \in Int /\ Piece(list, from, n)[i] \in Int
                                  /\ AddConstants(s, list, from)[i] = Mod(s[i] + Piece(list, from, n)[i])
                                  /\ Mod(AddConstants(s, list, from)[i]) = Mod(s[i] + Piece(list, from, n)[i])
<1>1. DOMAIN s = Indices(n) /\ \A i \in Indices(n) : s[i] \in Int
  BY DEF Vectors
<1>2. \A i \in Indices(n) : Piece(list, from, n)[i] = list[from + i + 1] /\ list[from + i + 1] \in Int
  BY DEF Vectors, Piece
<1>3. AddConstants(s, list, from) = [i \in Indices(n) |-> Mod(s[i] + list[from + i + 1])]
  BY <1>1 DEF AddConstants
<1>4. ASSUME NEW i \in Indices(n)
      PROVE  /\ Mod(s[i] + list[from + i + 1]) \in ResiduesOfField
             /\ Mod(Mod(s[i] + list[from + i + 1])) = Mod(s[i] + list[from + i + 1])
  <2>1. s[i] + list[from + i + 1] \in Int
    BY <1>1, <1>2
  <2> QED BY <2>1, ModOfMod, ModResidue
<1> QED BY <1>1, <1>2, <1>3, <1>4 DEF Residues

\* Mix multiplies by the transposed square.
LEMMA MixIsAProduct ==
  ASSUME NEW n \in Nat, Width = n, NEW s \in Vectors(n), NEW matrix \in [1..n -> [1..n -> Int]]
  PROVE  /\ Mix(s, matrix) \in Residues(n)
         /\ \A i \in Indices(n) : Mix(s, matrix)[i] = Mod(Apply(ByColumns(matrix, n), s, n)[i])
<1> DEFINE A == ByColumns(matrix, n)
<1>1. DOMAIN s = Indices(n)
  BY DEF Vectors
<1>2. Mix(s, matrix) = [i \in Indices(n) |-> Mod(ColumnsTimes(matrix, s, n)[i])]
  BY <1>1 DEF Mix, ColumnsTimes
<1>3. A \in Matrices(n) /\ ColumnsTimes(matrix, s, n) = Apply(A, s, n)
  BY SquaresAreMatrices
<1> HIDE DEF A
<1>4. \A i \in Indices(n) : Apply(A, s, n)[i] \in Int
  BY <1>3, ApplyInt DEF Vectors
<1>5. \A i \in Indices(n) : Mod(Apply(A, s, n)[i]) \in ResiduesOfField
  BY <1>4, ModResidue
<1> QED BY <1>2, <1>3, <1>5 DEF Residues, A

\* The product with a sum known up to congruence.
LEMMA ApplyCongruentSum ==
  ASSUME NEW n \in Nat, NEW A \in Matrices(n), NEW u \in Vectors(n), NEW v \in Vectors(n),
         NEW w \in Vectors(n), \A l \in Indices(n) : Mod(w[l]) = Mod(u[l] + v[l])
  PROVE  \A i \in Indices(n) :
           /\ Apply(A, u, n)[i] \in Int /\ Apply(A, v, n)[i] \in Int /\ Apply(A, w, n)[i] \in Int
           /\ Mod(Apply(A, w, n)[i]) = Mod(Apply(A, u, n)[i] + Apply(A, v, n)[i])
<1>1. PICK t : t = [l \in Indices(n) |-> u[l] + v[l]]
  OBVIOUS
<1>2. t \in Vectors(n) /\ \A l \in Indices(n) : t[l] = u[l] + v[l]
  BY <1>1 DEF Vectors
<1>3. Congruent(w, t, n)
  BY <1>2 DEF Congruent
<1>4. \A i, l \in Indices(n) : Mod(A[i][l]) = Mod(A[i][l])
  OBVIOUS
<1>5. Congruent(Apply(A, w, n), Apply(A, t, n), n)
  BY <1>2, <1>3, <1>4, ApplyCongruent
<1>6. \A i \in Indices(n) : Apply(A, t, n)[i] = Apply(A, u, n)[i] + Apply(A, v, n)[i]
  BY <1>2, ApplySum
<1>7. \A x \in Vectors(n) : \A i \in Indices(n) : Apply(A, x, n)[i] \in Int
  BY ApplyInt DEF Vectors
<1> QED BY <1>5, <1>6, <1>7 DEF Congruent

\* The sum of two vectors.
Plus(u, v, n) == [i \in Indices(n) |-> u[i] + v[i]]

\* A sum is a vector.
LEMMA PlusIsAVector ==
  ASSUME NEW n, NEW u \in Vectors(n), NEW v \in Vectors(n)
  PROVE  /\ Plus(u, v, n) \in Vectors(n)
         /\ \A i \in Indices(n) : u[i] \in Int /\ v[i] \in Int /\ Plus(u, v, n)[i] = u[i] + v[i]
BY DEF Plus, Vectors

\* A round's product with a sum, term by term.
RoundAdds(next, box, A, c, n) ==
  /\ next \in Residues(n)
  /\ \A i \in Indices(n) :
       /\ Apply(A, box, n)[i] \in Int /\ Apply(A, c, n)[i] \in Int
       /\ Mod(next[i]) = Mod(Apply(A, box, n)[i] + Apply(A, c, n)[i])

\* A full round of the code (poseidon.ts:121-131, 146-163) on what the permutation
\* has after adding its constants: mixed, and added what the list has.
LEMMA FullRoundOfTheCode ==
  ASSUME NEW n \in Nat, Width = n, NEW s \in Vectors(n), NEW added \in Vectors(n), Congruent(s, added, n),
         NEW matrix \in [1..n -> [1..n -> Int]],
         NEW list, NEW from, Piece(list, from, n) \in Vectors(n)
  PROVE  RoundAdds(Mix(AddConstants(SBox(s), list, from), matrix), SBox(added),
                   ByColumns(matrix, n), Piece(list, from, n), n)
<1> DEFINE A == ByColumns(matrix, n)
           box == SBox(added)
           c == Piece(list, from, n)
           mid == AddConstants(box, list, from)
           next == Mix(mid, matrix)
<1>1. SBox(s) = box /\ box \in Vectors(n)
  BY BoxesAgree, ResiduesAreVectors
<1>2. A \in Matrices(n) /\ c \in Vectors(n)
  BY SquaresAreMatrices
<1>3. mid \in Vectors(n) /\ \A i \in Indices(n) : Mod(mid[i]) = Mod(box[i] + c[i])
  <2> HIDE DEF box
  <2> QED BY <1>1, <1>2, ConstantsAdded, ResiduesAreVectors
<1>4. next \in Residues(n) /\ \A i \in Indices(n) : next[i] = Mod(Apply(A, mid, n)[i])
  <2> HIDE DEF mid
  <2> QED BY <1>3, MixIsAProduct
<1> HIDE DEF A, box, c, mid, next
<1>5. \A i \in Indices(n) :
        /\ Apply(A, box, n)[i] \in Int /\ Apply(A, c, n)[i] \in Int /\ Apply(A, mid, n)[i] \in Int
        /\ Mod(Apply(A, mid, n)[i]) = Mod(Apply(A, box, n)[i] + Apply(A, c, n)[i])
  BY <1>1, <1>2, <1>3, ApplyCongruentSum, SMTT(30)
<1>6. \A i \in Indices(n) : Mod(next[i]) = Mod(Apply(A, mid, n)[i])
  BY <1>4, <1>5, ModOfMod
<1>7. Mix(AddConstants(SBox(s), list, from), matrix) = next
  BY <1>1 DEF next, mid
<1> QED BY <1>4, <1>5, <1>6, <1>7 DEF RoundAdds, A, box, c

-----------------------------------------------------------------------------
(* What ScheduleFolds says of one width, in matrices. *)

Rc(n, r) == Piece(RoundConstants[n][r], 0, n)
Added(n, from) == Piece(C[n], from, n)
Only(x, n) == [i \in Indices(n) |-> IF i = 0 THEN x ELSE 0]
Moved(shift, n, j) ==
  [i \in Indices(n) |-> Rc(n, Half + 1 + j)[i] - Piece(shift[n][j + 1], 0, n)[i]]

\* The pieces of the lists that the rounds use are vectors.
LEMMA ListsAreVectors ==
  ASSUME NEW n \in Widths
  PROVE  /\ \A r \in 1..FullRounds + PartialRounds[n] : Rc(n, r) \in Vectors(n)
         /\ \A from \in Nat : from + n <= FullRounds * n + PartialRounds[n] => Added(n, from) \in Vectors(n)
<1>1. /\ C[n] \in [1..FullRounds * n + PartialRounds[n] -> Int]
      /\ RoundConstants[n] \in [1..FullRounds + PartialRounds[n] -> [1..n -> Int]]
  BY ConstantsAssumption
<1>2. n \in Nat /\ FullRounds * n + PartialRounds[n] \in Nat
  BY Rounds
<1>3. ASSUME NEW r \in 1..FullRounds + PartialRounds[n] PROVE Rc(n, r) \in Vectors(n)
  <2>1. RoundConstants[n][r] \in [1..n -> Int]
    BY <1>1
  <2>2. ASSUME NEW i \in Indices(n) PROVE RoundConstants[n][r][0 + i + 1] \in Int
    <3>1. 0 + i + 1 \in 1..n
      BY <1>2 DEF Indices
    <3> QED BY <2>1, <3>1
  <2> QED BY <2>2 DEF Rc, Piece, Vectors
<1>4. ASSUME NEW from \in Nat, from + n <= FullRounds * n + PartialRounds[n]
      PROVE  Added(n, from) \in Vectors(n)
  <2>1. ASSUME NEW i \in Indices(n) PROVE C[n][from + i + 1] \in Int
    <3>1. from + i + 1 \in 1..FullRounds * n + PartialRounds[n]
      <4>1. i \in Nat /\ i + 1 <= n
        BY <1>2 DEF Indices
      <4> QED BY <1>2, <1>4, <4>1
    <3> QED BY <1>1, <3>1
  <2> QED BY <2>1 DEF Added, Piece, Vectors
<1> QED BY <1>3, <1>4

\* Of the turns and the shifts.
LEMMA FoldsOfTurns ==
  ASSUME NEW turn, NEW shift, ScheduleFolds(turn, shift), NEW n \in Widths, NEW j \in 0..PartialRounds[n]
  PROVE  /\ turn[n][j + 1] \in [1..n -> [1..n -> Int]] /\ shift[n][j + 1] \in [1..n -> Int]
         /\ \A i \in Indices(n) : /\ turn[n][j + 1][1][i + 1] = Only(1, n)[i]
                                  /\ turn[n][j + 1][i + 1][1] = Only(1, n)[i]
         /\ Mod(Piece(shift[n][j + 1], 0, n)[0]) = Mod(Rc(n, Half + 1 + j)[0])
BY DEF ScheduleFolds, Only, Rc

\* Of the constants of the full rounds that stay with M.
LEMMA FoldsOfFullRounds ==
  ASSUME NEW turn, NEW shift, ScheduleFolds(turn, shift), NEW n \in Widths
  PROVE  /\ Congruent(Added(n, 0), Rc(n, 1), n)
         /\ \A r \in 1..Half - 1 : Congruent(ColumnsTimes(M[n], Added(n, r * n), n), Rc(n, r + 1), n)
         /\ \A r \in 0..Half - 2 :
              Congruent(ColumnsTimes(M[n], Added(n, (Half + 1) * n + PartialRounds[n] + r * n), n),
                        Rc(n, Half + PartialRounds[n] + r + 2), n)
BY DEF ScheduleFolds, Added, Rc

\* Of P and the constants of the turning round.
LEMMA FoldsOfTheTurningRound ==
  ASSUME NEW turn, NEW shift, ScheduleFolds(turn, shift), NEW n \in Widths
  PROVE  /\ \A l \in Indices(n) :
              Congruent(RowsTimes(turn[n][1], Piece(M[n][l + 1], 0, n), n), Piece(P[n][l + 1], 0, n), n)
         /\ Congruent(ColumnsTimes(P[n], Added(n, Half * n), n),
                      RowsTimes(turn[n][1], Piece(shift[n][1], 0, n), n), n)
<1>1. 0 + 1 = 1
  OBVIOUS
<1> QED BY <1>1 DEF ScheduleFolds, Added

\* Of the sparse matrices and the constants of the partial rounds.
LEMMA FoldsOfPartialRounds ==
  ASSUME NEW turn, NEW shift, ScheduleFolds(turn, shift), NEW n \in Widths, NEW j \in 0..PartialRounds[n] - 1
  PROVE  /\ \A l \in Indices(n) :
              Congruent(SparseTimes(j, [i \in Indices(n) |-> turn[n][j + 1][i + 1][l + 1]], n),
                        RowsTimes(turn[n][(j + 1) + 1], Piece(M[n][l + 1], 0, n), n), n)
         /\ Congruent(SparseTimes(j, Only(C[n][(Half + 1) * n + j + 1], n), n),
                      RowsTimes(turn[n][(j + 1) + 1],
                                Plus(ColumnsTimes(M[n], Moved(shift, n, j), n),
                                     Piece(shift[n][(j + 1) + 1], 0, n), n), n), n)
BY DEF ScheduleFolds, Plus, Moved, Rc, Only

\* Of the last turn and the last shift.
LEMMA FoldsOfTheLastTurn ==
  ASSUME NEW turn, NEW shift, ScheduleFolds(turn, shift), NEW n \in Widths
  PROVE  /\ \A i, l \in Indices(n) : turn[n][PartialRounds[n] + 1][i + 1][l + 1] = IF i = l THEN 1 ELSE 0
         /\ Congruent(Piece(shift[n][PartialRounds[n] + 1], 0, n), Rc(n, Half + PartialRounds[n] + 1), n)
BY DEF ScheduleFolds, Rc

Turned(turn, n, j) == ByRows(turn[n][j + 1], n)
Shifted(shift, n, j) == Piece(shift[n][j + 1], 0, n)

\* A matrix that leaves the first element alone.
LeavesFirstAlone(A, n) ==
  \A l \in Indices(n) : A[0][l] = Only(1, n)[l] /\ A[l][0] = Only(1, n)[l]

\* Such a matrix keeps the first element, and does not use it for the others.
LEMMA FirstAlone ==
  ASSUME NEW n \in Nat, 0 \in Indices(n), NEW A \in Matrices(n), LeavesFirstAlone(A, n),
         NEW u \in Vectors(n), NEW v \in Vectors(n), \A l \in Indices(n) : l # 0 => u[l] = v[l]
  PROVE  /\ Apply(A, u, n)[0] = u[0]
         /\ \A k \in Indices(n) : k # 0 => Apply(A, u, n)[k] = Apply(A, v, n)[k]
<1>1. \A k, l \in Indices(n) : A[k][l] \in Int /\ u[l] \in Int /\ v[l] \in Int
  BY DEF Matrices, Vectors
<1>2. \A l \in Indices(n) : /\ A[0][l] = IF l = 0 THEN 1 ELSE 0
                            /\ A[l][0] = IF l = 0 THEN 1 ELSE 0
  BY DEF LeavesFirstAlone, Only
<1>3. Apply(A, u, n)[0] = u[0]
  <2> DEFINE f == [l \in Indices(n) |-> A[0][l] * u[l]]
  <2>1. \A l \in Indices(n) : f[l] = A[0][l] * u[l] /\ f[l] = IF l = 0 THEN u[0] ELSE 0
    BY <1>1, <1>2
  <2> HIDE DEF f
  <2>2. Apply(A, u, n)[0] = Reduce(f, n)
    BY <2>1, ApplyAt
  <2>3. f[0] \in Int /\ f[0] = u[0] /\ \A l \in 0..n - 1 : l # 0 => f[l] = 0
    BY <1>1, <2>1 DEF Indices
  <2>4. Reduce(f, n) = f[0]
    BY <2>3, ReduceSingle DEF Indices
  <2> QED BY <2>2, <2>3, <2>4
<1>4. ASSUME NEW k \in Indices(n), k # 0 PROVE Apply(A, u, n)[k] = Apply(A, v, n)[k]
  <2> DEFINE f == [l \in Indices(n) |-> A[k][l] * u[l]]
             g == [l \in Indices(n) |-> A[k][l] * v[l]]
  <2>1. \A l \in Indices(n) : f[l] = A[k][l] * u[l] /\ g[l] = A[k][l] * v[l]
    OBVIOUS
  <2>2. \A l \in Indices(n) : f[l] = g[l]
    <3> TAKE l \in Indices(n)
    <3>1. CASE l = 0
      <4>1. A[k][l] = 0 /\ u[l] \in Int /\ v[l] \in Int
        BY <1>1, <1>2, <1>4, <3>1
      <4> QED BY <2>1, <4>1
    <3>2. CASE l # 0
      BY <2>1, <3>2
    <3> QED BY <3>1, <3>2
  <2> HIDE DEF f, g
  <2>3. /\ Apply(A, u, n)[k] = Reduce(f, n) /\ \A l \in Indices(n) : f[l] \in Int
        /\ Apply(A, v, n)[k] = Reduce(g, n) /\ \A l \in Indices(n) : g[l] \in Int
    BY <2>1, ApplyAt
  <2>4. \A l \in 0..n - 1 : f[l] \in Int /\ g[l] \in Int /\ f[l] = g[l]
    BY <2>2, <2>3 DEF Indices
  <2>5. Reduce(f, n) = Reduce(g, n)
    BY <2>4, ReduceTerms
  <2> QED BY <2>3, <2>5
<1> QED BY <1>3, <1>4

\* Turns are such matrices, and shifts are vectors.
LEMMA TurnsAreMatrices ==
  ASSUME NEW turn, NEW shift, ScheduleFolds(turn, shift), NEW n \in Widths, NEW j \in 0..PartialRounds[n]
  PROVE  /\ Turned(turn, n, j) \in Matrices(n) /\ LeavesFirstAlone(Turned(turn, n, j), n)
         /\ Shifted(shift, n, j) \in Vectors(n)
         /\ Mod(Shifted(shift, n, j)[0]) = Mod(Rc(n, Half + 1 + j)[0])
         /\ \A v : RowsTimes(turn[n][j + 1], v, n) = Apply(Turned(turn, n, j), v, n)
         /\ \A l \in Indices(n) :
              Column(Turned(turn, n, j), l, n) = [i \in Indices(n) |-> turn[n][j + 1][i + 1][l + 1]]
<1>1. n \in Nat /\ 0 \in Indices(n)
  BY Rounds
<1>2. /\ turn[n][j + 1] \in [1..n -> [1..n -> Int]] /\ shift[n][j + 1] \in [1..n -> Int]
      /\ \A i \in Indices(n) : /\ turn[n][j + 1][1][i + 1] = Only(1, n)[i]
                               /\ turn[n][j + 1][i + 1][1] = Only(1, n)[i]
      /\ Mod(Piece(shift[n][j + 1], 0, n)[0]) = Mod(Rc(n, Half + 1 + j)[0])
  BY FoldsOfTurns
<1>3. /\ Turned(turn, n, j) \in Matrices(n)
      /\ \A v : RowsTimes(turn[n][j + 1], v, n) = Apply(Turned(turn, n, j), v, n)
  BY <1>1, <1>2, SquaresAreMatrices DEF Turned
<1>4. \A i, l \in Indices(n) : Turned(turn, n, j)[i][l] = turn[n][j + 1][i + 1][l + 1]
  BY DEF Turned, ByRows
<1>5. LeavesFirstAlone(Turned(turn, n, j), n)
  <2>1. 0 + 1 = 1
    OBVIOUS
  <2> QED BY <1>1, <1>2, <1>4, <2>1 DEF LeavesFirstAlone
<1>6. \A l \in Indices(n) :
        Column(Turned(turn, n, j), l, n) = [i \in Indices(n) |-> turn[n][j + 1][i + 1][l + 1]]
  BY <1>4 DEF Column
<1>7. Shifted(shift, n, j) \in Vectors(n)
  <2>1. ASSUME NEW i \in Indices(n) PROVE shift[n][j + 1][0 + i + 1] \in Int
    <3>1. 0 + i + 1 \in 1..n
      BY <1>1 DEF Indices
    <3> QED BY <1>2, <3>1
  <2> QED BY <2>1 DEF Shifted, Piece, Vectors
<1> QED BY <1>2, <1>3, <1>5, <1>6, <1>7 DEF Shifted

\* M and P by columns.
LEMMA ColumnsOfSquares ==
  ASSUME NEW n \in Widths
  PROVE  /\ M[n] \in [1..n -> [1..n -> Int]] /\ P[n] \in [1..n -> [1..n -> Int]]
         /\ ByColumns(M[n], n) \in Matrices(n) /\ ByColumns(P[n], n) \in Matrices(n)
         /\ \A v : /\ ColumnsTimes(M[n], v, n) = Apply(ByColumns(M[n], n), v, n)
                   /\ ColumnsTimes(P[n], v, n) = Apply(ByColumns(P[n], n), v, n)
         /\ \A l \in Indices(n) : /\ Column(ByColumns(M[n], n), l, n) = Piece(M[n][l + 1], 0, n)
                                  /\ Column(ByColumns(P[n], n), l, n) = Piece(P[n][l + 1], 0, n)
<1>1. M[n] \in [1..n -> [1..n -> Int]] /\ P[n] \in [1..n -> [1..n -> Int]]
  BY ConstantsAssumption
<1>2. n \in Nat
  BY Rounds
<1>3. ASSUME NEW matrix, NEW l \in Indices(n)
      PROVE  Column(ByColumns(matrix, n), l, n) = Piece(matrix[l + 1], 0, n)
  <2>1. \A i \in Indices(n) : ByColumns(matrix, n)[i][l] = matrix[l + 1][i + 1] /\ 0 + i + 1 = i + 1
    BY <1>2 DEF ByColumns, Indices
  <2> QED BY <2>1 DEF Column, Piece
<1> QED BY <1>1, <1>2, <1>3, SquaresAreMatrices

\* The states of the code before the partial round j: shifted and turned.
TurnedState(turn, shift, n, j, x) == Apply(Turned(turn, n, j), Plus(x, Shifted(shift, n, j), n), n)

\* What the code has in its first element before a partial round is what the
\* permutation has after adding its constants.
LEMMA FirstElement ==
  ASSUME NEW turn, NEW shift, ScheduleFolds(turn, shift), NEW n \in Widths, NEW j \in 0..PartialRounds[n] - 1,
         NEW s \in Vectors(n), NEW x \in Vectors(n),
         Congruent(s, TurnedState(turn, shift, n, j, x), n),
         Rc(n, Half + 1 + j) \in Vectors(n)
  PROVE  Mod(s[0]) = Mod(x[0] + Rc(n, Half + 1 + j)[0])
<1> DEFINE T == Turned(turn, n, j)
           K == Shifted(shift, n, j)
           rc == Rc(n, Half + 1 + j)
           v == Plus(x, K, n)
<1>1. n \in Nat /\ 0 \in Indices(n) /\ j \in 0..PartialRounds[n]
  BY Rounds
<1>2. T \in Matrices(n) /\ LeavesFirstAlone(T, n) /\ K \in Vectors(n) /\ Mod(K[0]) = Mod(rc[0])
  BY <1>1, TurnsAreMatrices
<1>3. Congruent(s, Apply(T, v, n), n)
  BY DEF TurnedState
<1> HIDE DEF T, K, rc
<1>4. v \in Vectors(n) /\ v[0] = x[0] + K[0] /\ x[0] \in Int /\ K[0] \in Int
  BY <1>1, <1>2, PlusIsAVector
<1> HIDE DEF v
<1>5. Apply(T, v, n)[0] = v[0]
  BY <1>1, <1>2, <1>4, FirstAlone
<1>6. Mod(s[0]) = Mod(x[0] + K[0])
  BY <1>1, <1>3, <1>4, <1>5 DEF Congruent
<1>7. rc[0] \in Int
  BY <1>1 DEF Vectors, rc
<1>8. Mod(x[0]) = Mod(x[0])
  OBVIOUS
<1>9. Mod(x[0] + K[0]) = Mod(x[0] + rc[0])
  BY <1>2, <1>4, <1>7, <1>8, ModOfSum, ZenonT(60)
<1> QED BY <1>6, <1>9 DEF rc

\* Sparse multiplies by the sparse matrix of its round.
LEMMA SparseIsAProduct ==
  ASSUME NEW n \in Widths, Width = n, NEW j \in 0..PartialRounds[n] - 1, NEW s \in Vectors(n)
  PROVE  /\ Sparse(s, S[n], (2 * n - 1) * j) \in Residues(n)
         /\ \A k \in Indices(n) :
              /\ Apply(SparseMatrix(j, n), s, n)[k] \in Int
              /\ Sparse(s, S[n], (2 * n - 1) * j)[k] = Mod(Apply(SparseMatrix(j, n), s, n)[k])
<1> DEFINE from == (2 * n - 1) * j
           A == SparseMatrix(j, n)
<1>1. DOMAIN s = Indices(n) /\ n \in Nat
  BY Rounds DEF Vectors
<1>2. Sparse(s, S[n], from) = [k \in Indices(n) |-> Mod(SparseTimes(j, s, n)[k])]
  <2>1. ASSUME NEW k \in Indices(n)
        PROVE  Mod(SparseTimes(j, s, n)[k])
                 = IF k = 0 THEN Mod(Reduce([i \in Indices(n) |-> S[n][from + i + 1] * s[i]], n))
                   ELSE Mod(s[k] + s[0] * S[n][from + n + k])
    BY DEF SparseTimes
  <2> QED BY <1>1, <2>1 DEF Sparse
<1>3. A \in Matrices(n) /\ \A k \in Indices(n) : SparseTimes(j, s, n)[k] = Apply(A, s, n)[k]
  BY SparseIsAMatrix
<1> HIDE DEF A
<1>4. \A k \in Indices(n) : Apply(A, s, n)[k] \in Int
  BY <1>1, <1>3, ApplyInt DEF Vectors
<1>5. \A k \in Indices(n) : Mod(Apply(A, s, n)[k]) \in ResiduesOfField
  BY <1>4, ModResidue
<1> QED BY <1>2, <1>3, <1>4, <1>5 DEF Residues, A

\* The permutation's state after its S-box, shifted back: what the partial rounds of
\* the code work on.
Unshifted(turn, shift, n, j, x, z) ==
  [l \in Indices(n) |-> IF l = 0 THEN z ELSE x[l] + Shifted(shift, n, j)[l]]

\* What the code has after the S-box is a product and the round's one constant.
BoxAdds(boxed, u, T, e, n) ==
  /\ u \in Vectors(n) /\ Apply(T, u, n) \in Vectors(n)
  /\ \A l \in Indices(n) : Mod(boxed[l]) = Mod(Apply(T, u, n)[l] + Only(e, n)[l])

\* The S-box and the one constant of a partial round.
LEMMA BoxedState ==
  ASSUME NEW turn, NEW shift, ScheduleFolds(turn, shift), NEW n \in Widths, NEW j \in 0..PartialRounds[n] - 1,
         NEW s \in Vectors(n), NEW x \in Vectors(n),
         Congruent(s, TurnedState(turn, shift, n, j, x), n),
         NEW z \in Int, NEW e \in Int, NEW boxed \in Vectors(n),
         Mod(boxed[0]) = Mod(z + e), \A l \in Indices(n) : l # 0 => boxed[l] = s[l]
  PROVE  BoxAdds(boxed, Unshifted(turn, shift, n, j, x, z), Turned(turn, n, j), e, n)
<1> DEFINE T == Turned(turn, n, j)
           K == Shifted(shift, n, j)
           v == Plus(x, K, n)
           u == Unshifted(turn, shift, n, j, x, z)
<1>1. n \in Nat /\ 0 \in Indices(n) /\ j \in 0..PartialRounds[n]
  BY Rounds
<1>2. T \in Matrices(n) /\ LeavesFirstAlone(T, n) /\ K \in Vectors(n)
  BY <1>1, TurnsAreMatrices
<1>3. Congruent(s, Apply(T, v, n), n)
  BY DEF TurnedState
<1>4. \A l \in Indices(n) : u[l] = IF l = 0 THEN z ELSE x[l] + K[l]
  BY DEF Unshifted
<1>5. u = [l \in Indices(n) |-> u[l]]
  BY DEF Unshifted
<1> HIDE DEF T, K, u
<1>6. v \in Vectors(n) /\ \A l \in Indices(n) : v[l] = x[l] + K[l] /\ x[l] \in Int /\ K[l] \in Int
  BY <1>1, <1>2, PlusIsAVector
<1> HIDE DEF v
<1>7. u \in Vectors(n)
  <2>1. \A l \in Indices(n) : u[l] \in Int
    BY <1>4, <1>6
  <2> QED BY <1>5, <2>1 DEF Vectors
<1>8. \A l \in Indices(n) : l # 0 => u[l] = v[l]
  BY <1>4, <1>6
<1>9. /\ Apply(T, u, n)[0] = u[0]
      /\ \A k \in Indices(n) : k # 0 => Apply(T, u, n)[k] = Apply(T, v, n)[k]
  BY <1>1, <1>2, <1>6, <1>7, <1>8, FirstAlone
<1>10. Apply(T, u, n) \in Vectors(n)
  BY <1>1, <1>2, <1>7, ApplyInt
<1>11. ASSUME NEW l \in Indices(n) PROVE Mod(boxed[l]) = Mod(Apply(T, u, n)[l] + Only(e, n)[l])
  <2>1. CASE l = 0
    BY <1>1, <1>4, <1>9, <2>1 DEF Only
  <2>2. CASE l # 0
    <3>1. Only(e, n)[l] = 0 /\ boxed[l] = s[l]
      BY <2>2 DEF Only
    <3>2. Apply(T, u, n)[l] = Apply(T, v, n)[l] /\ Apply(T, u, n)[l] \in Int
      BY <1>9, <1>10, <2>2 DEF Vectors
    <3>3. Mod(s[l]) = Mod(Apply(T, v, n)[l])
      BY <1>3 DEF Congruent
    <3>4. Apply(T, u, n)[l] + 0 = Apply(T, u, n)[l]
      BY <3>2
    <3> QED BY <3>1, <3>2, <3>3, <3>4
  <2> QED BY <2>1, <2>2
<1> QED BY <1>7, <1>10, <1>11 DEF BoxAdds, T, u

\* What the S-box gives the permutation is what the code works on and what its
\* schedule has moved.
LEMMA BoxedIdeal ==
  ASSUME NEW turn, NEW shift, ScheduleFolds(turn, shift), NEW n \in Widths, NEW j \in 0..PartialRounds[n] - 1,
         NEW x \in Vectors(n), NEW z \in Int, NEW w \in Vectors(n), Rc(n, Half + 1 + j) \in Vectors(n),
         w[0] = z, \A l \in Indices(n) : l # 0 => Mod(w[l]) = Mod(x[l] + Rc(n, Half + 1 + j)[l])
  PROVE  /\ Moved(shift, n, j) \in Vectors(n)
         /\ \A l \in Indices(n) :
              Mod(w[l]) = Mod(Unshifted(turn, shift, n, j, x, z)[l] + Moved(shift, n, j)[l])
<1> DEFINE K == Shifted(shift, n, j)
           rc == Rc(n, Half + 1 + j)
           u == Unshifted(turn, shift, n, j, x, z)
           moved == Moved(shift, n, j)
<1>1. n \in Nat /\ 0 \in Indices(n) /\ j \in 0..PartialRounds[n]
  BY Rounds
<1>2. K \in Vectors(n) /\ Mod(K[0]) = Mod(rc[0])
  BY <1>1, TurnsAreMatrices
<1>3. \A l \in Indices(n) : /\ u[l] = IF l = 0 THEN z ELSE x[l] + K[l]
                            /\ moved[l] = rc[l] - K[l]
  BY DEF Unshifted, Moved, Shifted
<1>4. moved = [l \in Indices(n) |-> moved[l]]
  BY DEF Moved
<1>5. \A l \in Indices(n) : rc[l] \in Int /\ x[l] \in Int
  BY DEF Vectors
<1> HIDE DEF K, rc, u, moved
<1>6. \A l \in Indices(n) : K[l] \in Int /\ moved[l] \in Int
  BY <1>2, <1>3, <1>5 DEF Vectors
<1>7. moved \in Vectors(n)
  BY <1>4, <1>6 DEF Vectors
<1>8. ASSUME NEW l \in Indices(n) PROVE Mod(w[l]) = Mod(u[l] + moved[l])
  <2>1. CASE l = 0
    <3>1. K[0] \in Int /\ rc[0] \in Int /\ z \in Int
      BY <1>1, <1>5, <1>6
    <3>2. PICK d \in Int : d = z - K[0]
      BY <3>1
    <3>3. Mod(rc[0] + d) = Mod(K[0] + d)
      BY <1>2, <3>1, ModOfSum
    <3>4. rc[0] + d = z + (rc[0] - K[0]) /\ K[0] + d = z
      BY <3>1, <3>2
    <3>5. u[l] + moved[l] = z + (rc[0] - K[0]) /\ w[l] = z
      BY <1>3, <2>1
    <3> QED BY <3>3, <3>4, <3>5
  <2>2. CASE l # 0
    <3>1. (x[l] + K[l]) + (rc[l] - K[l]) = x[l] + rc[l]
      BY <1>5, <1>6
    <3>2. Mod(w[l]) = Mod(x[l] + rc[l])
      BY <2>2 DEF rc
    <3> QED BY <1>3, <2>2, <3>1, <3>2
  <2> QED BY <2>1, <2>2
<1> QED BY <1>7, <1>8 DEF u, moved

\* A partial round (poseidon.ts:133-144) leaves the code with the permutation's next
\* state, shifted and turned for the round after it.
LEMMA PartialRoundAgrees ==
  ASSUME NEW turn, NEW shift, ScheduleFolds(turn, shift), NEW n \in Widths, Width = n,
         NEW j \in 0..PartialRounds[n] - 1, NEW s \in Vectors(n), NEW x \in Vectors(n),
         Congruent(s, TurnedState(turn, shift, n, j, x), n),
         NEW z \in Int, NEW boxed \in Vectors(n), NEW w \in Vectors(n), NEW ideally \in Vectors(n),
         C[n][(Half + 1) * n + j + 1] \in Int, Rc(n, Half + 1 + j) \in Vectors(n),
         Mod(boxed[0]) = Mod(z + C[n][(Half + 1) * n + j + 1]),
         \A l \in Indices(n) : l # 0 => boxed[l] = s[l],
         w[0] = z, \A l \in Indices(n) : l # 0 => Mod(w[l]) = Mod(x[l] + Rc(n, Half + 1 + j)[l]),
         Congruent(ideally, Apply(ByColumns(M[n], n), w, n), n)
  PROVE  Congruent(Sparse(boxed, S[n], (2 * n - 1) * j), TurnedState(turn, shift, n, j + 1, ideally), n)
<1> DEFINE T == Turned(turn, n, j)
           U == Turned(turn, n, j + 1)
           K == Shifted(shift, n, j + 1)
           A == SparseMatrix(j, n)
           B == ByColumns(M[n], n)
           e == C[n][(Half + 1) * n + j + 1]
           u == Unshifted(turn, shift, n, j, x, z)
           moved == Moved(shift, n, j)
           next == Sparse(boxed, S[n], (2 * n - 1) * j)
           E == [i \in Indices(n) |-> [l \in Indices(n) |-> Apply(U, Column(B, l, n), n)[i]]]
           rest == Plus(Apply(B, moved, n), K, n)
<1>1. n \in Nat /\ 0 \in Indices(n) /\ j \in 0..PartialRounds[n] /\ j + 1 \in 0..PartialRounds[n]
  BY Rounds
<1>2. T \in Matrices(n) /\ U \in Matrices(n) /\ K \in Vectors(n) /\ A \in Matrices(n) /\ B \in Matrices(n)
  BY <1>1, TurnsAreMatrices, SparseIsAMatrix, ColumnsOfSquares
<1>3. /\ \A l \in Indices(n) : Congruent(Apply(A, Column(T, l, n), n), Apply(U, Column(B, l, n), n), n)
      /\ Congruent(Apply(A, Only(e, n), n), Apply(U, rest, n), n) /\ Only(e, n) \in Vectors(n)
  <2>1. /\ \A l \in Indices(n) :
             Congruent(SparseTimes(j, [i \in Indices(n) |-> turn[n][j + 1][i + 1][l + 1]], n),
                       RowsTimes(turn[n][(j + 1) + 1], Piece(M[n][l + 1], 0, n), n), n)
        /\ Congruent(SparseTimes(j, Only(e, n), n),
                     RowsTimes(turn[n][(j + 1) + 1], Plus(ColumnsTimes(M[n], moved, n), K, n), n), n)
    BY FoldsOfPartialRounds DEF Shifted
  <2>2. /\ \A v : RowsTimes(turn[n][(j + 1) + 1], v, n) = Apply(U, v, n)
        /\ \A l \in Indices(n) : Column(T, l, n) = [i \in Indices(n) |-> turn[n][j + 1][i + 1][l + 1]]
    BY <1>1, TurnsAreMatrices
  <2>3. /\ \A v : ColumnsTimes(M[n], v, n) = Apply(B, v, n)
        /\ \A l \in Indices(n) : Column(B, l, n) = Piece(M[n][l + 1], 0, n)
    BY ColumnsOfSquares
  <2>4. Only(e, n) \in Vectors(n)
    BY DEF Only, Vectors
  <2>5. \A v \in Vectors(n) : \A k \in Indices(n) : SparseTimes(j, v, n)[k] = Apply(A, v, n)[k]
    BY SparseIsAMatrix
  <2>6. \A l \in Indices(n) : Column(T, l, n) \in Vectors(n)
    <3> HIDE DEF T
    <3> QED BY <1>2 DEF Column, Matrices, Vectors
  <2> HIDE DEF A, B, T, U, K, e, moved
  <2>7. \A l \in Indices(n) : Congruent(Apply(A, Column(T, l, n), n), Apply(U, Column(B, l, n), n), n)
    <3> TAKE l \in Indices(n)
    <3>1. Congruent(SparseTimes(j, Column(T, l, n), n), Apply(U, Column(B, l, n), n), n)
      BY <2>1, <2>2, <2>3
    <3> QED BY <2>5, <2>6, <3>1 DEF Congruent
  <2>8. Congruent(Apply(A, Only(e, n), n), Apply(U, rest, n), n)
    <3>1. Congruent(SparseTimes(j, Only(e, n), n), Apply(U, rest, n), n)
      BY <2>1, <2>2, <2>3
    <3> HIDE DEF rest
    <3> QED BY <2>4, <2>5, <3>1 DEF Congruent
  <2> QED BY <2>4, <2>7, <2>8
<1>4. /\ u \in Vectors(n) /\ Apply(T, u, n) \in Vectors(n)
      /\ \A l \in Indices(n) : Mod(boxed[l]) = Mod(Apply(T, u, n)[l] + Only(e, n)[l])
  <2>1. e \in Int /\ Mod(boxed[0]) = Mod(z + e)
    OBVIOUS
  <2> HIDE DEF e
  <2>2. BoxAdds(boxed, Unshifted(turn, shift, n, j, x, z), Turned(turn, n, j), e, n)
    BY <2>1, BoxedState
  <2> QED BY <2>2 DEF BoxAdds
<1>5. moved \in Vectors(n) /\ \A l \in Indices(n) : Mod(w[l]) = Mod(u[l] + moved[l])
  BY BoxedIdeal
<1>6. \A k \in Indices(n) : Mod(next[k]) = Mod(Apply(A, boxed, n)[k])
  <2>1. \A k \in Indices(n) : Apply(A, boxed, n)[k] \in Int /\ next[k] = Mod(Apply(A, boxed, n)[k])
    BY SparseIsAProduct
  <2> HIDE DEF next, A
  <2> QED BY <2>1, ModOfMod
<1>7. /\ E \in Matrices(n) /\ \A l \in Indices(n) : Congruent(Apply(A, Column(T, l, n), n), Column(E, l, n), n)
      /\ \A l \in Indices(n) : Congruent(Apply(U, Column(B, l, n), n), Column(E, l, n), n)
  <2> HIDE DEF A, B, T, U
  <2>1. \A i, l \in Indices(n) : E[i][l] = Apply(U, Column(B, l, n), n)[i] /\ E[i][l] \in Int
    <3> TAKE i, l \in Indices(n)
    <3>1. Column(B, l, n) \in Vectors(n)
      BY <1>2 DEF Column, Matrices, Vectors
    <3>2. Apply(U, Column(B, l, n), n)[i] \in Int
      BY <1>1, <1>2, <3>1, ApplyInt DEF Vectors
    <3> QED BY <3>2
  <2>2. E \in Matrices(n)
    <3>1. E = [i \in Indices(n) |-> [l \in Indices(n) |-> E[i][l]]]
      OBVIOUS
    <3> HIDE DEF E
    <3> QED BY <2>1, <3>1 DEF Matrices, Vectors
  <2>3. \A i, l \in Indices(n) : Column(E, l, n)[i] = Apply(U, Column(B, l, n), n)[i]
    BY <2>1 DEF Column
  <2> HIDE DEF E
  <2> QED BY <1>3, <2>2, <2>3 DEF Congruent
<1> HIDE DEF T, U, K, A, B, e, u, moved, next, E
<1>8. Apply(B, u, n) \in Vectors(n) /\ Apply(B, moved, n) \in Vectors(n)
  BY <1>1, <1>2, <1>4, <1>5, ApplyInt
<1>9. rest \in Vectors(n)
      /\ \A i \in Indices(n) : /\ rest[i] = Apply(B, moved, n)[i] + K[i]
                               /\ Apply(B, moved, n)[i] \in Int /\ K[i] \in Int
  <2> DEFINE b == Apply(B, moved, n)
  <2>1. b \in Vectors(n) /\ rest = Plus(b, K, n)
    BY <1>8
  <2> HIDE DEF b, rest
  <2>2. rest \in Vectors(n) /\ \A i \in Indices(n) : b[i] \in Int /\ K[i] \in Int /\ rest[i] = b[i] + K[i]
    BY <1>2, <2>1, PlusIsAVector
  <2> QED BY <2>2 DEF b
<1> HIDE DEF rest
<1>10. \A k \in Indices(n) :
         /\ Apply(A, Apply(T, u, n), n)[k] \in Int /\ Apply(A, Only(e, n), n)[k] \in Int
         /\ Mod(Apply(A, boxed, n)[k]) = Mod(Apply(A, Apply(T, u, n), n)[k] + Apply(A, Only(e, n), n)[k])
  <2> DEFINE t == Apply(T, u, n)
             o == Only(e, n)
  <2>1. t \in Vectors(n) /\ o \in Vectors(n) /\ \A l \in Indices(n) : Mod(boxed[l]) = Mod(t[l] + o[l])
    BY <1>3, <1>4
  <2> HIDE DEF t, o
  <2>2. \A k \in Indices(n) :
          /\ Apply(A, t, n)[k] \in Int /\ Apply(A, o, n)[k] \in Int
          /\ Mod(Apply(A, boxed, n)[k]) = Mod(Apply(A, t, n)[k] + Apply(A, o, n)[k])
    BY <1>1, <1>2, <2>1, ApplyCongruentSum
  <2> QED BY <2>2 DEF t, o
<1>11. Congruent(Apply(A, Apply(T, u, n), n), Apply(U, Apply(B, u, n), n), n)
  <2>1. Congruent(Apply(A, Apply(T, u, n), n), Apply(E, u, n), n)
    BY <1>1, <1>2, <1>4, <1>7, ApplyTwice
  <2>2. Congruent(Apply(U, Apply(B, u, n), n), Apply(E, u, n), n)
    BY <1>1, <1>2, <1>4, <1>7, ApplyTwice
  <2> QED BY <2>1, <2>2 DEF Congruent
<1>12. \A i \in Indices(n) : Mod(ideally[i]) = Mod(Apply(B, u, n)[i] + Apply(B, moved, n)[i])
  <2>1. \A i \in Indices(n) : Mod(Apply(B, w, n)[i]) = Mod(Apply(B, u, n)[i] + Apply(B, moved, n)[i])
    BY <1>1, <1>2, <1>4, <1>5, ApplyCongruentSum, SMTT(30)
  <2> QED BY <2>1 DEF Congruent, B
<1>13. PICK sum : sum = Plus(ideally, K, n)
  OBVIOUS
<1>14. sum \in Vectors(n) /\ \A i \in Indices(n) : Mod(sum[i]) = Mod(Apply(B, u, n)[i] + rest[i])
  <2>1. sum \in Vectors(n) /\ \A i \in Indices(n) : sum[i] = ideally[i] + K[i] /\ ideally[i] \in Int
    BY <1>1, <1>2, <1>13, PlusIsAVector
  <2>2. ASSUME NEW i \in Indices(n) PROVE Mod(sum[i]) = Mod(Apply(B, u, n)[i] + rest[i])
    <3> DEFINE p == Apply(B, u, n)[i]
               q == Apply(B, moved, n)[i]
               k == K[i]
               x1 == ideally[i]
    <3>1. p \in Int /\ q \in Int /\ k \in Int /\ x1 \in Int /\ Mod(x1) = Mod(p + q) /\ Mod(k) = Mod(k)
      BY <1>8, <1>9, <1>12, <2>1 DEF Vectors
    <3>2. sum[i] = x1 + k /\ rest[i] = q + k
      BY <1>9, <2>1
    <3> HIDE DEF p, q, k, x1
    <3> DEFINE d == p + q
    <3>3. d \in Int /\ d + k = p + (q + k) /\ Mod(x1) = Mod(d)
      BY <3>1
    <3> HIDE DEF d
    <3>4. Mod(x1 + k) = Mod(d + k)
      BY <3>1, <3>3, ModOfShift
    <3> QED BY <3>2, <3>3, <3>4 DEF p
  <2> QED BY <2>1, <2>2
<1>15. \A i \in Indices(n) :
         /\ Apply(U, Apply(B, u, n), n)[i] \in Int /\ Apply(U, rest, n)[i] \in Int
         /\ Mod(Apply(U, sum, n)[i]) = Mod(Apply(U, Apply(B, u, n), n)[i] + Apply(U, rest, n)[i])
  BY <1>1, <1>2, <1>8, <1>9, <1>14, ApplyCongruentSum, SMTT(30)
<1>16. ASSUME NEW k \in Indices(n) PROVE Mod(next[k]) = Mod(Apply(U, sum, n)[k])
  <2> DEFINE p == Apply(A, Apply(T, u, n), n)[k]
             q == Apply(A, Only(e, n), n)[k]
             r == Apply(U, Apply(B, u, n), n)[k]
             t == Apply(U, rest, n)[k]
  <2>1. p \in Int /\ q \in Int /\ r \in Int /\ t \in Int
    BY <1>10, <1>15
  <2>2. Mod(p) = Mod(r) /\ Mod(q) = Mod(t)
    BY <1>3, <1>11 DEF Congruent
  <2>3. Mod(next[k]) = Mod(p + q) /\ Mod(Apply(U, sum, n)[k]) = Mod(r + t)
    BY <1>6, <1>10, <1>15
  <2> HIDE DEF p, q, r, t
  <2> QED BY <2>1, <2>2, <2>3, ModOfSum
<1>17. TurnedState(turn, shift, n, j + 1, ideally) = Apply(U, sum, n)
  BY <1>13 DEF TurnedState, U, K
<1> QED BY <1>16, <1>17 DEF Congruent, next

\* The code has what the permutation has after adding the constants of its round r.
PlainAt(s, x, n, r) == Congruent(s, Plus(x, Rc(n, r), n), n)

\* What the permutation's round r does before its S-box.
LEMMA IdealAdds ==
  ASSUME NEW n \in Widths, NEW x \in Vectors(n), NEW r \in 1..FullRounds + PartialRounds[n]
  PROVE  LET added == AddConstants(x, RoundConstants[n][r], 0)
         IN  /\ Rc(n, r) \in Vectors(n) /\ Plus(x, Rc(n, r), n) \in Vectors(n)
             /\ added \in Residues(n) /\ added \in Vectors(n)
             /\ Congruent(added, Plus(x, Rc(n, r), n), n)
             /\ \A i \in Indices(n) : /\ added[i] \in Int /\ Mod(added[i]) = Mod(x[i] + Rc(n, r)[i])
                                      /\ added[i] = Mod(x[i] + Rc(n, r)[i])
<1> DEFINE added == AddConstants(x, RoundConstants[n][r], 0)
           rc == Rc(n, r)
<1>1. n \in Nat /\ rc \in Vectors(n)
  BY Rounds, ListsAreVectors
<1>2. /\ added \in Residues(n)
      /\ \A i \in Indices(n) : added[i] = Mod(x[i] + rc[i]) /\ Mod(added[i]) = Mod(x[i] + rc[i])
  BY <1>1, ConstantsAdded DEF Rc
<1> HIDE DEF added, rc
<1>3. added \in Vectors(n)
  BY <1>2, ResiduesAreVectors
<1>4. Plus(x, rc, n) \in Vectors(n) /\ \A i \in Indices(n) : Plus(x, rc, n)[i] = x[i] + rc[i]
  BY <1>1, PlusIsAVector
<1> QED BY <1>1, <1>2, <1>3, <1>4 DEF Congruent, Vectors, added, rc

\* A full round that stays with M.
LEMMA FullRoundAgrees ==
  ASSUME NEW n \in Widths, Width = n, NEW s \in Vectors(n), NEW x \in Vectors(n),
         NEW r \in 1..FullRounds + PartialRounds[n] - 1, PlainAt(s, x, n, r),
         NEW from, Added(n, from) \in Vectors(n),
         Congruent(ColumnsTimes(M[n], Added(n, from), n), Rc(n, r + 1), n)
  PROVE  LET next == Mix(AddConstants(SBox(s), C[n], from), M[n])
             ideally == Mix(SBox(AddConstants(x, RoundConstants[n][r], 0)), M[n])
         IN  next \in Residues(n) /\ ideally \in Residues(n) /\ PlainAt(next, ideally, n, r + 1)
<1> DEFINE added == AddConstants(x, RoundConstants[n][r], 0)
           box == SBox(added)
           next == Mix(AddConstants(SBox(s), C[n], from), M[n])
           ideally == Mix(box, M[n])
           A == ByColumns(M[n], n)
           c == Piece(C[n], from, n)
           rc == Rc(n, r + 1)
<1>1. n \in Nat /\ r \in 1..FullRounds + PartialRounds[n] /\ r + 1 \in 1..FullRounds + PartialRounds[n]
  BY Rounds
<1>2. added \in Vectors(n) /\ Congruent(s, added, n)
  BY <1>1, IdealAdds DEF PlainAt, Congruent
<1>3. M[n] \in [1..n -> [1..n -> Int]] /\ A \in Matrices(n) /\ ColumnsTimes(M[n], c, n) = Apply(A, c, n)
  BY ColumnsOfSquares
<1>4. c \in Vectors(n) /\ Congruent(Apply(A, c, n), rc, n)
  BY <1>3 DEF Added
<1>5. /\ next \in Residues(n)
      /\ \A i \in Indices(n) :
           /\ Apply(A, box, n)[i] \in Int /\ Apply(A, c, n)[i] \in Int
           /\ Mod(next[i]) = Mod(Apply(A, box, n)[i] + Apply(A, c, n)[i])
  <2> DEFINE list == C[n]
             matrix == M[n]
  <2>1. /\ matrix \in [1..n -> [1..n -> Int]] /\ Piece(list, from, n) \in Vectors(n)
        /\ A = ByColumns(matrix, n) /\ c = Piece(list, from, n)
        /\ next = Mix(AddConstants(SBox(s), list, from), matrix)
    BY <1>3, <1>4
  <2> HIDE DEF list, matrix, added, next, A, c
  <2>2. RoundAdds(Mix(AddConstants(SBox(s), list, from), matrix), SBox(added),
                  ByColumns(matrix, n), Piece(list, from, n), n)
    BY <1>1, <1>2, <2>1, FullRoundOfTheCode
  <2>3. RoundAdds(next, SBox(added), A, c, n)
    BY <2>1, <2>2
  <2> QED BY <2>3 DEF RoundAdds
<1>6. ideally \in Residues(n) /\ \A i \in Indices(n) : ideally[i] = Mod(Apply(A, box, n)[i])
  <2>1. box \in Vectors(n)
    <3> HIDE DEF added
    <3> QED BY <1>1, <1>2, BoxesAgree, ResiduesAreVectors
  <2> HIDE DEF box
  <2> QED BY <1>1, <1>3, <2>1, MixIsAProduct
<1>7. rc \in Vectors(n)
  BY <1>1, ListsAreVectors
<1> HIDE DEF added, box, next, ideally, A, c, rc
<1>8. /\ \A i \in Indices(n) : /\ ideally[i] \in Int /\ rc[i] \in Int
                               /\ Plus(ideally, rc, n)[i] = ideally[i] + rc[i]
  BY <1>6, <1>7, ResiduesAreVectors, PlusIsAVector
<1>9. ASSUME NEW i \in Indices(n) PROVE Mod(next[i]) = Mod(ideally[i] + rc[i])
  <2> DEFINE p == Apply(A, box, n)[i]
             q == Apply(A, c, n)[i]
  <2>1. p \in Int /\ q \in Int /\ Mod(next[i]) = Mod(p + q) /\ ideally[i] \in Int /\ rc[i] \in Int
    BY <1>5, <1>8
  <2>2. Mod(q) = Mod(rc[i])
    BY <1>4 DEF Congruent
  <2>3. Mod(p) = Mod(ideally[i])
    <3>1. ideally[i] = Mod(p)
      BY <1>6
    <3> HIDE DEF p
    <3> QED BY <2>1, <3>1, ModOfMod
  <2> HIDE DEF p, q
  <2> QED BY <2>1, <2>2, <2>3, ModOfSum, ZenonT(60)
<1>10. PlainAt(next, ideally, n, r + 1)
  BY <1>8, <1>9 DEF PlainAt, Congruent, rc
<1> QED BY <1>5, <1>6, <1>10 DEF next, ideally, box, added

\* The full round that turns from M to P.
LEMMA TurningRoundAgrees ==
  ASSUME NEW turn, NEW shift, ScheduleFolds(turn, shift), NEW n \in Widths, Width = n,
         NEW s \in Vectors(n), NEW x \in Vectors(n), PlainAt(s, x, n, Half), Added(n, Half * n) \in Vectors(n)
  PROVE  LET next == Mix(AddConstants(SBox(s), C[n], Half * n), P[n])
             ideally == Mix(SBox(AddConstants(x, RoundConstants[n][Half], 0)), M[n])
         IN  /\ next \in Residues(n) /\ ideally \in Residues(n)
             /\ Congruent(next, TurnedState(turn, shift, n, 0, ideally), n)
<1> DEFINE from == Half * n
           added == AddConstants(x, RoundConstants[n][Half], 0)
           box == SBox(added)
           next == Mix(AddConstants(SBox(s), C[n], from), P[n])
           ideally == Mix(box, M[n])
           A == ByColumns(P[n], n)
           B == ByColumns(M[n], n)
           c == Piece(C[n], from, n)
           T == Turned(turn, n, 0)
           K == Shifted(shift, n, 0)
<1>1. n \in Nat /\ Half \in 1..FullRounds + PartialRounds[n] /\ 0 \in 0..PartialRounds[n] /\ 0 + 1 = 1
  BY Rounds
<1>2. added \in Vectors(n) /\ Congruent(s, added, n)
  BY <1>1, IdealAdds DEF PlainAt, Congruent
<1>3. /\ M[n] \in [1..n -> [1..n -> Int]] /\ P[n] \in [1..n -> [1..n -> Int]]
      /\ A \in Matrices(n) /\ B \in Matrices(n) /\ ColumnsTimes(P[n], c, n) = Apply(A, c, n)
      /\ \A l \in Indices(n) : Column(B, l, n) = Piece(M[n][l + 1], 0, n) /\ Column(A, l, n) = Piece(P[n][l + 1], 0, n)
  BY ColumnsOfSquares
<1>4. T \in Matrices(n) /\ K \in Vectors(n) /\ \A v : RowsTimes(turn[n][1], v, n) = Apply(T, v, n)
  BY <1>1, TurnsAreMatrices
<1>5. /\ \A l \in Indices(n) : Congruent(Apply(T, Column(B, l, n), n), Column(A, l, n), n)
      /\ Congruent(Apply(A, c, n), Apply(T, K, n), n)
  <2>1. /\ \A l \in Indices(n) :
             Congruent(RowsTimes(turn[n][1], Piece(M[n][l + 1], 0, n), n), Piece(P[n][l + 1], 0, n), n)
        /\ Congruent(ColumnsTimes(P[n], c, n), RowsTimes(turn[n][1], K, n), n)
    BY <1>1, FoldsOfTheTurningRound DEF Added, Shifted
  <2> HIDE DEF A, B, T, K, c
  <2> QED BY <1>3, <1>4, <2>1
<1>6. c \in Vectors(n)
  BY DEF Added
<1>7. /\ next \in Residues(n)
      /\ \A i \in Indices(n) :
           /\ Apply(A, box, n)[i] \in Int /\ Apply(A, c, n)[i] \in Int
           /\ Mod(next[i]) = Mod(Apply(A, box, n)[i] + Apply(A, c, n)[i])
  <2> DEFINE list == C[n]
             matrix == P[n]
  <2>1. /\ matrix \in [1..n -> [1..n -> Int]] /\ Piece(list, from, n) \in Vectors(n)
        /\ A = ByColumns(matrix, n) /\ c = Piece(list, from, n)
        /\ next = Mix(AddConstants(SBox(s), list, from), matrix)
    BY <1>3, <1>6
  <2> HIDE DEF list, matrix, added, next, A, c, from
  <2>2. RoundAdds(Mix(AddConstants(SBox(s), list, from), matrix), SBox(added),
                  ByColumns(matrix, n), Piece(list, from, n), n)
    BY <1>1, <1>2, <2>1, FullRoundOfTheCode
  <2>3. RoundAdds(next, SBox(added), A, c, n)
    BY <2>1, <2>2
  <2> QED BY <2>3 DEF RoundAdds
<1>8. box \in Vectors(n)
  <2> HIDE DEF added
  <2> QED BY <1>1, <1>2, BoxesAgree, ResiduesAreVectors
<1>9. ideally \in Residues(n) /\ \A i \in Indices(n) : ideally[i] = Mod(Apply(B, box, n)[i])
  <2> HIDE DEF box
  <2> QED BY <1>1, <1>3, <1>8, MixIsAProduct
<1> HIDE DEF added, box, next, ideally, A, B, c, T, K
<1>10. Congruent(Apply(T, Apply(B, box, n), n), Apply(A, box, n), n)
  BY <1>1, <1>3, <1>4, <1>5, <1>8, ApplyTwice
<1>11. PICK p : p = Apply(B, box, n)
  OBVIOUS
<1>12. p \in Vectors(n) /\ \A i \in Indices(n) : p[i] \in Int
  <2>1. p \in Vectors(n)
    BY <1>1, <1>3, <1>8, <1>11, ApplyInt
  <2> QED BY <2>1 DEF Vectors
<1>13. PICK sum : sum = Plus(ideally, K, n)
  OBVIOUS
<1>14. sum \in Vectors(n) /\ \A i \in Indices(n) : Mod(sum[i]) = Mod(p[i] + K[i])
  <2>1. /\ sum \in Vectors(n)
        /\ \A i \in Indices(n) : sum[i] = ideally[i] + K[i] /\ ideally[i] \in Int /\ K[i] \in Int
    BY <1>4, <1>9, <1>13, ResiduesAreVectors, PlusIsAVector
  <2>2. \A i \in Indices(n) : Mod(ideally[i]) = Mod(p[i])
    BY <1>9, <1>11, <1>12, ModOfMod
  <2>3. ASSUME NEW i \in Indices(n) PROVE Mod(ideally[i] + K[i]) = Mod(p[i] + K[i])
    BY <1>12, <2>1, <2>2, ModOfShift
  <2> QED BY <2>1, <2>3
<1>15. \A i \in Indices(n) :
         /\ Apply(T, p, n)[i] \in Int /\ Apply(T, K, n)[i] \in Int
         /\ Mod(Apply(T, sum, n)[i]) = Mod(Apply(T, p, n)[i] + Apply(T, K, n)[i])
  BY <1>1, <1>4, <1>12, <1>14, ApplyCongruentSum
<1>16. ASSUME NEW i \in Indices(n) PROVE Mod(next[i]) = Mod(Apply(T, sum, n)[i])
  <2> DEFINE a == Apply(A, box, n)[i]
             b == Apply(A, c, n)[i]
             f == Apply(T, p, n)[i]
             g == Apply(T, K, n)[i]
  <2>1. a \in Int /\ b \in Int /\ f \in Int /\ g \in Int
    BY <1>7, <1>15
  <2>2. Mod(a) = Mod(f) /\ Mod(b) = Mod(g)
    BY <1>5, <1>10, <1>11 DEF Congruent
  <2>3. Mod(next[i]) = Mod(a + b) /\ Mod(Apply(T, sum, n)[i]) = Mod(f + g)
    BY <1>7, <1>15
  <2> HIDE DEF a, b, f, g
  <2> QED BY <2>1, <2>2, <2>3, ModOfSum
<1>17. TurnedState(turn, shift, n, 0, ideally) = Apply(T, sum, n)
  BY <1>13 DEF TurnedState, T, K
<1> QED BY <1>7, <1>9, <1>16, <1>17 DEF Congruent, next, ideally, box, added

\* After the last partial round the code is back at M.
LEMMA LastTurn ==
  ASSUME NEW turn, NEW shift, ScheduleFolds(turn, shift), NEW n \in Widths,
         NEW s \in Vectors(n), NEW x \in Vectors(n),
         Congruent(s, TurnedState(turn, shift, n, PartialRounds[n], x), n)
  PROVE  PlainAt(s, x, n, Half + PartialRounds[n] + 1)
<1> DEFINE R == PartialRounds[n]
           T == Turned(turn, n, R)
           K == Shifted(shift, n, R)
           rc == Rc(n, Half + R + 1)
           v == Plus(x, K, n)
<1>1. n \in Nat /\ R \in 0..PartialRounds[n] /\ Half + R + 1 \in 1..FullRounds + R
  BY Rounds
<1>2. T \in Matrices(n) /\ K \in Vectors(n)
  BY <1>1, TurnsAreMatrices
<1>3. rc \in Vectors(n)
  BY <1>1, ListsAreVectors
<1>4. \A i, l \in Indices(n) : T[i][l] = IF i = l THEN 1 ELSE 0
  BY FoldsOfTheLastTurn DEF Turned, ByRows
<1>5. Congruent(K, rc, n)
  BY FoldsOfTheLastTurn DEF Shifted
<1>6. Congruent(s, Apply(T, v, n), n)
  BY DEF TurnedState
<1> HIDE DEF T, K, rc
<1>7. /\ v \in Vectors(n)
      /\ \A i \in Indices(n) : v[i] = x[i] + K[i] /\ x[i] \in Int /\ K[i] \in Int /\ v[i] \in Int
  <2>1. v \in Vectors(n) /\ \A i \in Indices(n) : v[i] = x[i] + K[i] /\ x[i] \in Int /\ K[i] \in Int
    BY <1>2, PlusIsAVector
  <2> QED BY <2>1 DEF Vectors
<1>8. \A i \in Indices(n) : rc[i] \in Int /\ Plus(x, rc, n)[i] = x[i] + rc[i]
  BY <1>3, PlusIsAVector
<1> HIDE DEF v
<1>9. ASSUME NEW i \in Indices(n) PROVE Apply(T, v, n)[i] = v[i]
  <2> DEFINE f == [l \in Indices(n) |-> T[i][l] * v[l]]
  <2>1. \A l \in Indices(n) : f[l] = T[i][l] * v[l] /\ f[l] = IF l = i THEN v[i] ELSE 0
    BY <1>4, <1>7
  <2> HIDE DEF f
  <2>2. Apply(T, v, n)[i] = Reduce(f, n)
    BY <1>1, <1>2, <1>7, <2>1, ApplyAt
  <2>3. f[i] \in Int /\ f[i] = v[i] /\ \A l \in 0..n - 1 : l # i => f[l] = 0
    BY <1>7, <2>1 DEF Indices
  <2>4. Reduce(f, n) = f[i]
    BY <1>1, <2>3, ReduceSingle DEF Indices
  <2> QED BY <2>2, <2>3, <2>4
<1>10. ASSUME NEW i \in Indices(n) PROVE Mod(s[i]) = Mod(Plus(x, rc, n)[i])
  <2>1. Mod(s[i]) = Mod(x[i] + K[i])
    BY <1>6, <1>7, <1>9 DEF Congruent
  <2>2. Mod(K[i]) = Mod(rc[i]) /\ Mod(x[i]) = Mod(x[i])
    BY <1>5 DEF Congruent
  <2>3. Mod(x[i] + K[i]) = Mod(x[i] + rc[i])
    BY <1>7, <1>8, <2>2, ModOfSum
  <2> QED BY <1>8, <2>1, <2>3
<1> QED BY <1>10 DEF PlainAt, Congruent, rc

\* The lists of the file are as long as the rounds that read them.
LEMMA ListBounds ==
  ASSUME NEW n \in Widths
  PROVE  /\ \A k \in 0..FullRounds - 1 : k * n \in Nat /\ Added(n, k * n) \in Vectors(n)
         /\ \A r \in 0..Half - 2 : Added(n, (Half + 1) * n + PartialRounds[n] + r * n) \in Vectors(n)
         /\ \A j \in 0..PartialRounds[n] - 1 : C[n][(Half + 1) * n + j + 1] \in Int
<1> DEFINE R == PartialRounds[n]
<1>1. n \in Nat /\ R \in Nat /\ Half \in Nat /\ Half >= 1 /\ FullRounds = 2 * Half /\ FullRounds \in Nat
  BY Rounds
<1>2. \A from \in Nat : from + n <= FullRounds * n + R => Added(n, from) \in Vectors(n)
  BY ListsAreVectors
<1>3. C[n] \in [1..FullRounds * n + R -> Int]
  BY ConstantsAssumption
<1> HIDE DEF R
<1>4. \A a, b \in Nat : a <= b => a * n <= b * n /\ a * n \in Nat /\ b * n \in Nat
  <2> SUFFICES ASSUME NEW a \in Nat, NEW b \in Nat, a <= b
               PROVE  a * n <= b * n /\ a * n \in Nat /\ b * n \in Nat
    OBVIOUS
  <2>1. PICK d \in Nat : b = a + d
    <3>1. b - a \in Nat /\ b = a + (b - a)
      OBVIOUS
    <3> QED BY <3>1
  <2>2. b * n = a * n + d * n /\ d * n \in Nat /\ a * n \in Nat
    BY <1>1, <2>1
  <2> QED BY <2>2
<1>5. \A a \in Nat : (a + 1) * n = a * n + n
  BY <1>1
<1>6. ASSUME NEW k \in 0..FullRounds - 1 PROVE k * n \in Nat /\ Added(n, k * n) \in Vectors(n)
  <2>1. k \in Nat /\ k + 1 \in Nat /\ k + 1 <= FullRounds
    BY <1>1
  <2>2. (k + 1) * n <= FullRounds * n /\ k * n \in Nat /\ FullRounds * n \in Nat /\ (k + 1) * n = k * n + n
    BY <1>1, <1>4, <1>5, <2>1
  <2> DEFINE a == k * n
             b == FullRounds * n
  <2>3. a \in Nat /\ b \in Nat /\ a + n <= b
    BY <2>2
  <2> HIDE DEF a, b
  <2>4. a + n <= b + R
    BY <1>1, <2>3
  <2> QED BY <1>2, <2>3, <2>4 DEF a, b
<1>7. ASSUME NEW r \in 0..Half - 2 PROVE Added(n, (Half + 1) * n + R + r * n) \in Vectors(n)
  <2>1. /\ r \in Nat /\ Half + 1 \in Nat /\ (Half + 1) + r \in Nat
        /\ ((Half + 1) + r) + 1 \in Nat /\ ((Half + 1) + r) + 1 <= FullRounds
    BY <1>1
  <2>2. /\ (((Half + 1) + r) + 1) * n <= FullRounds * n
        /\ (((Half + 1) + r) + 1) * n = ((Half + 1) + r) * n + n
        /\ (Half + 1) * n \in Nat /\ r * n \in Nat /\ FullRounds * n \in Nat
    BY <1>1, <1>4, <1>5, <2>1
  <2>3. ((Half + 1) + r) * n = (Half + 1) * n + r * n
    BY <1>1, <2>1
  <2> DEFINE a == (Half + 1) * n
             c == r * n
             b == FullRounds * n
  <2>4. a \in Nat /\ b \in Nat /\ c \in Nat /\ (a + c) + n <= b
    BY <2>2, <2>3
  <2> HIDE DEF a, b, c
  <2>5. a + R + c \in Nat /\ (a + R + c) + n <= b + R
    BY <1>1, <2>4
  <2>6. Added(n, a + R + c) \in Vectors(n)
    BY <1>2, <2>5 DEF b
  <2> QED BY <2>6 DEF a, c
<1>8. ASSUME NEW j \in 0..R - 1 PROVE C[n][(Half + 1) * n + j + 1] \in Int
  <2>1. Half + 1 \in Nat /\ Half + 1 <= FullRounds
    BY <1>1
  <2>2. (Half + 1) * n <= FullRounds * n /\ (Half + 1) * n \in Nat /\ FullRounds * n \in Nat
    BY <1>1, <1>4, <2>1
  <2> DEFINE a == (Half + 1) * n
             b == FullRounds * n
  <2>3. a \in Nat /\ b \in Nat /\ a <= b
    BY <2>2
  <2> HIDE DEF a, b
  <2>4. a + j + 1 \in 1..b + R
    BY <1>1, <2>3
  <2>5. C[n][a + j + 1] \in Int
    BY <1>3, <2>4 DEF b
  <2> QED BY <2>5 DEF a
<1> QED BY <1>6, <1>7, <1>8 DEF R

-----------------------------------------------------------------------------
(* The invariant. *)

\* Where the code is when the permutation has made r - 1 of its rounds.
InStep(turn, shift, n, r, s, x) ==
  /\ r \in 0..FullRounds + PartialRounds[n] + 1
  /\ r # 0 => s \in Residues(n) /\ x \in Residues(n)
  /\ r \in 1..Half \/ r \in Half + PartialRounds[n] + 1..FullRounds + PartialRounds[n] =>
       PlainAt(s, x, n, r)
  /\ r \in Half + 1..Half + PartialRounds[n] =>
       Congruent(s, TurnedState(turn, shift, n, r - Half - 1, x), n)
  /\ r = FullRounds + PartialRounds[n] + 1 => s = x

HashInv(turn, shift) ==
  /\ GetConstants = [C |-> C, S |-> S, M |-> M, P |-> P]
  /\ Width \in Widths
  /\ InStep(turn, shift, Width, round, state, ideal)

\* After the turning round, and after the partial round before the partial round j.
LEMMA InStepTurned ==
  ASSUME NEW turn, NEW shift, ScheduleFolds(turn, shift), NEW n \in Widths, NEW j \in 0..PartialRounds[n],
         NEW s \in Residues(n), NEW x \in Residues(n),
         Congruent(s, TurnedState(turn, shift, n, j, x), n)
  PROVE  InStep(turn, shift, n, Half + 1 + j, s, x)
<1> DEFINE R == PartialRounds[n]
           r == Half + 1 + j
<1>1. /\ R \in Nat /\ Half \in Nat /\ Half >= 1 /\ FullRounds = 2 * Half
      /\ s \in Vectors(n) /\ x \in Vectors(n)
  BY Rounds, ResiduesAreVectors
<1>2. /\ r \in 0..FullRounds + R + 1 /\ ~(r \in 1..Half) /\ r - Half - 1 = j
      /\ r # FullRounds + R + 1
      /\ r \in Half + R + 1..FullRounds + R => j = R /\ r = Half + R + 1
  BY <1>1
<1>3. ASSUME j = R PROVE PlainAt(s, x, n, Half + R + 1)
  BY <1>1, <1>3, LastTurn
<1> HIDE DEF r
<1>4. r \in Half + R + 1..FullRounds + R => PlainAt(s, x, n, r)
  BY <1>2, <1>3
<1>5. InStep(turn, shift, n, r, s, x)
  BY <1>2, <1>4 DEF InStep
<1> QED BY <1>5 DEF r

\* Before a full round that is not the first after the partial ones, and before the last.
LEMMA InStepPlain ==
  ASSUME NEW turn, NEW shift, NEW n \in Widths, NEW r \in Int,
         NEW s \in Residues(n), NEW x \in Residues(n), PlainAt(s, x, n, r),
         r \in 1..Half \/ r \in Half + PartialRounds[n] + 1..FullRounds + PartialRounds[n]
  PROVE  InStep(turn, shift, n, r, s, x)
<1>1. PartialRounds[n] \in Nat /\ Half \in Nat /\ Half >= 1 /\ FullRounds = 2 * Half
  BY Rounds
<1>2. /\ r \in 0..FullRounds + PartialRounds[n] + 1 /\ ~(r \in Half + 1..Half + PartialRounds[n])
      /\ r # FullRounds + PartialRounds[n] + 1
  BY <1>1
<1> QED BY <1>2 DEF InStep

\* A call of poseidon (poseidon.ts:98-119) starts in step with the permutation.
LEMMA CallStarts ==
  ASSUME NEW turn, NEW shift, ScheduleFolds(turn, shift), HashInv(turn, shift),
         NEW width \in Widths, NEW inputs \in [1..width - 1 -> Values], PoseidonCall(inputs)
  PROVE  HashInv(turn, shift)'
<1> DEFINE prepared == [i \in 0..Len(inputs) |-> IF i = 0 THEN 0 ELSE Mod(inputs[i])]
<1>1. width \in Nat /\ width >= 2 /\ width - 1 \in Nat /\ 0 \in Indices(width)
  BY Rounds
<1>2. Len(inputs) = width - 1 /\ Len(inputs) + 1 = width /\ 0..Len(inputs) = Indices(width)
  <2>1. inputs = [i \in 1..width - 1 |-> inputs[i]]
    OBVIOUS
  <2>2. Len(inputs) = width - 1
    BY <1>1, <2>1, FunctionsAreLists
  <2> QED BY <1>1, <2>2 DEF Indices
<1>3. /\ values' = inputs /\ constantsCache' = GetConstants /\ round' = 1
      /\ state' = AddConstants(prepared, GetConstants.C[width], 0) /\ ideal' = prepared
  <2>1. ASSUME NEW i \in 0..Len(inputs), i # 0 PROVE Mod(inputs[i]) = inputs[i] % Modulus
    <3>1. i \in 1..width - 1
      BY <1>1, <1>2, <2>1
    <3>2. inputs[i] \in Int
      BY <3>1, FieldAssumption
    <3> QED BY <3>2, ModIsRemainder
  <2>2. prepared = [i \in 0..Len(inputs) |-> IF i = 0 THEN 0 ELSE inputs[i] % Modulus]
    BY <2>1, Zenon
  <2> QED BY <1>2, <2>2 DEF PoseidonCall
<1>4. Width' = width
  BY <1>2, <1>3 DEF Width
<1>5. GetConstants = [C |-> C, S |-> S, M |-> M, P |-> P] /\ GetConstants.C = C
  BY DEF HashInv
<1>6. GetConstants' = [C |-> C, S |-> S, M |-> M, P |-> P]
  BY <1>3, <1>5 DEF GetConstants
<1>7. prepared \in Residues(width)
  <2>1. ASSUME NEW i \in Indices(width) PROVE prepared[i] \in ResiduesOfField
    <3>1. CASE i = 0
      BY <1>2, <3>1, ModResidue DEF ResiduesOfField
    <3>2. CASE i # 0
      <4>1. i \in 1..width - 1
        BY <1>1, <3>2 DEF Indices
      <4>2. inputs[i] \in Int
        BY <4>1, FieldAssumption
      <4> QED BY <1>2, <3>2, <4>2, ModResidue
    <3> QED BY <3>1, <3>2
  <2> QED BY <1>2, <2>1 DEF Residues
<1> HIDE DEF prepared
<1>8. PlainAt(state', ideal', width, 1) /\ state' \in Residues(width)
  <2> DEFINE c == Piece(C[width], 0, width)
             rc == Rc(width, 1)
  <2>1. prepared \in Vectors(width)
    BY <1>7, ResiduesAreVectors
  <2>2. c \in Vectors(width)
    <3>1. 0 \in 0..FullRounds - 1 /\ 0 * width = 0
      BY <1>1, Rounds
    <3> QED BY <3>1, ListBounds DEF Added
  <2>3. rc \in Vectors(width) /\ Congruent(c, rc, width)
    <3>1. 1 \in 1..FullRounds + PartialRounds[width]
      BY Rounds
    <3> QED BY <3>1, ListsAreVectors, FoldsOfFullRounds DEF Added
  <2>4. /\ state' \in Residues(width)
        /\ \A i \in Indices(width) : Mod(state'[i]) = Mod(prepared[i] + c[i])
    BY <1>1, <1>3, <1>5, <2>1, <2>2, ConstantsAdded
  <2> HIDE DEF c, rc
  <2>5. \A i \in Indices(width) : /\ prepared[i] \in Int /\ rc[i] \in Int /\ c[i] \in Int
                                  /\ Plus(prepared, rc, width)[i] = prepared[i] + rc[i]
    BY <2>1, <2>2, <2>3, PlusIsAVector DEF Vectors
  <2>6. ASSUME NEW i \in Indices(width) PROVE Mod(state'[i]) = Mod(prepared[i] + rc[i])
    <3>1. Mod(prepared[i]) = Mod(prepared[i]) /\ Mod(c[i]) = Mod(rc[i])
      BY <2>3 DEF Congruent
    <3>2. Mod(prepared[i] + c[i]) = Mod(prepared[i] + rc[i])
      BY <2>5, <3>1, ModOfSum, ZenonT(60)
    <3> QED BY <2>4, <3>2
  <2> QED BY <1>3, <2>4, <2>5, <2>6 DEF PlainAt, Congruent, rc
<1>9. InStep(turn, shift, width, 1, state', ideal')
  <2>1. 1 \in 1..Half
    BY Rounds
  <2> QED BY <1>3, <1>7, <1>8, <2>1, InStepPlain
<1> QED BY <1>3, <1>4, <1>6, <1>9 DEF HashInv

\* What every step that is a round keeps.
LEMMA RoundKeeps ==
  ASSUME NEW turn, NEW shift, HashInv(turn, shift), Advances,
         InStep(turn, shift, Width, round + 1, state', ideal')
  PROVE  HashInv(turn, shift)'
<1>1. constantsCache' = constantsCache /\ values' = values /\ round' = round + 1
  BY DEF Advances
<1>2. Width' = Width /\ GetConstants' = GetConstants
  BY <1>1 DEF Width, GetConstants
<1> QED BY <1>1, <1>2 DEF HashInv

\* What the invariant says before a round.
LEMMA BeforeRound ==
  ASSUME NEW turn, NEW shift, HashInv(turn, shift), round \in 1..FullRounds + PartialRounds[Width]
  PROVE  /\ Width \in Widths /\ state \in Residues(Width) /\ ideal \in Residues(Width)
         /\ state \in Vectors(Width) /\ ideal \in Vectors(Width)
         /\ GetConstants.C = C /\ GetConstants.S = S /\ GetConstants.M = M /\ GetConstants.P = P
         /\ InStep(turn, shift, Width, round, state, ideal)
<1>1. /\ GetConstants = [C |-> C, S |-> S, M |-> M, P |-> P] /\ Width \in Widths
      /\ InStep(turn, shift, Width, round, state, ideal)
  BY DEF HashInv
<1>2. round # 0
  BY <1>1, Rounds
<1>3. state \in Residues(Width) /\ ideal \in Residues(Width)
  BY <1>1, <1>2 DEF InStep
<1> QED BY <1>1, <1>3, ResiduesAreVectors

\* The permutation's own full rounds.
LEMMA IdealFullRound ==
  ASSUME IdealRound, round <= Half \/ round > Half + PartialRounds[Width]
  PROVE  ideal' = Mix(SBox(AddConstants(ideal, RoundConstants[Width][round], 0)), M[Width])
BY DEF IdealRound

\* The full rounds before the turn and after the partial rounds keep in step.
LEMMA FullRoundSteps ==
  ASSUME NEW turn, NEW shift, ScheduleFolds(turn, shift), HashInv(turn, shift),
         FirstFullRound \/ LastFullRound
  PROVE  HashInv(turn, shift)'
<1> DEFINE n == Width
           R == PartialRounds[n]
<1>1. n \in Widths /\ n \in Nat /\ R \in Nat /\ Half \in Nat /\ Half >= 1 /\ FullRounds = 2 * Half
  BY Rounds DEF HashInv
<1>2. ASSUME NEW from, Added(n, from) \in Vectors(n), round \in Int,
             Congruent(ColumnsTimes(M[n], Added(n, from), n), Rc(n, round + 1), n),
             state' = Mix(AddConstants(SBox(state), GetConstants.C[n], from), GetConstants.M[n]), Advances,
             \/ round \in 1..Half - 1
             \/ round \in Half + R + 1..FullRounds + R - 1
      PROVE  HashInv(turn, shift)'
  <2>1. /\ round \in 1..FullRounds + R - 1 /\ round \in 1..FullRounds + R
        /\ round <= Half \/ round > Half + R
        /\ round \in 1..Half \/ round \in Half + R + 1..FullRounds + R
        /\ round + 1 \in 1..Half \/ round + 1 \in Half + R + 1..FullRounds + R
        /\ round + 1 \in Int
    BY <1>1, <1>2
  <2>2. /\ state \in Vectors(n) /\ ideal \in Vectors(n) /\ PlainAt(state, ideal, n, round)
        /\ state' = Mix(AddConstants(SBox(state), C[n], from), M[n])
    BY <1>2, <2>1, BeforeRound DEF InStep
  <2>3. ideal' = Mix(SBox(AddConstants(ideal, RoundConstants[n][round], 0)), M[n])
    BY <1>2, <2>1, IdealFullRound DEF Advances
  <2>4. state' \in Residues(n) /\ ideal' \in Residues(n) /\ PlainAt(state', ideal', n, round + 1)
    BY <1>1, <1>2, <2>1, <2>2, <2>3, FullRoundAgrees
  <2>5. InStep(turn, shift, n, round + 1, state', ideal')
    BY <1>1, <2>1, <2>4, InStepPlain
  <2> QED BY <1>2, <2>5, RoundKeeps
<1>3. CASE FirstFullRound
  <2> DEFINE from == round * n
  <2>1. /\ round \in 1..Half - 1 /\ Advances
        /\ state' = Mix(AddConstants(SBox(state), GetConstants.C[n], from), GetConstants.M[n])
    BY <1>3 DEF FirstFullRound
  <2>2. round \in 0..FullRounds - 1 /\ round \in Int
    BY <1>1, <2>1
  <2>3. Added(n, from) \in Vectors(n)
    BY <1>1, <2>2, ListBounds
  <2>4. Congruent(ColumnsTimes(M[n], Added(n, from), n), Rc(n, round + 1), n)
    BY <1>1, <2>1, FoldsOfFullRounds
  <2> HIDE DEF from, n
  <2> QED BY <1>2, <2>1, <2>2, <2>3, <2>4
<1>4. CASE LastFullRound
  <2> DEFINE r == round - Half - R - 1
             from == (Half + 1) * n + R + r * n
  <2>1. /\ r \in 0..Half - 2 /\ Advances
        /\ state' = Mix(AddConstants(SBox(state), GetConstants.C[n], from), GetConstants.M[n])
    BY <1>4 DEF LastFullRound
  <2>2. round \in Int
    <3>1. InStep(turn, shift, n, round, state, ideal)
      BY DEF HashInv
    <3> QED BY <1>1, <3>1 DEF InStep
  <2>3. round \in Half + R + 1..FullRounds + R - 1 /\ Half + R + r + 2 = round + 1
    <3>1. r \in 0..Half - 2 /\ R \in Nat /\ Half \in Nat /\ FullRounds = 2 * Half /\ round \in Int
      BY <1>1, <2>1, <2>2
    <3> HIDE DEF n, R
    <3> QED BY <3>1
  <2>4. Added(n, from) \in Vectors(n)
    <3> HIDE DEF n, r
    <3> QED BY <1>1, <2>1, ListBounds
  <2>5. Congruent(ColumnsTimes(M[n], Added(n, from), n), Rc(n, Half + R + r + 2), n)
    <3> HIDE DEF n, r
    <3> QED BY <1>1, <2>1, FoldsOfFullRounds
  <2>6. Congruent(ColumnsTimes(M[n], Added(n, from), n), Rc(n, round + 1), n)
    BY <2>3, <2>5
  <2> HIDE DEF from, n, r, R
  <2> QED BY <1>2, <2>1, <2>2, <2>3, <2>4, <2>6
<1> QED BY <1>3, <1>4

\* The turning round keeps in step.
LEMMA TurningStep ==
  ASSUME NEW turn, NEW shift, ScheduleFolds(turn, shift), HashInv(turn, shift), TurningRound
  PROVE  HashInv(turn, shift)'
<1> DEFINE n == Width
           R == PartialRounds[n]
<1>1. n \in Widths /\ R \in Nat /\ Half \in Nat /\ Half >= 1 /\ FullRounds = 2 * Half
  BY Rounds DEF HashInv
<1>2. /\ round = Half /\ Advances
      /\ state' = Mix(AddConstants(SBox(state), GetConstants.C[n], Half * n), GetConstants.P[n])
  BY DEF TurningRound
<1>3. /\ Half \in 1..Half /\ Half \in 1..FullRounds + R /\ Half \in 0..FullRounds - 1
      /\ 0 \in 0..R /\ Half + 1 + 0 = Half + 1
  BY <1>1
<1>4. /\ state \in Vectors(n) /\ ideal \in Vectors(n) /\ PlainAt(state, ideal, n, Half)
      /\ state' = Mix(AddConstants(SBox(state), C[n], Half * n), P[n])
  BY <1>2, <1>3, BeforeRound DEF InStep
<1>5. ideal' = Mix(SBox(AddConstants(ideal, RoundConstants[n][Half], 0)), M[n])
  BY <1>1, <1>2, IdealFullRound DEF Advances
<1>6. Added(n, Half * n) \in Vectors(n)
  BY <1>1, <1>3, ListBounds
<1>7. /\ state' \in Residues(n) /\ ideal' \in Residues(n)
      /\ Congruent(state', TurnedState(turn, shift, n, 0, ideal'), n)
  BY <1>1, <1>4, <1>5, <1>6, TurningRoundAgrees
<1>8. InStep(turn, shift, n, Half + 1, state', ideal')
  BY <1>1, <1>3, <1>7, InStepTurned
<1> QED BY <1>2, <1>8, RoundKeeps

\* A partial round keeps in step.
LEMMA PartialStep ==
  ASSUME NEW turn, NEW shift, ScheduleFolds(turn, shift), HashInv(turn, shift), PartialRound
  PROVE  HashInv(turn, shift)'
<1> DEFINE n == Width
           R == PartialRounds[n]
           j == round - Half - 1
           e == C[n][(Half + 1) * n + j + 1]
           boxed == [state EXCEPT ![0] = Mod(Pow5(@) + e)]
           added == AddConstants(ideal, RoundConstants[n][round], 0)
           w == [added EXCEPT ![0] = Pow5(@)]
           z == Pow5(added[0])
<1>1. /\ n \in Widths /\ n \in Nat /\ 0 \in Indices(n) /\ R \in Nat /\ Half \in Nat /\ Half >= 1
      /\ FullRounds = 2 * Half
  BY Rounds DEF HashInv
<1>2. round \in Int
  <2>1. InStep(turn, shift, n, round, state, ideal)
    BY DEF HashInv
  <2> QED BY <1>1, <2>1 DEF InStep
<1>3. j \in 0..R - 1 /\ Advances
  BY DEF PartialRound
<1>4. /\ round \in 1..FullRounds + R /\ round \in Half + 1..Half + R
      /\ ~(round <= Half \/ round > Half + R) /\ round = Half + 1 + j /\ j + 1 \in 0..R
      /\ round + 1 = Half + 1 + (j + 1) /\ j \in Int
  BY <1>1, <1>2, <1>3
<1>5. /\ state \in Residues(n) /\ ideal \in Residues(n) /\ state \in Vectors(n) /\ ideal \in Vectors(n)
      /\ GetConstants.C = C /\ GetConstants.S = S
      /\ Congruent(state, TurnedState(turn, shift, n, j, ideal), n)
  BY <1>4, BeforeRound DEF InStep
<1>6. state' = Sparse(boxed, S[n], (2 * n - 1) * j)
  BY <1>5 DEF PartialRound
<1>7. ideal' = Mix(w, M[n])
  BY <1>3, <1>4 DEF Advances, IdealRound
<1>8. Rc(n, round) \in Vectors(n) /\ added \in Residues(n) /\ added \in Vectors(n)
      /\ \A i \in Indices(n) : added[i] \in Int /\ Mod(added[i]) = Mod(ideal[i] + Rc(n, round)[i])
  BY <1>1, <1>4, <1>5, IdealAdds
<1>9. e \in Int
  <2> HIDE DEF n, j
  <2> QED BY <1>1, <1>3, ListBounds
<1> HIDE DEF added, e, j
<1>10. Mod(state[0]) = Mod(added[0]) /\ Pow5(state[0]) = z /\ z \in ResiduesOfField /\ z \in Int
  <2>1. Mod(state[0]) = Mod(ideal[0] + Rc(n, Half + 1 + j)[0])
    BY <1>1, <1>3, <1>4, <1>5, <1>8, FirstElement
  <2>2. Mod(state[0]) = Mod(added[0]) /\ state[0] \in Int /\ added[0] \in Int
    BY <1>1, <1>4, <1>5, <1>8, <2>1 DEF Vectors
  <2>3. Pow5(state[0]) = Pow5(added[0]) /\ Pow5(state[0]) \in ResiduesOfField
    BY <2>2, PowerOfResidue
  <2> QED BY <2>2, <2>3, ModResidue DEF ResiduesOfField
<1>11. /\ w \in Vectors(n) /\ w[0] = z /\ \A l \in Indices(n) : l # 0 => w[l] = added[l]
  BY <1>1, <1>8, <1>10 DEF Vectors
<1>12. /\ boxed \in Vectors(n) /\ boxed[0] = Mod(z + e) /\ Mod(boxed[0]) = Mod(z + e)
       /\ \A l \in Indices(n) : l # 0 => boxed[l] = state[l]
  <2>1. z + e \in Int /\ Mod(z + e) \in Int /\ Mod(Mod(z + e)) = Mod(z + e)
    <3>1. z + e \in Int
      BY <1>9, <1>10
    <3> QED BY <3>1, ModOfMod
  <2> HIDE DEF z
  <2> QED BY <1>1, <1>5, <1>10, <2>1 DEF Vectors
<1> HIDE DEF boxed, w, z
<1>13. /\ ideal' \in Residues(n) /\ ideal' \in Vectors(n)
       /\ Congruent(ideal', Apply(ByColumns(M[n], n), w, n), n)
  <2> DEFINE A == ByColumns(M[n], n)
  <2>1. M[n] \in [1..n -> [1..n -> Int]] /\ A \in Matrices(n)
    BY <1>1, ColumnsOfSquares
  <2>2. ideal' \in Residues(n) /\ \A i \in Indices(n) : ideal'[i] = Mod(Apply(A, w, n)[i])
    BY <1>1, <1>7, <1>11, <2>1, MixIsAProduct
  <2> HIDE DEF A
  <2>3. \A i \in Indices(n) : Apply(A, w, n)[i] \in Int
    BY <1>1, <1>11, <2>1, ApplyInt DEF Vectors
  <2>4. \A i \in Indices(n) : Mod(ideal'[i]) = Mod(Apply(A, w, n)[i])
    BY <2>2, <2>3, ModOfMod
  <2> QED BY <2>2, <2>4, ResiduesAreVectors DEF Congruent, A
<1>14. \A l \in Indices(n) : l # 0 => Mod(w[l]) = Mod(ideal[l] + Rc(n, Half + 1 + j)[l])
  BY <1>4, <1>8, <1>11
<1>15. Congruent(Sparse(boxed, S[n], (2 * n - 1) * j), TurnedState(turn, shift, n, j + 1, ideal'), n)
  <2>1. C[n][(Half + 1) * n + j + 1] \in Int /\ Mod(boxed[0]) = Mod(z + C[n][(Half + 1) * n + j + 1])
    BY <1>9, <1>12 DEF e
  <2>2. Rc(n, Half + 1 + j) \in Vectors(n)
    BY <1>4, <1>8
  <2> HIDE DEF R
  <2> QED BY <1>1, <1>3, <1>5, <1>10, <1>11, <1>12, <1>13, <1>14, <2>1, <2>2, PartialRoundAgrees DEF R
<1>16. state' \in Residues(n)
  BY <1>1, <1>3, <1>6, <1>12, SparseIsAProduct
<1>17. InStep(turn, shift, n, Half + 1 + (j + 1), state', ideal')
  BY <1>1, <1>4, <1>6, <1>13, <1>15, <1>16, InStepTurned
<1> QED BY <1>3, <1>4, <1>17, RoundKeeps

\* The last round makes the two states equal.
LEMMA FinalStep ==
  ASSUME NEW turn, NEW shift, HashInv(turn, shift), FinalRound
  PROVE  HashInv(turn, shift)'
<1> DEFINE n == Width
           R == PartialRounds[n]
           added == AddConstants(ideal, RoundConstants[n][round], 0)
<1>1. n \in Widths /\ n \in Nat /\ R \in Nat /\ Half \in Nat /\ Half >= 1 /\ FullRounds = 2 * Half
  BY Rounds DEF HashInv
<1>2. round = FullRounds + R /\ Advances /\ state' = Mix(SBox(state), GetConstants.M[n])
  BY DEF FinalRound
<1>3. /\ round \in 1..FullRounds + R /\ round > Half + R /\ round \in Half + R + 1..FullRounds + R
      /\ round + 1 = FullRounds + R + 1 /\ round + 1 # 0 /\ round + 1 \in 0..FullRounds + R + 1
      /\ ~(round + 1 \in 1..Half) /\ ~(round + 1 \in Half + R + 1..FullRounds + R)
      /\ ~(round + 1 \in Half + 1..Half + R)
  BY <1>1, <1>2
<1>4. /\ state \in Vectors(n) /\ ideal \in Vectors(n) /\ PlainAt(state, ideal, n, round)
      /\ state' = Mix(SBox(state), M[n])
  BY <1>2, <1>3, BeforeRound DEF InStep
<1>5. ideal' = Mix(SBox(added), M[n])
  BY <1>2, <1>3, IdealFullRound DEF Advances
<1>6. added \in Vectors(n) /\ Congruent(state, added, n)
  <2> HIDE DEF n, R
  <2>1. /\ added \in Vectors(n)
        /\ Congruent(added, Plus(ideal, Rc(n, round), n), n)
    BY <1>1, <1>3, <1>4, IdealAdds DEF R
  <2>2. Congruent(state, Plus(ideal, Rc(n, round), n), n)
    BY <1>4 DEF PlainAt
  <2> QED BY <2>1, <2>2 DEF Congruent
<1> HIDE DEF added
<1>7. SBox(state) = SBox(added) /\ SBox(state) \in Vectors(n)
  BY <1>1, <1>4, <1>6, BoxesAgree, ResiduesAreVectors
<1>8. state' \in Residues(n)
  <2>1. M[n] \in [1..n -> [1..n -> Int]]
    BY <1>1, ColumnsOfSquares
  <2> DEFINE box == SBox(state)
  <2>2. box \in Vectors(n)
    BY <1>7
  <2> HIDE DEF box
  <2>3. Mix(box, M[n]) \in Residues(n)
    BY <1>1, <2>1, <2>2, MixIsAProduct
  <2> QED BY <1>4, <2>3 DEF box
<1>9. ideal' = state'
  BY <1>4, <1>5, <1>7
<1>10. InStep(turn, shift, n, round + 1, state', ideal')
  BY <1>3, <1>8, <1>9 DEF InStep
<1> QED BY <1>2, <1>10, RoundKeeps

\* The code and the permutation are in step from call to call.
LEMMA HashInvInductive ==
  ASSUME NEW turn, NEW shift, ScheduleFolds(turn, shift)
  PROVE  /\ PoseidonInit => HashInv(turn, shift)
         /\ HashInv(turn, shift) /\ [PoseidonNext]_poseidonVars => HashInv(turn, shift)'
         /\ HashInv(turn, shift) => DigestIsReference
<1>1. ASSUME PoseidonInit PROVE HashInv(turn, shift)
  <2>1. constantsCache = NotLoaded /\ values = <<0>> /\ round = 0
    BY <1>1 DEF PoseidonInit
  <2>2. Width = 2
    BY <2>1 DEF Width
  <2>3. Width \in Widths
    BY <2>2, RoundsAssumption
  <2>4. GetConstants = [C |-> C, S |-> S, M |-> M, P |-> P]
    BY <2>1 DEF GetConstants
  <2>5. InStep(turn, shift, Width, round, state, ideal)
    BY <2>1, <2>3, Rounds DEF InStep
  <2> QED BY <2>3, <2>4, <2>5 DEF HashInv
<1>2. ASSUME HashInv(turn, shift), [PoseidonNext]_poseidonVars PROVE HashInv(turn, shift)'
  <2>1. CASE \E width \in Widths : \E inputs \in [1..width - 1 -> Values] : PoseidonCall(inputs)
    BY <1>2, <2>1, CallStarts
  <2>2. CASE FirstFullRound \/ LastFullRound
    BY <1>2, <2>2, FullRoundSteps
  <2>3. CASE TurningRound
    BY <1>2, <2>3, TurningStep
  <2>4. CASE PartialRound
    BY <1>2, <2>4, PartialStep
  <2>5. CASE FinalRound
    BY <1>2, <2>5, FinalStep
  <2>6. CASE UNCHANGED poseidonVars
    BY <1>2, <2>6 DEF HashInv, poseidonVars, Width, GetConstants
  <2> QED BY <1>2, <2>1, <2>2, <2>3, <2>4, <2>5, <2>6 DEF PoseidonNext
<1>3. ASSUME HashInv(turn, shift), round > FullRounds + PartialRounds[Width] PROVE state[0] = ideal[0]
  <2>1. InStep(turn, shift, Width, round, state, ideal) /\ PartialRounds[Width] \in Nat /\ FullRounds \in Nat
    BY <1>3, Rounds DEF HashInv
  <2>2. round = FullRounds + PartialRounds[Width] + 1
    BY <1>3, <2>1 DEF InStep
  <2> QED BY <2>1, <2>2 DEF InStep
<1> QED BY <1>1, <1>2, <1>3 DEF DigestIsReference

\* For every field, every width and every number of rounds: with a file of constants
\* that folds the rounds, a call of poseidon (poseidon.ts:98-168) returns what the
\* permutation as it is defined returns.
THEOREM DigestIsReferenceAlways ==
  ASSUME NEW turn, NEW shift, ScheduleFolds(turn, shift)
  PROVE  PoseidonSpec => []DigestIsReference
<1>1. PoseidonInit => HashInv(turn, shift)
  BY HashInvInductive
<1>2. HashInv(turn, shift) /\ [PoseidonNext]_poseidonVars => HashInv(turn, shift)'
  BY HashInvInductive
<1>3. HashInv(turn, shift) => DigestIsReference
  BY HashInvInductive
<1> QED BY <1>1, <1>2, <1>3, PTL DEF PoseidonSpec

=============================================================================
