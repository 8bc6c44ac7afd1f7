-------------------------- MODULE CommitmentProofs --------------------------
(* Theorems about Commitments, for every prime field, every hash without      *)
(* collisions, lists of every length and comparators of every width: what the *)
(* digests bind and what the circuits accept.                                 *)
EXTENDS Commitments, HashProofs

-----------------------------------------------------------------------------
(* Digests. *)

\* Equal digests are of lists whose elements have the same residues.
LEMMA DigestBinds ==
  ASSUME HashIsFree, NEW a, NEW b, Digest(a) = Digest(b)
  PROVE  /\ DOMAIN a = DOMAIN b
         /\ \A i \in DOMAIN a : Residue(a[i]) = Residue(b[i])
<1> DEFINE ra == [i \in DOMAIN a |-> Residue(a[i])]
           rb == [i \in DOMAIN b |-> Residue(b[i])]
<1>1. \A x, y : Hash(x) = Hash(y) => x = y
  BY DEF HashIsFree
<1>2. Hash(ra) = Hash(rb)
  BY DEF Digest
<1>3. /\ DOMAIN ra = DOMAIN a /\ \A i \in DOMAIN a : ra[i] = Residue(a[i])
      /\ DOMAIN rb = DOMAIN b /\ \A i \in DOMAIN b : rb[i] = Residue(b[i])
  OBVIOUS
<1> HIDE DEF ra, rb
<1>4. ra = rb
  BY <1>1, <1>2
<1> QED BY <1>3, <1>4, Zenon

\* A list whose elements have the same residues has the same digest.
LEMMA DigestOfResidues ==
  ASSUME NEW a, NEW b, DOMAIN a = DOMAIN b,
         \A i \in DOMAIN a : Residue(a[i]) = Residue(b[i])
  PROVE  Digest(a) = Digest(b)
<1>1. [i \in DOMAIN a |-> Residue(a[i])] = [i \in DOMAIN b |-> Residue(b[i])]
  OBVIOUS
<1> QED BY <1>1, Zenon DEF Digest

\* poseidonCommit of one element is poseidonCommit of another only if they are the
\* same field element.
LEMMA SingleDigest ==
  ASSUME HashIsFree, NEW x, NEW y
  PROVE  Digest(<<x>>) = Digest(<<y>>) <=> Residue(x) = Residue(y)
<1> DEFINE a == <<x>>
           b == <<y>>
<1>1. DOMAIN a = {1} /\ DOMAIN b = {1} /\ a[1] = x /\ b[1] = y
  OBVIOUS
<1> HIDE DEF a, b
<1>2. Digest(a) = Digest(b) => Residue(x) = Residue(y)
  <2> SUFFICES ASSUME Digest(a) = Digest(b) PROVE Residue(x) = Residue(y)
    OBVIOUS
  <2>1. \A i \in DOMAIN a : Residue(a[i]) = Residue(b[i])
    BY DigestBinds, Zenon
  <2> QED BY <1>1, <2>1
<1>3. Residue(x) = Residue(y) => Digest(a) = Digest(b)
  <2> SUFFICES ASSUME Residue(x) = Residue(y) PROVE Digest(a) = Digest(b)
    OBVIOUS
  <2>1. \A i \in DOMAIN a : Residue(a[i]) = Residue(b[i])
    BY <1>1
  <2> QED BY <1>1, <2>1, DigestOfResidues
<1> QED BY <1>2, <1>3 DEF a, b

\* A digest is its own residue.
LEMMA ResidueOfDigest ==
  ASSUME HashIsFree, NEW list
  PROVE  Residue(Digest(list)) = Digest(list)
<1> DEFINE d == [i \in DOMAIN list |-> Residue(list[i])]
<1>1. \A a : Hash(a)[1] # "field"
  BY DEF HashIsFree
<1> HIDE DEF d
<1>2. Hash(d)[1] # "field"
  BY <1>1
<1>3. Residue(Hash(d)) = Hash(d)
  BY <1>2 DEF Residue
<1> QED BY <1>3 DEF Digest, d

-----------------------------------------------------------------------------
(* Identities. *)

\* What was registered is the payload of its secret, and an accepted identity proof
\* satisfies the circuit.
IdentityInv ==
  /\ registered # NoCommitment =>
       \E s : registered = [secret |-> s, payload |-> IdentityRegistrationPayload(s)]
  /\ Accepted("identity_commitment") => IdentityCommitmentCircuit(attempt.in)

\* An offer is of one circuit, with what it was offered and whether that was accepted.
LEMMA OfferFields ==
  ASSUME NEW circuit, NEW in, NEW accepted, Offers(circuit, in, accepted)
  PROVE  /\ attempt = NoCommitment
         /\ attempt'.circuit = circuit /\ attempt'.in = in /\ attempt'.accepted = accepted
BY DEF Offers

LEMMA IdentityInvInductive ==
  /\ CommitmentInit => IdentityInv
  /\ IdentityInv /\ [IdentityNext \/ CircuitNext \/ DigestNext]_commitmentVars => IdentityInv'
<1>1. CommitmentInit => IdentityInv
  BY DEF CommitmentInit, IdentityInv, Accepted
<1>2. ASSUME IdentityInv, UNCHANGED <<registered, attempt>> PROVE IdentityInv'
  BY <1>2 DEF IdentityInv, Accepted, IdentityCommitmentCircuit
<1>3. ASSUME IdentityInv, NEW secret, RegisterIdentity(secret) PROVE IdentityInv'
  <2>1. /\ registered' = [secret |-> secret, payload |-> IdentityRegistrationPayload(secret)]
        /\ attempt' = attempt
    BY <1>3 DEF RegisterIdentity
  <2>2. Accepted("identity_commitment")' => IdentityCommitmentCircuit(attempt.in)'
    BY <1>3, <2>1 DEF IdentityInv, Accepted, IdentityCommitmentCircuit
  <2> QED BY <2>1, <2>2 DEF IdentityInv
<1>4. ASSUME IdentityInv, UNCHANGED registered, NEW circuit, NEW in, NEW accepted,
             Offers(circuit, in, accepted),
             circuit = "identity_commitment" /\ accepted => IdentityCommitmentCircuit(in)
      PROVE  IdentityInv'
  <2>1. attempt'.circuit = circuit /\ attempt'.in = in /\ attempt'.accepted = accepted
    BY <1>4, OfferFields
  <2>2. IdentityCommitmentCircuit(in) = IdentityCommitmentCircuit(attempt.in)'
    BY <2>1 DEF IdentityCommitmentCircuit
  <2> QED BY <1>4, <2>1, <2>2 DEF IdentityInv, Accepted
<1>5. ASSUME IdentityInv, NEW secret, NEW other, ProveIdentity(secret, other)
      PROVE  IdentityInv'
  BY <1>4, <1>5 DEF ProveIdentity
<1>6. ASSUME IdentityInv, NEW secret, NEW other, ProvePreimage(secret, other)
      PROVE  IdentityInv'
  BY <1>4, <1>6 DEF ProvePreimage
<1>7. ASSUME IdentityInv, NEW secret, NEW min, NEW max, ProveRange(secret, min, max)
      PROVE  IdentityInv'
  BY <1>4, <1>7 DEF ProveRange
<1>8. ASSUME IdentityInv, NEW keys, NEW active, ProveThreshold(keys, active)
      PROVE  IdentityInv'
  BY <1>4, <1>8 DEF ProveThreshold
<1>9. IdentityInv /\ [IdentityNext \/ CircuitNext \/ DigestNext]_commitmentVars => IdentityInv'
  BY <1>2, <1>3, <1>5, <1>6, <1>7, <1>8
     DEF IdentityNext, CircuitNext, DigestNext, BatchCall, DomainCall, Hashes, commitmentVars
<1> QED BY <1>1, <1>9

LEMMA RecognisedFromInv ==
  ASSUME HashIsFree, IdentityInv
  PROVE  IdentityIsRecognised
<1> SUFFICES ASSUME Accepted("identity_commitment"), registered # NoCommitment
             PROVE  LET parsed == ParseIdentityPublicSignals(<<attempt.in.inner, attempt.in.commitment2>>)
                        same == SameElement(attempt.in.secret, registered.secret)
                    IN  /\ parsed.outer = registered.payload.anchor <=> same
                        /\ VerifyIdentityCommitment(parsed.inner, registered.payload.anchor) <=> same
                        /\ VerifyIdentityCommitment(registered.payload.innerCommitment, parsed.outer) <=> same
  BY DEF IdentityIsRecognised
<1> DEFINE s == registered.secret
           t == attempt.in.secret
           ds == Digest(<<s>>)
           dt == Digest(<<t>>)
           parsed == ParseIdentityPublicSignals(<<attempt.in.inner, attempt.in.commitment2>>)
<1>1. /\ registered.payload.anchor = Digest(<<ds>>)
      /\ registered.payload.innerCommitment = ds
  <2>1. PICK x : registered = [secret |-> x, payload |-> IdentityRegistrationPayload(x)]
    BY DEF IdentityInv
  <2>2. s = x /\ registered.payload = IdentityRegistrationPayload(x)
    BY <2>1
  <2> QED BY <2>2 DEF IdentityRegistrationPayload, BuildIdentityCommitment,
                      PoseidonCommitDouble, PoseidonCommit
<1>2. parsed.inner = dt /\ parsed.outer = Digest(<<dt>>)
  <2>1. attempt.in.inner = dt /\ attempt.in.commitment2 = Digest(<<dt>>)
    BY DEF IdentityInv, IdentityCommitmentCircuit
  <2> QED BY <2>1 DEF ParseIdentityPublicSignals
<1>3. dt = ds <=> SameElement(t, s)
  BY SingleDigest DEF SameElement
<1>4. Digest(<<dt>>) = Digest(<<ds>>) <=> dt = ds
  <2>1. Residue(dt) = dt /\ Residue(ds) = ds
    BY ResidueOfDigest
  <2> HIDE DEF dt, ds
  <2> QED BY <2>1, SingleDigest
<1> HIDE DEF s, t, ds, dt, parsed
<1>5. /\ parsed.outer = registered.payload.anchor <=> SameElement(t, s)
      /\ VerifyIdentityCommitment(parsed.inner, registered.payload.anchor) <=> SameElement(t, s)
      /\ VerifyIdentityCommitment(registered.payload.innerCommitment, parsed.outer) <=> SameElement(t, s)
  BY <1>1, <1>2, <1>3, <1>4 DEF VerifyIdentityCommitment
<1> QED BY <1>5 DEF parsed, s, t

\* Whatever is registered and proved in whatever order, the public signals of an
\* accepted identity proof name the registered anchor exactly when the prover has
\* the registered secret (identity.ts:58-215, identity_commitment/circuit.circom).
THEOREM IdentityIsRecognisedAlways ==
  ASSUME HashIsFree
  PROVE  CommitmentSpec => []IdentityIsRecognised
<1>1. IdentityInv => IdentityIsRecognised
  BY RecognisedFromInv
<1> QED BY <1>1, IdentityInvInductive, PTL DEF CommitmentSpec

-----------------------------------------------------------------------------
(* The numbers of the comparators and of the loop over the bits. *)

\* PowerOfTwo doubles.
LEMMA PowerOfTwoDef ==
  \A k \in 0..BitLength :
           PowerOfTwo[k] = IF k = 0 THEN 1 ELSE 2 * PowerOfTwo[k - 1]
<1> DEFINE Turn(before, k) == 2 * before
           Solves(f, n) == f = [k \in 0..n |-> IF k = 0 THEN 1 ELSE Turn(f[k - 1], k)]
           T == {n \in Nat : \E f : Solves(f, n)}
<1>1. PowerOfTwo = CHOOSE f : Solves(f, BitLength)
  BY DEF PowerOfTwo
<1> HIDE DEF Turn
<1>2. 0 \in T
  <2> DEFINE f == [k \in 0..0 |-> 1]
  <2>1. Solves(f, 0)
    OBVIOUS
  <2> QED BY <2>1
<1>3. ASSUME NEW n \in Nat, NEW f, Solves(f, n) PROVE \E g : Solves(g, n + 1)
  <2> DEFINE g == [k \in 0..(n + 1) |-> IF k \in 0..n THEN f[k] ELSE Turn(f[n], n + 1)]
  <2>1. \A k \in 0..(n + 1) : g[k] = IF k = 0 THEN 1 ELSE Turn(g[k - 1], k)
    <3> TAKE k \in 0..(n + 1)
    <3>1. CASE k = 0
      BY <1>3, <3>1
    <3>2. CASE k \in 1..n
      <4>1. k - 1 \in 0..n /\ k - 1 \in 0..(n + 1) /\ k \in 0..n
        BY <3>2
      <4>2. g[k] = f[k] /\ g[k - 1] = f[k - 1]
        BY <4>1
      <4> QED BY <1>3, <3>2, <4>1, <4>2
    <3>3. CASE k = n + 1
      <4>1. k - 1 \in 0..(n + 1) /\ ~(k \in 0..n) /\ k # 0 /\ k - 1 = n
        BY <3>3
      <4>2. g[k] = Turn(f[n], n + 1) /\ g[k - 1] = f[n]
        BY <4>1
      <4> QED BY <3>3, <4>1, <4>2
    <3> QED BY <3>1, <3>2, <3>3
  <2>2. Solves(g, n + 1)
    BY <2>1
  <2> QED BY <2>2
<1>4. \E f : Solves(f, BitLength)
  <2> HIDE DEF Solves
  <2>1. \A n \in Nat : n \in T <=> \E f : Solves(f, n)
    OBVIOUS
  <2>2. \A n \in Nat : n \in T => n + 1 \in T
    BY <1>3, <2>1
  <2> HIDE DEF T
  <2>3. BitLength \in T
    BY <1>2, <2>2, InductionUpTo, ComparatorAssumption
  <2> QED BY <2>1, <2>3, ComparatorAssumption
<1>5. Solves(PowerOfTwo, BitLength)
  <2> HIDE DEF Solves
  <2> QED BY <1>1, <1>4, Zenon
<1> QED BY <1>5 DEF Turn

\* The loop over the bits adds one bit at a time.
LEMMA LinearCombinationDef ==
  ASSUME NEW bits
  PROVE  \A k \in 0..BitLength :
           LinearCombination(bits)[k] = IF k = 0 THEN 0 ELSE LinearCombination(bits)[k - 1] + bits[k - 1] * PowerOfTwo[k - 1]
<1> DEFINE Turn(before, k) == before + bits[k - 1] * PowerOfTwo[k - 1]
           Solves(f, n) == f = [k \in 0..n |-> IF k = 0 THEN 0 ELSE Turn(f[k - 1], k)]
           T == {n \in Nat : \E f : Solves(f, n)}
<1>1. LinearCombination(bits) = CHOOSE f : Solves(f, BitLength)
  BY DEF LinearCombination
<1> HIDE DEF Turn
<1>2. 0 \in T
  <2> DEFINE f == [k \in 0..0 |-> 0]
  <2>1. Solves(f, 0)
    OBVIOUS
  <2> QED BY <2>1
<1>3. ASSUME NEW n \in Nat, NEW f, Solves(f, n) PROVE \E g : Solves(g, n + 1)
  <2> DEFINE g == [k \in 0..(n + 1) |-> IF k \in 0..n THEN f[k] ELSE Turn(f[n], n + 1)]
  <2>1. \A k \in 0..(n + 1) : g[k] = IF k = 0 THEN 0 ELSE Turn(g[k - 1], k)
    <3> TAKE k \in 0..(n + 1)
    <3>1. CASE k = 0
      BY <1>3, <3>1
    <3>2. CASE k \in 1..n
      <4>1. k - 1 \in 0..n /\ k - 1 \in 0..(n + 1) /\ k \in 0..n
        BY <3>2
      <4>2. g[k] = f[k] /\ g[k - 1] = f[k - 1]
        BY <4>1
      <4> QED BY <1>3, <3>2, <4>1, <4>2
    <3>3. CASE k = n + 1
      <4>1. k - 1 \in 0..(n + 1) /\ ~(k \in 0..n) /\ k # 0 /\ k - 1 = n
        BY <3>3
      <4>2. g[k] = Turn(f[n], n + 1) /\ g[k - 1] = f[n]
        BY <4>1
      <4> QED BY <3>3, <4>1, <4>2
    <3> QED BY <3>1, <3>2, <3>3
  <2>2. Solves(g, n + 1)
    BY <2>1
  <2> QED BY <2>2
<1>4. \E f : Solves(f, BitLength)
  <2> HIDE DEF Solves
  <2>1. \A n \in Nat : n \in T <=> \E f : Solves(f, n)
    OBVIOUS
  <2>2. \A n \in Nat : n \in T => n + 1 \in T
    BY <1>3, <2>1
  <2> HIDE DEF T
  <2>3. BitLength \in T
    BY <1>2, <2>2, InductionUpTo, ComparatorAssumption
  <2> QED BY <2>1, <2>3, ComparatorAssumption
<1>5. Solves(LinearCombination(bits), BitLength)
  <2> HIDE DEF Solves
  <2> QED BY <1>1, <1>4, Zenon
<1> QED BY <1>5 DEF Turn

LEMMA PowersArePositive ==
  \A k \in 0..BitLength : PowerOfTwo[k] \in Nat \ {0}
<1> DEFINE T == {k \in 0..BitLength : PowerOfTwo[k] \in Nat \ {0}}
<1>1. 0 \in T
  BY PowerOfTwoDef, ComparatorAssumption
<1>2. \A k \in 0..BitLength : k \in T /\ k < BitLength => k + 1 \in T
  <2> SUFFICES ASSUME NEW k \in 0..BitLength, PowerOfTwo[k] \in Nat \ {0}, k < BitLength
               PROVE  k + 1 \in 0..BitLength /\ PowerOfTwo[k + 1] \in Nat \ {0}
    OBVIOUS
  <2>1. k + 1 \in 0..BitLength /\ k + 1 # 0 /\ (k + 1) - 1 = k
    BY ComparatorAssumption
  <2>2. PowerOfTwo[k + 1] = 2 * PowerOfTwo[k]
    BY <2>1, PowerOfTwoDef
  <2> QED BY <2>1, <2>2
<1>3. \A k \in 0..BitLength : k \in T
  <2> HIDE DEF T
  <2> QED BY <1>1, <1>2, InductionUpTo, ComparatorAssumption
<1> QED BY <1>3

\* The next power and the next sum of the loop.
LEMMA NextBit ==
  ASSUME NEW k \in 0..BitLength, k < BitLength, NEW bits
  PROVE  /\ k + 1 \in 0..BitLength /\ k \in 0..BitLength - 1
         /\ PowerOfTwo[k] \in Nat \ {0}
         /\ PowerOfTwo[k + 1] = 2 * PowerOfTwo[k]
         /\ LinearCombination(bits)[k + 1] = LinearCombination(bits)[k] + bits[k] * PowerOfTwo[k]
<1>1. k + 1 \in 0..BitLength /\ k \in 0..BitLength - 1 /\ k + 1 # 0 /\ (k + 1) - 1 = k
  BY ComparatorAssumption
<1>2. PowerOfTwo[k + 1] = 2 * PowerOfTwo[k]
  BY <1>1, PowerOfTwoDef
<1>3. LinearCombination(bits)[k + 1] = LinearCombination(bits)[k] + bits[k] * PowerOfTwo[k]
  BY <1>1, LinearCombinationDef
<1> QED BY <1>1, <1>2, <1>3, PowersArePositive

LEMMA NoBitsYet ==
  ASSUME NEW bits
  PROVE  0 \in 0..BitLength /\ PowerOfTwo[0] = 1 /\ LinearCombination(bits)[0] = 0
BY PowerOfTwoDef, LinearCombinationDef, ComparatorAssumption

\* What k bits add up to is a number of k bits.
LEMMA SumFitsItsBits ==
  ASSUME NEW bits \in [0..BitLength - 1 -> {0, 1}]
  PROVE  \A k \in 0..BitLength : LinearCombination(bits)[k] \in 0..PowerOfTwo[k] - 1
<1> DEFINE T == {k \in 0..BitLength : LinearCombination(bits)[k] \in 0..PowerOfTwo[k] - 1}
<1>1. 0 \in T
  BY NoBitsYet
<1>2. \A k \in 0..BitLength : k \in T /\ k < BitLength => k + 1 \in T
  <2> SUFFICES ASSUME NEW k \in 0..BitLength, k < BitLength,
                      LinearCombination(bits)[k] \in 0..PowerOfTwo[k] - 1
               PROVE  /\ k + 1 \in 0..BitLength
                      /\ LinearCombination(bits)[k + 1] \in 0..PowerOfTwo[k + 1] - 1
    OBVIOUS
  <2> DEFINE sum == LinearCombination(bits)[k]
             power == PowerOfTwo[k]
  <2>1. /\ k + 1 \in 0..BitLength /\ k \in 0..BitLength - 1 /\ power \in Nat \ {0}
        /\ PowerOfTwo[k + 1] = 2 * power
        /\ LinearCombination(bits)[k + 1] = sum + bits[k] * power
    BY NextBit
  <2>2. bits[k] \in {0, 1}
    BY <2>1
  <2>3. sum \in 0..power - 1
    OBVIOUS
  <2> HIDE DEF sum, power
  <2>4. CASE bits[k] = 0
    <3>1. LinearCombination(bits)[k + 1] = sum
      BY <2>1, <2>3, <2>4
    <3> QED BY <2>1, <2>3, <3>1
  <2>5. CASE bits[k] = 1
    <3>1. LinearCombination(bits)[k + 1] = sum + power
      BY <2>1, <2>3, <2>5
    <3> QED BY <2>1, <2>3, <3>1
  <2> QED BY <2>2, <2>4, <2>5
<1>3. \A k \in 0..BitLength : k \in T
  <2> HIDE DEF T
  <2> QED BY <1>1, <1>2, InductionUpTo, ComparatorAssumption
<1> QED BY <1>3

\* A sum is of the bits below it only.
LEMMA SumOfLowerBits ==
  ASSUME NEW bits, NEW others, NEW n \in 0..BitLength
  PROVE  (\A i \in 0..BitLength - 1 : i < n => bits[i] = others[i])
           => LinearCombination(bits)[n] = LinearCombination(others)[n]
<1> SUFFICES ASSUME \A i \in 0..BitLength - 1 : i < n => bits[i] = others[i]
             PROVE  LinearCombination(bits)[n] = LinearCombination(others)[n]
  OBVIOUS
<1> DEFINE T == {k \in 0..n : LinearCombination(bits)[k] = LinearCombination(others)[k]}
<1>0. n \in Nat /\ n <= BitLength /\ BitLength \in Nat
  BY ComparatorAssumption
<1>1. 0 \in T
  BY <1>0, NoBitsYet
<1>2. \A k \in 0..n : k \in T /\ k < n => k + 1 \in T
  <2> SUFFICES ASSUME NEW k \in 0..n, k < n,
                      LinearCombination(bits)[k] = LinearCombination(others)[k]
               PROVE  /\ k + 1 \in 0..n
                      /\ LinearCombination(bits)[k + 1] = LinearCombination(others)[k + 1]
    OBVIOUS
  <2>1. k \in 0..BitLength /\ k < BitLength /\ k \in 0..BitLength - 1 /\ k + 1 \in 0..n
    BY <1>0
  <2>2. bits[k] = others[k]
    BY <2>1
  <2>3. LinearCombination(bits)[k + 1] = LinearCombination(bits)[k] + bits[k] * PowerOfTwo[k]
    BY <2>1, NextBit
  <2>4. LinearCombination(others)[k + 1] = LinearCombination(others)[k] + others[k] * PowerOfTwo[k]
    BY <2>1, NextBit
  <2> QED BY <2>1, <2>2, <2>3, <2>4
<1>3. \A k \in 0..n : k \in T
  <2> HIDE DEF T
  <2> QED BY <1>0, <1>1, <1>2, InductionUpTo
<1>4. n \in 0..n
  BY <1>0
<1> QED BY <1>3, <1>4

\* Every number of k bits is a sum of k bits.
LEMMA NumbersHaveBits ==
  \A k \in 0..BitLength : \A v \in 0..PowerOfTwo[k] - 1 :
    \E bits \in [0..BitLength - 1 -> {0, 1}] : LinearCombination(bits)[k] = v
<1> DEFINE Words == [0..BitLength - 1 -> {0, 1}]
           T == {k \in 0..BitLength : \A v \in 0..PowerOfTwo[k] - 1 :
                   \E bits \in Words : LinearCombination(bits)[k] = v}
<1>1. 0 \in T
  <2> DEFINE zeros == [i \in 0..BitLength - 1 |-> 0]
  <2>1. zeros \in Words
    OBVIOUS
  <2> HIDE DEF zeros
  <2>2. LinearCombination(zeros)[0] = 0 /\ PowerOfTwo[0] = 1 /\ 0 \in 0..BitLength
    BY NoBitsYet
  <2> QED BY <2>1, <2>2
<1>2. \A k \in 0..BitLength : k \in T /\ k < BitLength => k + 1 \in T
  <2> SUFFICES ASSUME NEW k \in 0..BitLength, k < BitLength, k \in T,
                      NEW v \in 0..PowerOfTwo[k + 1] - 1
               PROVE  /\ k + 1 \in 0..BitLength
                      /\ \E bits \in Words : LinearCombination(bits)[k + 1] = v
    BY ComparatorAssumption
  <2> DEFINE power == PowerOfTwo[k]
  <2>1. /\ k + 1 \in 0..BitLength /\ k \in 0..BitLength - 1 /\ power \in Nat \ {0}
        /\ PowerOfTwo[k + 1] = 2 * power
    BY NextBit
  <2>2. \A w \in 0..power - 1 : \E bits \in Words : LinearCombination(bits)[k] = w
    OBVIOUS
  <2>3. ASSUME NEW w \in 0..power - 1, NEW bit \in {0, 1}, v = w + bit * power
        PROVE  \E bits \in Words : LinearCombination(bits)[k + 1] = v
    <3>1. PICK bits \in Words : LinearCombination(bits)[k] = w
      BY <2>2
    <3>2. PICK longer \in Words :
             longer[k] = bit /\ \A i \in 0..BitLength - 1 : i < k => bits[i] = longer[i]
      <4>1. [bits EXCEPT ![k] = bit] \in Words
        BY <2>1
      <4>2. [bits EXCEPT ![k] = bit][k] = bit
        BY <2>1
      <4>3. \A i \in 0..BitLength - 1 : i < k => bits[i] = [bits EXCEPT ![k] = bit][i]
        OBVIOUS
      <4> HIDE DEF Words
      <4> QED BY <4>1, <4>2, <4>3, Zenon
    <3> HIDE DEF Words
    <3>3. LinearCombination(longer)[k] = w
      BY <3>1, <3>2, SumOfLowerBits
    <3>4. LinearCombination(longer)[k + 1] = LinearCombination(longer)[k] + longer[k] * power
      BY NextBit
    <3> QED BY <2>3, <3>2, <3>3, <3>4
  <2> HIDE DEF power
  <2>4. CASE v < power
    <3>1. v \in 0..power - 1 /\ v = v + 0 * power
      BY <2>1, <2>4
    <3> QED BY <2>1, <2>3, <3>1
  <2>5. CASE ~(v < power)
    <3>1. v - power \in 0..power - 1 /\ v = (v - power) + 1 * power
      BY <2>1, <2>5
    <3> QED BY <2>1, <2>3, <3>1
  <2> QED BY <2>4, <2>5
<1>3. \A k \in 0..BitLength : k \in T
  <2> HIDE DEF T
  <2> QED BY <1>1, <1>2, InductionUpTo, ComparatorAssumption
<1> QED BY <1>3

-----------------------------------------------------------------------------
(* What the constraints of each circuit say. *)

\* The wires of the range circuit; the values a member may give for active[i].
LEMMA WiresAreResidues ==
  /\ \A x \in Bounds : x \in ResiduesOfField
  /\ \A x \in ActiveValues : x \in ResiduesOfField
BY WiresAssumption DEF ResiduesOfField

\* The field has room for the comparators.
LEMMA FieldIsLarge ==
  /\ PowerOfTwo[BitLength] \in Nat \ {0}
  /\ Modulus \in Nat /\ Modulus > 3 /\ 2 * PowerOfTwo[BitLength] < Modulus
<1>1. BitLength \in 0..BitLength
  BY ComparatorAssumption
<1> QED BY <1>1, PowersArePositive, ModResidue, PrimeAssumption, ComparatorAssumption

\* The bits that the range circuit asks for exist for the secrets of n bits only.
LEMMA SecretHasBits ==
  ASSUME NEW secret \in ResiduesOfField
  PROVE  (\E bits \in [0..BitLength - 1 -> {0, 1}] :
            secret = Mod(LinearCombination(bits)[BitLength]))
         <=> secret \in 0..PowerOfTwo[BitLength] - 1
<1> DEFINE Words == [0..BitLength - 1 -> {0, 1}]
           power == PowerOfTwo[BitLength]
<1>1. BitLength \in 0..BitLength /\ power \in Nat \ {0} /\ Modulus \in Nat /\ 2 * power < Modulus
  BY FieldIsLarge, ComparatorAssumption
<1>2. \A bits \in Words : LinearCombination(bits)[BitLength] \in 0..power - 1
  BY <1>1, SumFitsItsBits
<1>3. \A v \in 0..power - 1 : \E bits \in Words : LinearCombination(bits)[BitLength] = v
  BY <1>1, NumbersHaveBits
<1> HIDE DEF Words, power
<1>4. \A v \in 0..power - 1 : v \in ResiduesOfField
  BY <1>1 DEF ResiduesOfField
<1>5. \A v \in 0..power - 1 : Mod(v) = v
  BY <1>4, ModResidue
<1>6. (\E bits \in Words : secret = Mod(LinearCombination(bits)[BitLength]))
      <=> secret \in 0..power - 1
  BY <1>2, <1>3, <1>5
<1> QED BY <1>6 DEF Words, power

\* What LessEqThan(n) says of two field elements: the first is at most the second,
\* with a difference of n bits, or it wraps around the modulus to be so.
LEMMA WhatLessEqThanSays ==
  ASSUME NEW a \in ResiduesOfField, NEW b \in ResiduesOfField
  PROVE  LessEqThan(a, b) <=>
           \/ a <= b /\ b - a <= PowerOfTwo[BitLength] - 1
           \/ a - b >= Modulus - (PowerOfTwo[BitLength] - 1)
<1> DEFINE power == PowerOfTwo[BitLength]
           x == a + power - (b + 1)
<1>1. power \in Nat \ {0} /\ Modulus \in Nat /\ 2 * power < Modulus
  BY FieldIsLarge
<1>2. a \in Int /\ 0 <= a /\ a < Modulus /\ b \in Int /\ 0 <= b /\ b < Modulus
  BY <1>1 DEF ResiduesOfField
<1> HIDE DEF power
<1>3. x \in Int /\ -Modulus < x /\ x < 2 * Modulus
  BY <1>1, <1>2
<1>4. LessEqThan(a, b) <=> x % Modulus < power
  BY <1>3, ModIsRemainder DEF LessEqThan, power, x
<1> HIDE DEF x
<1>5. CASE x < 0
  <2>1. x % Modulus = x + Modulus
    <3>1. x + Modulus \in 0..(Modulus - 1)
      BY <1>1, <1>3, <1>5
    <3>2. (x + Modulus) % Modulus = x + Modulus
      BY <1>1, <3>1
    <3>3. (x + Modulus) % Modulus = x % Modulus
      BY <1>1, <1>3
    <3> QED BY <3>2, <3>3
  <2>2. ~(x % Modulus < power)
    BY <1>1, <1>2, <1>5, <2>1 DEF x
  <2>3. ~(a <= b /\ b - a <= power - 1) /\ ~(a - b >= Modulus - (power - 1))
    BY <1>1, <1>2, <1>5 DEF x
  <2>4. ~LessEqThan(a, b)
    BY <1>4, <2>2
  <2> QED BY <2>3, <2>4 DEF power
<1>6. CASE 0 <= x /\ x < Modulus
  <2>1. x % Modulus = x
    BY <1>1, <1>3, <1>6
  <2>2. x < power <=> a <= b
    BY <1>1, <1>2 DEF x
  <2>3. b - a <= power - 1 /\ ~(a - b >= Modulus - (power - 1))
    BY <1>1, <1>2, <1>6 DEF x
  <2>4. LessEqThan(a, b) <=> a <= b
    BY <1>4, <2>1, <2>2
  <2> QED BY <2>3, <2>4 DEF power
<1>7. CASE Modulus <= x
  <2>1. x % Modulus = x - Modulus
    <3>1. x - Modulus \in 0..(Modulus - 1)
      BY <1>1, <1>3, <1>7
    <3>2. (x - Modulus) % Modulus = x - Modulus
      BY <1>1, <3>1
    <3>3. (x - Modulus) % Modulus = x % Modulus
      BY <1>1, <1>3
    <3> QED BY <3>2, <3>3
  <2>2. x - Modulus < power
    BY <1>1, <1>2, <1>7 DEF x
  <2>3. a - b >= Modulus - (power - 1)
    BY <1>1, <1>2, <1>7 DEF x
  <2>4. LessEqThan(a, b)
    BY <1>4, <2>1, <2>2
  <2> QED BY <2>3, <2>4 DEF power
<1> QED BY <1>1, <1>3, <1>5, <1>6, <1>7

\* range_proof: the bits and both comparators.
LEMMA RangeIsProved ==
  ASSUME NEW secret \in 0..Modulus - 1, NEW min \in Bounds, NEW max \in Bounds
  PROVE  LET in == [secret |-> secret, min |-> min, max |-> max,
                    commitment |-> PoseidonCommit(Field(secret))]
         IN  RangeStatement(in, RangeCircuit(in))
<1> DEFINE in == [secret |-> secret, min |-> min, max |-> max,
                  commitment |-> PoseidonCommit(Field(secret))]
           power == PowerOfTwo[BitLength]
           bits == 0..power - 1
           Within(low, high) == low <= high /\ high - low <= power - 1
           Wraps(low, high) == low - high >= Modulus - (power - 1)
<1>1. /\ secret \in ResiduesOfField /\ min \in ResiduesOfField /\ max \in ResiduesOfField
      /\ power \in Nat \ {0} /\ Modulus \in Nat /\ 2 * power < Modulus
  BY WiresAreResidues, FieldIsLarge DEF ResiduesOfField
<1>2. in.secret = secret /\ in.min = min /\ in.max = max /\ in.commitment = Digest(<<Field(secret)>>)
  BY DEF PoseidonCommit
<1>3. /\ LessEqThan(min, secret) <=> Within(min, secret) \/ Wraps(min, secret)
      /\ LessEqThan(secret, max) <=> Within(secret, max) \/ Wraps(secret, max)
  BY <1>1, WhatLessEqThanSays
<1> HIDE DEF in
<1>4. RangeCircuit(in) <=>
        /\ secret \in bits
        /\ Within(min, secret) \/ Wraps(min, secret)
        /\ Within(secret, max) \/ Wraps(secret, max)
  BY <1>1, <1>2, <1>3, SecretHasBits DEF RangeCircuit
<1> HIDE DEF power
<1>5. secret \in Nat /\ min \in Nat /\ max \in Nat /\ min < Modulus /\ max < Modulus
  BY <1>1 DEF ResiduesOfField
<1>6. ASSUME min \in bits, max \in bits
      PROVE  RangeCircuit(in) <=> min <= secret /\ secret <= max
  BY <1>1, <1>4, <1>5, <1>6
<1>7. ASSUME RangeCircuit(in)
      PROVE  /\ secret \in bits /\ secret <= max
             /\ min <= secret \/ min - Modulus \in {-b : b \in bits}
  <2>1. secret \in bits /\ secret <= max
    BY <1>1, <1>4, <1>5, <1>7
  <2>2. ASSUME ~(min <= secret) PROVE min - Modulus \in {-b : b \in bits}
    <3>1. Modulus - min \in bits
      BY <1>1, <1>4, <1>5, <1>7, <2>2
    <3>2. min - Modulus = -(Modulus - min)
      BY <1>1, <1>5
    <3> HIDE DEF bits
    <3> QED BY <3>1, <3>2
  <2> QED BY <2>1, <2>2
<1>8. RangeStatement(in, RangeCircuit(in))
  BY <1>2, <1>6, <1>7 DEF RangeStatement, power
<1> QED BY <1>8 DEF in

\* threshold_2of3: two weights are 1, and the keys behind them are the members' own.
LEMMA ThresholdIsProved ==
  ASSUME HashIsFree, NEW keys \in [1..3 -> 0..3], NEW active \in [1..3 -> ActiveValues],
         ThresholdCircuit([keys |-> [i \in 1..3 |-> Field(keys[i])], active |-> active,
                           commitments |-> [i \in 1..3 |-> PoseidonCommit(Field(i))]])
  PROVE  KnowsTwo([keys |-> [i \in 1..3 |-> Field(keys[i])], active |-> active,
                   commitments |-> [i \in 1..3 |-> PoseidonCommit(Field(i))]])
<1> DEFINE in == [keys |-> [i \in 1..3 |-> Field(keys[i])], active |-> active,
                  commitments |-> [i \in 1..3 |-> PoseidonCommit(Field(i))]]
<1>1. /\ in.active = active
      /\ \A i \in 1..3 : in.keys[i] = Field(keys[i])
      /\ \A i \in 1..3 : in.commitments[i] = PoseidonCommit(Field(i))
  OBVIOUS
<1>2. /\ \A i \in 1..3 : Mod(in.active[i] * (in.active[i] - 1)) = 0
      /\ Mod(in.active[1] + in.active[2] + in.active[3]) >= 2
      /\ \A i \in 1..3 : in.active[i] = 0 \/ Digest(<<in.keys[i]>>) = in.commitments[i]
  BY DEF ThresholdCircuit
<1> HIDE DEF in
<1>3. \A i \in 1..3 : active[i] \in {0, 1}
  <2> TAKE i \in 1..3
  <2> DEFINE a == active[i]
  <2>1. a \in 0..Modulus - 1 /\ Mod(a * (a - 1)) = 0
    BY <1>1, <1>2, WiresAssumption
  <2> HIDE DEF a
  <2>2. ASSUME a \notin {0, 1} PROVE FALSE
    <3>1. a \in 1..Modulus - 1 /\ a - 1 \in 1..Modulus - 1
      BY <2>1, <2>2, FieldIsLarge
    <3>2. \A x, y \in 1..Modulus - 1 : (x * y) % Modulus # 0
      BY PrimeAssumption
    <3>3. (a * (a - 1)) % Modulus # 0
      BY <3>1, <3>2, Zenon
    <3>4. a * (a - 1) \in Int
      BY <2>1, FieldIsLarge
    <3> QED BY <2>1, <3>3, <3>4, ModIsRemainder
  <2>3. a \in {0, 1}
    BY <2>2
  <2> QED BY <2>3 DEF a
<1>4. active[1] + active[2] + active[3] >= 2
  <2> DEFINE sum == active[1] + active[2] + active[3]
  <2>1. sum \in 0..3
    BY <1>3
  <2>2. sum \in ResiduesOfField
    BY <2>1, FieldIsLarge DEF ResiduesOfField
  <2>3. Mod(sum) >= 2
    BY <1>1, <1>2
  <2> HIDE DEF sum
  <2>4. Mod(sum) = sum
    BY <2>2, ModResidue
  <2>5. sum >= 2
    BY <2>3, <2>4
  <2> QED BY <2>5 DEF sum
<1>5. \E i, j \in 1..3 : i # j /\ active[i] = 1 /\ active[j] = 1
  BY <1>3, <1>4
<1>6. \A i \in 1..3 : active[i] = 1 => in.keys[i] = Field(i)
  <2> SUFFICES ASSUME NEW i \in 1..3, active[i] = 1 PROVE Field(keys[i]) = Field(i)
    BY <1>1
  <2>1. Digest(<<Field(keys[i])>>) = Digest(<<Field(i)>>)
    BY <1>1, <1>2 DEF PoseidonCommit
  <2> DEFINE x == Field(keys[i])
             y == Field(i)
  <2>2. x[1] = "field" /\ x[2] = keys[i] /\ y[1] = "field" /\ y[2] = i
    BY DEF Field
  <2> HIDE DEF x, y
  <2>3. Residue(x) = Residue(y)
    BY <2>1, SingleDigest DEF x, y
  <2>4. Field(Mod(keys[i])) = Field(Mod(i))
    BY <2>2, <2>3 DEF Residue
  <2>5. Mod(keys[i]) = keys[i] /\ Mod(i) = i
    <3>1. keys[i] \in ResiduesOfField /\ i \in ResiduesOfField
      BY FieldIsLarge DEF ResiduesOfField
    <3> QED BY <3>1, ModResidue
  <2> QED BY <2>4, <2>5
<1>7. \E i, j \in 1..3 : i # j /\ in.keys[i] = Field(i) /\ in.keys[j] = Field(j)
  BY <1>5, <1>6
<1>8. KnowsTwo(in)
  BY <1>7 DEF KnowsTwo
<1> QED BY <1>8 DEF in

\* An offer that proves its statement keeps the property.
LEMMA StatementsOfAnOffer ==
  ASSUME NEW circuit, NEW in, NEW accepted, Offers(circuit, in, accepted),
         circuit = "range_proof" => RangeStatement(in, accepted),
         circuit = "threshold_2of3" /\ accepted => KnowsTwo(in),
         circuit = "poseidon_preimage" =>
           (accepted <=> in.commitment = PoseidonCommit(in.secret))
  PROVE  CircuitsProveTheirStatements'
<1>1. attempt'.circuit = circuit /\ attempt'.in = in /\ attempt'.accepted = accepted
  BY OfferFields
<1>2. RangeStatement(attempt.in, attempt.accepted)' = RangeStatement(in, accepted)
  BY <1>1 DEF RangeStatement
<1>3. KnowsTwo(attempt.in)' = KnowsTwo(in)
  BY <1>1 DEF KnowsTwo
<1>4. PoseidonCommit(attempt.in.secret)' = PoseidonCommit(in.secret)
  BY <1>1
<1> QED BY <1>1, <1>2, <1>3, <1>4 DEF CircuitsProveTheirStatements, Accepted

LEMMA StatementsInductive ==
  ASSUME HashIsFree
  PROVE  /\ CommitmentInit => CircuitsProveTheirStatements
         /\ CircuitsProveTheirStatements
              /\ [IdentityNext \/ CircuitNext \/ DigestNext]_commitmentVars
              => CircuitsProveTheirStatements'
<1>1. CommitmentInit => CircuitsProveTheirStatements
  BY DEF CommitmentInit, CircuitsProveTheirStatements, Accepted
<1>2. ASSUME CircuitsProveTheirStatements, UNCHANGED attempt
      PROVE  CircuitsProveTheirStatements'
  BY <1>2 DEF CircuitsProveTheirStatements, Accepted, RangeStatement, KnowsTwo
<1>3. ASSUME NEW secret, NEW other, ProveIdentity(secret, other)
      PROVE  CircuitsProveTheirStatements'
  BY <1>3, StatementsOfAnOffer DEF ProveIdentity
<1>4. ASSUME NEW secret, NEW other, ProvePreimage(secret, other)
      PROVE  CircuitsProveTheirStatements'
  <2> DEFINE in == [secret |-> secret, commitment |-> PoseidonCommit(other)]
  <2>1. Offers("poseidon_preimage", in, PreimageCircuit(in))
    BY <1>4 DEF ProvePreimage
  <2>2. PreimageCircuit(in) <=> in.commitment = PoseidonCommit(in.secret)
    BY DEF PreimageCircuit, PoseidonCommit
  <2> HIDE DEF in
  <2> QED BY <2>1, <2>2, StatementsOfAnOffer
<1>5. ASSUME NEW secret \in 0..Modulus - 1, NEW min \in Bounds, NEW max \in Bounds,
             ProveRange(secret, min, max)
      PROVE  CircuitsProveTheirStatements'
  <2> DEFINE in == [secret |-> secret, min |-> min, max |-> max,
                    commitment |-> PoseidonCommit(Field(secret))]
  <2>1. Offers("range_proof", in, RangeCircuit(in))
    BY <1>5 DEF ProveRange
  <2>2. RangeStatement(in, RangeCircuit(in))
    BY RangeIsProved
  <2> HIDE DEF in
  <2> QED BY <2>1, <2>2, StatementsOfAnOffer
<1>6. ASSUME NEW keys \in [1..3 -> 0..3], NEW active \in [1..3 -> ActiveValues],
             ProveThreshold(keys, active)
      PROVE  CircuitsProveTheirStatements'
  <2> DEFINE in == [keys |-> [i \in 1..3 |-> Field(keys[i])], active |-> active,
                    commitments |-> [i \in 1..3 |-> PoseidonCommit(Field(i))]]
  <2>1. Offers("threshold_2of3", in, ThresholdCircuit(in))
    BY <1>6 DEF ProveThreshold
  <2>2. ThresholdCircuit(in) => KnowsTwo(in)
    BY ThresholdIsProved
  <2> HIDE DEF in
  <2> QED BY <2>1, <2>2, StatementsOfAnOffer
<1>7. CircuitsProveTheirStatements
        /\ [IdentityNext \/ CircuitNext \/ DigestNext]_commitmentVars
        => CircuitsProveTheirStatements'
  BY <1>2, <1>3, <1>4, <1>5, <1>6
     DEF IdentityNext, CircuitNext, DigestNext, RegisterIdentity, BatchCall, DomainCall,
         Hashes, commitmentVars
<1> QED BY <1>1, <1>7

\* Whatever witnesses are offered, in every prime field that has room for the
\* comparators, the range, threshold and preimage circuits accept what their names
\* say (range_proof, threshold_2of3 and poseidon_preimage/circuit.circom).
THEOREM CircuitsProveTheirStatementsAlways ==
  ASSUME HashIsFree
  PROVE  CommitmentSpec => []CircuitsProveTheirStatements
<1> QED BY StatementsInductive, PTL DEF CommitmentSpec

-----------------------------------------------------------------------------
(* The lists of poseidonBatch. *)

\* The number of pieces of n elements.
Pieces(n) == (n + MaxArity - 1) \div MaxArity

\* A list that does not fit in one call has fewer pieces than elements, and every
\* element is in one of them.
LEMMA PiecesBounds ==
  ASSUME NEW n \in Nat
  PROVE  /\ Pieces(n) \in Nat
         /\ n > MaxArity => Pieces(n) <= n - 1
         /\ \A q \in Nat : q * MaxArity < n => q + 1 <= Pieces(n)
<1> DEFINE A == MaxArity
           p == (n + A - 1) \div A
<1>1. A \in Nat /\ A >= 2
  BY ArityAssumption
<1> HIDE DEF A
<1>2. p \in Nat /\ A * p <= n + A - 1 /\ n + A - 1 < A * (p + 1)
  <2> DEFINE m == n + A - 1
  <2>1. m \in Nat
    BY <1>1
  <2> HIDE DEF m
  <2>2. m \div A \in Nat /\ m = (A * (m \div A)) + (m % A) /\ m % A \in 0..(A - 1)
    BY <1>1, <2>1
  <2>3. A * ((m \div A) + 1) = (A * (m \div A)) + A
    BY <1>1, <2>2
  <2>4. m \div A \in Nat /\ A * (m \div A) <= m /\ m < A * ((m \div A) + 1)
    BY <1>1, <2>1, <2>2, <2>3
  <2> QED BY <2>4 DEF m
<1> HIDE DEF p
<1>3. ASSUME n > A PROVE p <= n - 1
  <2> SUFFICES ASSUME p >= n PROVE FALSE
    BY <1>2
  <2>1. A * p >= A * n
    BY <1>1, <1>2
  <2>2. A * n >= n + A
    <3>1. A * n = (A - 1) * (n - 1) + n + A - 1
      BY <1>1
    <3>2. (A - 1) * (n - 1) >= 1
      BY <1>1, <1>3
    <3> QED BY <1>1, <3>1, <3>2
  <2> QED BY <1>1, <1>2, <2>1, <2>2
<1>4. ASSUME NEW q \in Nat, q * A < n PROVE q + 1 <= p
  <2> SUFFICES ASSUME p <= q PROVE FALSE
    BY <1>2
  <2>1. A * (p + 1) <= A * (q + 1) /\ A * (q + 1) = q * A + A
    BY <1>1, <1>2
  <2> QED BY <1>1, <1>2, <1>4, <2>1
<1>5. Pieces(n) = p
  BY DEF Pieces, p, A
<1> QED BY <1>2, <1>3, <1>4, <1>5 DEF A

LEMMA ChunksAreLists ==
  ASSUME NEW list, IsList(list)
  PROVE  /\ IsList(Chunks(list)) /\ Len(Chunks(list)) = Pieces(Len(list))
         /\ \A n \in 1..Pieces(Len(list)) : Chunks(list)[n] = Digest(Chunk(list, n))
<1> DEFINE p == Pieces(Len(list))
           f == Chunks(list)
<1>1. p \in Nat
  BY PiecesBounds DEF IsList
<1>2. f = [n \in 1..p |-> Digest(Chunk(list, n))]
  BY DEF Chunks, Pieces
<1> HIDE DEF f, p
<1>3. \A n \in 1..p : f[n] = Digest(Chunk(list, n))
  BY <1>2
<1>4. f = [n \in 1..p |-> f[n]]
  BY <1>2
<1>5. IsList(f) /\ Len(f) = p
  BY <1>1, <1>4, FunctionsAreLists
<1> QED BY <1>3, <1>5 DEF f, p

\* Lists of one length whose pieces have the same digests are of the same elements.
LEMMA PiecesBind ==
  ASSUME HashIsFree, NEW a, NEW b, IsList(a), IsList(b), Len(a) = Len(b),
         \A n \in 1..Pieces(Len(a)) : SameElement(Chunks(a)[n], Chunks(b)[n])
  PROVE  \A i \in 1..Len(a) : SameElement(a[i], b[i])
<1> TAKE i \in 1..Len(a)
<1> DEFINE A == MaxArity
           q == (i - 1) \div A
           k == ((i - 1) % A) + 1
           m == Len(a)
<1>1. A \in Nat /\ A >= 2 /\ m \in Nat /\ i \in 1..m
  BY ArityAssumption DEF IsList
<1>2. q \in Nat /\ k \in 1..A /\ i = (q * A) + k
  <2> HIDE DEF A
  <2>1. i - 1 \in Nat
    BY <1>1
  <2>2. (i - 1) \div A \in Nat /\ (i - 1) % A \in 0..(A - 1)
        /\ i - 1 = (A * ((i - 1) \div A)) + ((i - 1) % A)
    BY <1>1, <2>1
  <2> QED BY <1>1, <2>2
<1> HIDE DEF q, k
<1>3. q + 1 \in 1..Pieces(m)
  <2>1. q * A < m
    <3>1. q * A \in Nat
      BY <1>1, <1>2
    <3> QED BY <1>1, <1>2, <3>1
  <2>2. Pieces(m) \in Nat /\ q + 1 <= Pieces(m)
    BY <1>1, <1>2, <2>1, PiecesBounds
  <2> QED BY <1>2, <2>2
<1>4. Digest(Chunk(a, q + 1)) = Digest(Chunk(b, q + 1))
  <2>1. Chunks(a)[q + 1] = Digest(Chunk(a, q + 1)) /\ Chunks(b)[q + 1] = Digest(Chunk(b, q + 1))
    BY <1>3, ChunksAreLists
  <2>2. SameElement(Chunks(a)[q + 1], Chunks(b)[q + 1])
    BY <1>3
  <2>3. /\ Residue(Digest(Chunk(a, q + 1))) = Digest(Chunk(a, q + 1))
        /\ Residue(Digest(Chunk(b, q + 1))) = Digest(Chunk(b, q + 1))
    BY ResidueOfDigest
  <2> QED BY <2>1, <2>2, <2>3, Zenon DEF SameElement
<1>5. \A j \in DOMAIN Chunk(a, q + 1) : Residue(Chunk(a, q + 1)[j]) = Residue(Chunk(b, q + 1)[j])
  <2> DEFINE x == Chunk(a, q + 1)
             y == Chunk(b, q + 1)
  <2> HIDE DEF x, y
  <2>1. \A j \in DOMAIN x : Residue(x[j]) = Residue(y[j])
    BY <1>4, DigestBinds DEF x, y
  <2> QED BY <2>1 DEF x, y
<1>6. /\ k \in DOMAIN Chunk(a, q + 1)
      /\ Chunk(a, q + 1)[k] = a[i] /\ Chunk(b, q + 1)[k] = b[i]
  <2> DEFINE size == IF (q + 1) * A <= m THEN A ELSE m - ((q + 1) - 1) * A
  <2>1. k \in 1..size
    <3>1. (q + 1) - 1 = q /\ q * A \in Nat
      BY <1>1, <1>2
    <3> QED BY <1>1, <1>2, <3>1
  <2>2. ((q + 1) - 1) * A + k = i
    <3>1. (q + 1) - 1 = q
      BY <1>2
    <3> QED BY <1>1, <1>2, <3>1
  <2>3. /\ Chunk(a, q + 1) = [j \in 1..size |-> a[((q + 1) - 1) * A + j]]
        /\ Chunk(b, q + 1) = [j \in 1..size |-> b[((q + 1) - 1) * A + j]]
    BY DEF Chunk
  <2> HIDE DEF size, A, m
  <2> QED BY <2>1, <2>2, <2>3
<1>7. Residue(a[i]) = Residue(b[i])
  BY <1>5, <1>6, Zenon
<1> QED BY <1>7 DEF SameElement

\* Each list of poseidonBatch is made of the digests of the one before.
LEMMA DigestLevelsDef ==
  ASSUME NEW list, NEW last \in Nat, Len(list) = last
  PROVE  \A k \in 0..last :
           DigestLevels(list)[k] = IF k = 0 THEN list ELSE Chunks(DigestLevels(list)[k - 1])
<1> DEFINE Turn(before, k) == Chunks(before)
           Solves(f, n) == f = [k \in 0..n |-> IF k = 0 THEN list ELSE Turn(f[k - 1], k)]
           T == {n \in Nat : \E f : Solves(f, n)}
<1>1. DigestLevels(list) = CHOOSE f : Solves(f, last)
  BY DEF DigestLevels
<1> HIDE DEF Turn
<1>2. 0 \in T
  <2> DEFINE f == [k \in 0..0 |-> list]
  <2>1. Solves(f, 0)
    OBVIOUS
  <2> QED BY <2>1
<1>3. ASSUME NEW n \in Nat, NEW f, Solves(f, n) PROVE \E g : Solves(g, n + 1)
  <2> DEFINE g == [k \in 0..(n + 1) |-> IF k \in 0..n THEN f[k] ELSE Turn(f[n], n + 1)]
  <2>1. \A k \in 0..(n + 1) : g[k] = IF k = 0 THEN list ELSE Turn(g[k - 1], k)
    <3> TAKE k \in 0..(n + 1)
    <3>1. CASE k = 0
      BY <1>3, <3>1
    <3>2. CASE k \in 1..n
      <4>1. k - 1 \in 0..n /\ k - 1 \in 0..(n + 1) /\ k \in 0..n
        BY <3>2
      <4>2. g[k] = f[k] /\ g[k - 1] = f[k - 1]
        BY <4>1
      <4> QED BY <1>3, <3>2, <4>1, <4>2
    <3>3. CASE k = n + 1
      <4>1. k - 1 \in 0..(n + 1) /\ ~(k \in 0..n) /\ k # 0 /\ k - 1 = n
        BY <3>3
      <4>2. g[k] = Turn(f[n], n + 1) /\ g[k - 1] = f[n]
        BY <4>1
      <4> QED BY <3>3, <4>1, <4>2
    <3> QED BY <3>1, <3>2, <3>3
  <2>2. Solves(g, n + 1)
    BY <2>1
  <2> QED BY <2>2
<1>4. \E f : Solves(f, last)
  <2> HIDE DEF Solves
  <2>1. \A n \in Nat : n \in T <=> \E f : Solves(f, n)
    OBVIOUS
  <2>2. \A n \in Nat : n \in T => n + 1 \in T
    BY <1>3, <2>1
  <2> HIDE DEF T
  <2>3. last \in T
    <3>1. \A k \in 0..last : k \in T /\ k < last => k + 1 \in T
      BY <2>2
    <3>2. \A k \in 0..last : k \in T
      BY <1>2, <3>1, InductionUpTo
    <3> QED BY <3>2
  <2> QED BY <2>1, <2>3
<1>5. Solves(DigestLevels(list), last)
  <2> HIDE DEF Solves
  <2> QED BY <1>1, <1>4, Zenon
<1> QED BY <1>5 DEF Turn

\* The recursion of one list.
LEMMA LevelSteps ==
  ASSUME NEW list, IsList(list)
  PROVE  /\ 0 \in 0..Len(list) /\ DigestLevels(list)[0] = list
         /\ \A d \in 0..Len(list) : d < Len(list) =>
              d + 1 \in 0..Len(list) /\ DigestLevels(list)[d + 1] = Chunks(DigestLevels(list)[d])
<1> DEFINE last == Len(list)
           L == DigestLevels(list)
<1>1. last \in Nat
  BY DEF IsList
<1>2. \A d \in 0..last : L[d] = IF d = 0 THEN list ELSE Chunks(L[d - 1])
  BY <1>1, DigestLevelsDef
<1> HIDE DEF last, L
<1>3. 0 \in 0..last /\ L[0] = list
  BY <1>1, <1>2
<1>4. ASSUME NEW d \in 0..last, d < last
      PROVE  d + 1 \in 0..last /\ L[d + 1] = Chunks(L[d])
  <2>1. d + 1 \in 0..last /\ d + 1 # 0 /\ (d + 1) - 1 = d
    BY <1>1, <1>4
  <2> QED BY <1>2, <2>1
<1> QED BY <1>3, <1>4 DEF last, L

LEMMA LevelsAreLists ==
  ASSUME NEW list, IsList(list)
  PROVE  \A d \in 0..Len(list) : IsList(DigestLevels(list)[d])
<1> DEFINE last == Len(list)
           T == {d \in 0..last : IsList(DigestLevels(list)[d])}
<1>1. last \in Nat
  BY DEF IsList
<1>2. 0 \in T
  BY LevelSteps
<1>3. \A d \in 0..last : d \in T /\ d < last => d + 1 \in T
  BY LevelSteps, ChunksAreLists
<1>4. \A d \in 0..last : d \in T
  <2> HIDE DEF T, last
  <2> QED BY <1>1, <1>2, <1>3, InductionUpTo
<1> QED BY <1>4

\* How long the lists become depends on the length of the first only.
LEMMA LengthsAgree ==
  ASSUME NEW a, NEW b, IsList(a), IsList(b), Len(a) = Len(b)
  PROVE  \A d \in 0..Len(a) : Len(DigestLevels(a)[d]) = Len(DigestLevels(b)[d])
<1> DEFINE last == Len(a)
           T == {d \in 0..last : Len(DigestLevels(a)[d]) = Len(DigestLevels(b)[d])}
<1>1. last \in Nat
  BY DEF IsList
<1>2. 0 \in T
  BY LevelSteps
<1>3. \A d \in 0..last : d \in T /\ d < last => d + 1 \in T
  <2> SUFFICES ASSUME NEW d \in 0..last, d < last,
                      Len(DigestLevels(a)[d]) = Len(DigestLevels(b)[d])
               PROVE  /\ d + 1 \in 0..last
                      /\ Len(DigestLevels(a)[d + 1]) = Len(DigestLevels(b)[d + 1])
    OBVIOUS
  <2>1. d + 1 \in 0..last /\ DigestLevels(a)[d + 1] = Chunks(DigestLevels(a)[d])
    BY LevelSteps
  <2>2. DigestLevels(b)[d + 1] = Chunks(DigestLevels(b)[d])
    BY LevelSteps
  <2>3. IsList(DigestLevels(a)[d]) /\ IsList(DigestLevels(b)[d])
    BY LevelsAreLists
  <2>4. /\ Len(Chunks(DigestLevels(a)[d])) = Pieces(Len(DigestLevels(a)[d]))
        /\ Len(Chunks(DigestLevels(b)[d])) = Pieces(Len(DigestLevels(b)[d]))
    BY <2>3, ChunksAreLists
  <2> QED BY <2>1, <2>2, <2>4
<1>4. \A d \in 0..last : d \in T
  <2> HIDE DEF T, last
  <2> QED BY <1>1, <1>2, <1>3, InductionUpTo
<1> QED BY <1>4

\* Every list becomes short enough for one call.
LEMMA SomeLevelFits ==
  ASSUME NEW list, IsList(list)
  PROVE  \E d \in 0..Len(list) : Fits(list, d)
<1> DEFINE last == Len(list)
           Size(d) == Len(DigestLevels(list)[d])
           T == {d \in 0..last : Size(d) <= last - d}
<1>1. last \in Nat /\ MaxArity \in Nat /\ MaxArity >= 2
  BY ArityAssumption DEF IsList
<1>2. \A d \in 0..last : Size(d) \in Nat
  BY LevelsAreLists DEF IsList
<1>3. \A d \in 0..last : Fits(list, d) <=> Size(d) <= MaxArity
  BY DEF Fits
<1> SUFFICES ASSUME \A d \in 0..last : Size(d) > MaxArity PROVE FALSE
  BY <1>1, <1>2, <1>3
<1>4. 0 \in T
  <2>1. Size(0) = last /\ 0 \in 0..last
    BY LevelSteps
  <2> HIDE DEF Size, last
  <2> QED BY <1>1, <2>1
<1>5. \A d \in 0..last : d \in T /\ d < last => d + 1 \in T
  <2> SUFFICES ASSUME NEW d \in 0..last, d < last, Size(d) <= last - d
               PROVE  d + 1 \in 0..last /\ Size(d + 1) <= last - (d + 1)
    OBVIOUS
  <2>1. d + 1 \in 0..last /\ DigestLevels(list)[d + 1] = Chunks(DigestLevels(list)[d])
    BY LevelSteps
  <2>2. Size(d + 1) = Pieces(Size(d))
    BY <2>1, LevelsAreLists, ChunksAreLists
  <2>3. Size(d) \in Nat /\ Size(d) > MaxArity
    BY <1>2
  <2> HIDE DEF Size, last
  <2>4. Pieces(Size(d)) \in Nat /\ Pieces(Size(d)) <= Size(d) - 1
    BY <2>3, PiecesBounds
  <2> QED BY <1>1, <2>1, <2>2, <2>3, <2>4
<1>6. \A d \in 0..last : d \in T
  <2> HIDE DEF T, last
  <2> QED BY <1>1, <1>4, <1>5, InductionUpTo
<1>7. Size(last) <= 0 /\ Size(last) > MaxArity
  <2>1. last \in 0..last
    BY <1>1
  <2>2. last \in T
    BY <1>6, <2>1
  <2> HIDE DEF last, Size
  <2> QED BY <1>1, <2>1, <2>2
<1> HIDE DEF Size, last
<1>8. last \in 0..last
  BY <1>1
<1> QED BY <1>1, <1>2, <1>7, <1>8

\* The last level is the first that fits.
LEMMA LastLevelFits ==
  ASSUME NEW list, IsList(list)
  PROVE  /\ LastLevel(list) \in 0..Len(list)
         /\ Fits(list, LastLevel(list))
         /\ \A e \in 0..LastLevel(list) - 1 : ~Fits(list, e)
<1> DEFINE last == Len(list)
           F == {d \in 0..last : Fits(list, d)}
<1>1. last \in Nat /\ F # {} /\ F \subseteq Nat
  BY SomeLevelFits DEF IsList
<1>2. PICK m \in F : \A k \in F : m <= k
  <2> HIDE DEF F
  <2> QED BY <1>1, LeastElement
<1>3. m \in 0..last /\ Fits(list, m) /\ \A e \in 0..m - 1 : ~Fits(list, e)
  <2>1. m \in 0..last /\ Fits(list, m)
    OBVIOUS
  <2> HIDE DEF last
  <2>2. ASSUME NEW e \in 0..m - 1 PROVE ~Fits(list, e)
    <3>1. e \in 0..last /\ ~(m <= e)
      BY <1>1, <2>1
    <3> QED BY <1>2, <3>1
  <2> QED BY <2>1, <2>2
<1>4. \E d \in 0..last : Fits(list, d) /\ \A e \in 0..d - 1 : ~Fits(list, e)
  BY <1>3
<1> HIDE DEF last
<1>5. LastLevel(list) = CHOOSE d \in 0..last : Fits(list, d) /\ \A e \in 0..d - 1 : ~Fits(list, e)
  BY DEF LastLevel, last
<1>6. /\ LastLevel(list) \in 0..last /\ Fits(list, LastLevel(list))
      /\ \A e \in 0..LastLevel(list) - 1 : ~Fits(list, e)
  BY <1>4, <1>5
<1> QED BY <1>6 DEF last

\* Lists of one length are cut as often.
LEMMA LastLevelsAgree ==
  ASSUME NEW a, NEW b, IsList(a), IsList(b), Len(a) = Len(b)
  PROVE  LastLevel(a) = LastLevel(b)
<1> DEFINE p == LastLevel(a)
           q == LastLevel(b)
           last == Len(a)
<1>1. /\ p \in 0..last /\ Fits(a, p) /\ \A e \in 0..p - 1 : ~Fits(a, e)
      /\ q \in 0..last /\ Fits(b, q) /\ \A e \in 0..q - 1 : ~Fits(b, e)
  BY LastLevelFits
<1>2. \A d \in 0..last : Fits(a, d) <=> Fits(b, d)
  BY LengthsAgree DEF Fits
<1>3. last \in Nat
  BY DEF IsList
<1> HIDE DEF p, q, last
<1>4. ~(p < q) /\ ~(q < p)
  BY <1>1, <1>2, <1>3
<1>5. p = q
  BY <1>1, <1>3, <1>4
<1> QED BY <1>5 DEF p, q

\* poseidonBatch binds the elements of lists of one length.
LEMMA BatchBinds ==
  ASSUME HashIsFree, NEW a, NEW b, IsList(a), IsList(b), Len(a) = Len(b),
         PoseidonBatch(a) = PoseidonBatch(b)
  PROVE  \A i \in 1..Len(a) : SameElement(a[i], b[i])
<1> DEFINE n == LastLevel(a)
           last == Len(a)
           x(d) == DigestLevels(a)[d]
           y(d) == DigestLevels(b)[d]
           Same(d) == \A i \in 1..Len(x(d)) : SameElement(x(d)[i], y(d)[i])
           T == {d \in 0..n : Same(d)}
<1>1. n \in 0..last /\ LastLevel(b) = n /\ last \in Nat
  BY LastLevelFits, LastLevelsAgree DEF IsList
<1>2. \A d \in 0..last : IsList(x(d)) /\ IsList(y(d)) /\ Len(x(d)) = Len(y(d))
  BY LevelsAreLists, LengthsAgree
<1>3. n \in T
  <2>1. Digest(x(n)) = Digest(y(n))
    BY <1>1 DEF PoseidonBatch
  <2>2. DOMAIN x(n) = 1..Len(x(n))
    BY <1>1, <1>2 DEF IsList
  <2> HIDE DEF n, x, y
  <2>3. \A i \in DOMAIN x(n) : Residue(x(n)[i]) = Residue(y(n)[i])
    BY <2>1, DigestBinds
  <2>4. Same(n)
    BY <2>2, <2>3 DEF SameElement
  <2> HIDE DEF Same
  <2> QED BY <1>1, <2>4
<1>4. \A d \in 0..n : d + 1 \in T /\ d < n => d \in T
  <2> SUFFICES ASSUME NEW d \in 0..n, d < n, Same(d + 1) PROVE Same(d)
    OBVIOUS
  <2>1. d \in 0..last /\ d < last
    BY <1>1
  <2>2. x(d + 1) = Chunks(x(d)) /\ y(d + 1) = Chunks(y(d))
    <3>1. x(d + 1) = Chunks(x(d))
      BY <2>1, LevelSteps
    <3>2. y(d + 1) = Chunks(y(d))
      BY <2>1, LevelSteps
    <3> QED BY <3>1, <3>2
  <2>3. IsList(x(d)) /\ IsList(y(d)) /\ Len(x(d)) = Len(y(d))
    BY <1>2, <2>1
  <2> DEFINE u == x(d)
             v == y(d)
  <2>4. \A i \in 1..Len(x(d + 1)) : SameElement(x(d + 1)[i], y(d + 1)[i])
    OBVIOUS
  <2> HIDE DEF x, y, n
  <2>5. Len(Chunks(u)) = Pieces(Len(u))
    BY <2>3, ChunksAreLists
  <2>6. \A i \in 1..Pieces(Len(u)) : SameElement(Chunks(u)[i], Chunks(v)[i])
    BY <2>2, <2>4, <2>5
  <2>7. IsList(u) /\ IsList(v) /\ Len(u) = Len(v)
    BY <2>3
  <2> HIDE DEF u, v
  <2>8. \A i \in 1..Len(u) : SameElement(u[i], v[i])
    BY <2>6, <2>7, PiecesBind
  <2> QED BY <2>8 DEF u, v
<1>5. \A d \in 0..n : d \in T
  <2>1. n \in Nat
    BY <1>1
  <2> HIDE DEF T, n
  <2> QED BY <1>3, <1>4, <2>1, InductionDownFrom
<1>6. Same(0)
  <2>1. 0 \in 0..n
    BY <1>1
  <2> HIDE DEF n, Same
  <2> QED BY <1>5, <2>1
<1>7. x(0) = a /\ y(0) = b
  BY LevelSteps
<1> HIDE DEF x, y
<1> QED BY <1>6, <1>7

\* domainSeparatedHash binds the tag and the list.
LEMMA DomainBinds ==
  ASSUME HashIsFree, NEW a \in Seq(BigInts), NEW b \in Seq(BigInts),
         NEW t \in BigInts, NEW u \in BigInts,
         DomainSeparatedHash(t, a) = DomainSeparatedHash(u, b)
  PROVE  SameElement(t, u) /\ Len(a) = Len(b) /\ \A i \in 1..Len(a) : SameElement(a[i], b[i])
<1> DEFINE x == <<t>> \o a
           y == <<u>> \o b
<1>1. Digest(x) = Digest(y)
  BY DEF DomainSeparatedHash
<1> HIDE DEF BigInts
<1>2. /\ x \in Seq(BigInts) /\ Len(x) = 1 + Len(a) /\ x[1] = t
      /\ \A i \in 1..Len(a) : x[i + 1] = a[i]
  OBVIOUS
<1>3. /\ y \in Seq(BigInts) /\ Len(y) = 1 + Len(b) /\ y[1] = u
      /\ \A i \in 1..Len(b) : y[i + 1] = b[i]
  OBVIOUS
<1>4. Len(a) \in Nat /\ Len(b) \in Nat
  OBVIOUS
<1> HIDE DEF x, y
<1>5. DOMAIN x = 1..Len(x) /\ DOMAIN y = 1..Len(y) /\ Len(x) \in Nat /\ Len(y) \in Nat
  BY <1>2, <1>3
<1>6. DOMAIN x = DOMAIN y /\ \A i \in DOMAIN x : Residue(x[i]) = Residue(y[i])
  BY <1>1, DigestBinds
<1>7. Len(x) = Len(y)
  <2> DEFINE p == Len(x)
             q == Len(y)
  <2>1. 1..p = 1..q /\ p \in Nat /\ q \in Nat
    BY <1>5, <1>6
  <2> HIDE DEF p, q
  <2>2. p = q
    BY <2>1
  <2> QED BY <2>2 DEF p, q
<1>8. Len(a) = Len(b)
  BY <1>2, <1>3, <1>4, <1>7
<1>9. Residue(t) = Residue(u)
  <2>1. 1 \in DOMAIN x
    BY <1>2, <1>4, <1>5
  <2> QED BY <1>2, <1>3, <1>6, <2>1
<1>10. ASSUME NEW i \in 1..Len(a) PROVE Residue(a[i]) = Residue(b[i])
  <2>1. i + 1 \in DOMAIN x /\ x[i + 1] = a[i] /\ y[i + 1] = b[i]
    BY <1>2, <1>3, <1>4, <1>5, <1>8
  <2>2. Residue(x[i + 1]) = Residue(y[i + 1])
    BY <1>6, <2>1
  <2> QED BY <2>1, <2>2
<1> QED BY <1>8, <1>9, <1>10 DEF SameElement

-----------------------------------------------------------------------------
(* The calls of the two hashes. *)

BatchRecord(list) ==
  [call |-> "batch", tag |-> NoCommitment, list |-> list, digest |-> PoseidonBatch(list)]
DomainRecord(tag, list) ==
  [call |-> "domain", tag |-> tag, list |-> list, digest |-> DomainSeparatedHash(tag, list)]
Calls == {BatchRecord(list) : list \in Lists}
           \cup {DomainRecord(tag, list) : tag \in Tags, list \in Lists}

CallsInv == digests \in Seq(Calls)

LEMMA CallsKept ==
  /\ CommitmentInit => CallsInv
  /\ CallsInv /\ [IdentityNext \/ CircuitNext \/ DigestNext]_commitmentVars => CallsInv'
<1>1. CommitmentInit => digests \in Seq(Calls)
  <2>1. \A U : <<>> \in Seq(U)
    OBVIOUS
  <2> QED BY <2>1, Zenon DEF CommitmentInit
<1>2. ASSUME digests \in Seq(Calls), NEW call \in Calls, Hashes(call)
      PROVE  digests' \in Seq(Calls)
  <2>1. digests' = Append(digests, call)
    BY <1>2 DEF Hashes
  <2> HIDE DEF Calls
  <2> QED BY <1>2, <2>1
<1>3. ASSUME digests \in Seq(Calls), NEW list \in Lists, BatchCall(list)
      PROVE  digests' \in Seq(Calls)
  <2>1. BatchRecord(list) \in Calls
    BY DEF Calls
  <2>2. Hashes(BatchRecord(list))
    BY <1>3, Zenon DEF BatchCall, BatchRecord
  <2> QED BY <1>2, <1>3, <2>1, <2>2, Zenon
<1>4. ASSUME digests \in Seq(Calls), NEW list \in Lists, NEW tag \in Tags, DomainCall(tag, list)
      PROVE  digests' \in Seq(Calls)
  <2>1. DomainRecord(tag, list) \in Calls
    BY DEF Calls
  <2>2. Hashes(DomainRecord(tag, list))
    BY <1>4, Zenon DEF DomainCall, DomainRecord
  <2> QED BY <1>2, <1>4, <2>1, <2>2, Zenon
<1>5. ASSUME digests \in Seq(Calls), [IdentityNext \/ CircuitNext \/ DigestNext]_commitmentVars
      PROVE  digests' \in Seq(Calls)
  <2>1. CASE UNCHANGED digests
    BY <1>5, <2>1, Zenon
  <2>2. CASE DigestNext
    BY <1>3, <1>4, <1>5, <2>2, Zenon DEF DigestNext
  <2>3. UNCHANGED digests \/ DigestNext
    BY <1>5 DEF IdentityNext, CircuitNext, RegisterIdentity, ProveIdentity, ProvePreimage,
                ProveRange, ProveThreshold, commitmentVars
  <2> QED BY <2>1, <2>2, <2>3
<1>6. CallsInv' <=> digests' \in Seq(Calls)
  BY DEF CallsInv
<1> QED BY <1>1, <1>5, <1>6 DEF CallsInv

\* What a call recorded.
LEMMA CallFields ==
  ASSUME NEW c \in Calls
  PROVE  /\ c.list \in Seq(BigInts)
         /\ c.call = "batch" => c.digest = PoseidonBatch(c.list)
         /\ c.call = "domain" =>
              c.tag \in BigInts /\ c.digest = DomainSeparatedHash(c.tag, c.list)
         /\ c.call \in {"batch", "domain"}
<1>1. Lists \subseteq Seq(BigInts) /\ Tags \subseteq BigInts
  BY BigIntsAssumption
<1>2. CASE \E list \in Lists : c = BatchRecord(list)
  <2>1. PICK list \in Lists : c = BatchRecord(list)
    BY <1>2
  <2>2. c.call = "batch" /\ c.list = list /\ c.digest = PoseidonBatch(list)
    BY <2>1 DEF BatchRecord
  <2> HIDE DEF BigInts
  <2> QED BY <1>1, <2>2
<1>3. CASE \E tag \in Tags, list \in Lists : c = DomainRecord(tag, list)
  <2>1. PICK tag \in Tags, list \in Lists : c = DomainRecord(tag, list)
    BY <1>3
  <2>2. /\ c.call = "domain" /\ c.list = list /\ c.tag = tag
        /\ c.digest = DomainSeparatedHash(tag, list)
    BY <2>1 DEF DomainRecord
  <2> HIDE DEF BigInts
  <2> QED BY <1>1, <2>2
<1>4. \/ \E list \in Lists : c = BatchRecord(list)
      \/ \E tag \in Tags, list \in Lists : c = DomainRecord(tag, list)
  BY DEF Calls
<1> QED BY <1>2, <1>3, <1>4, Zenon

\* The calls that were made give the property.
LEMMA BindingFromCalls ==
  ASSUME HashIsFree, digests \in Seq(Calls)
  PROVE  DigestsBindTheirInputs
<1> SUFFICES ASSUME Len(digests) = 2, digests[1].digest = digests[2].digest,
                    digests[1].call = digests[2].call
             PROVE  LET a == digests[1] b == digests[2]
                    IN  /\ a.call = "domain" => SameElement(a.tag, b.tag) /\ Len(a.list) = Len(b.list)
                        /\ Len(a.list) = Len(b.list) =>
                             \A i \in DOMAIN a.list : SameElement(a.list[i], b.list[i])
  BY DEF DigestsBindTheirInputs
<1> DEFINE a == digests[1]
           b == digests[2]
<1>1. a \in Calls /\ b \in Calls
  <2> HIDE DEF Calls
  <2> QED OBVIOUS
<1>2. a.digest = b.digest /\ a.call = b.call
  OBVIOUS
<1> HIDE DEF a, b
<1> DEFINE p == a.list
           q == b.list
<1>3. p \in Seq(BigInts) /\ q \in Seq(BigInts) /\ a.call \in {"batch", "domain"}
  BY <1>1, CallFields
<1>4. IsList(p) /\ IsList(q)
  BY <1>3, SequencesAreLists
<1>5. CASE a.call = "domain"
  <2>1. /\ DomainSeparatedHash(a.tag, p) = DomainSeparatedHash(b.tag, q)
        /\ a.tag \in BigInts /\ b.tag \in BigInts
    BY <1>1, <1>2, <1>5, CallFields
  <2> HIDE DEF p, q
  <2>2. /\ SameElement(a.tag, b.tag) /\ Len(p) = Len(q)
        /\ \A i \in 1..Len(p) : SameElement(p[i], q[i])
    BY <1>3, <2>1, DomainBinds
  <2>3. /\ a.call = "domain" => SameElement(a.tag, b.tag) /\ Len(p) = Len(q)
        /\ Len(p) = Len(q) => \A i \in DOMAIN p : SameElement(p[i], q[i])
    BY <1>4, <2>2 DEF IsList
  <2> QED BY <2>3 DEF a, b, p, q
<1>6. CASE a.call = "batch"
  <2>1. PoseidonBatch(p) = PoseidonBatch(q)
    BY <1>1, <1>2, <1>6, CallFields
  <2> HIDE DEF p, q
  <2>2. Len(p) = Len(q) => \A i \in 1..Len(p) : SameElement(p[i], q[i])
    BY <1>4, <2>1, BatchBinds
  <2>3. /\ a.call # "domain"
        /\ Len(p) = Len(q) => \A i \in DOMAIN p : SameElement(p[i], q[i])
    BY <1>4, <1>6, <2>2 DEF IsList
  <2> QED BY <2>3 DEF a, b, p, q
<1> QED BY <1>3, <1>5, <1>6

\* Two equal digests are of the same elements, for lists of every length and every
\* number of levels of poseidonBatch (poseidonUtils.ts:49-77, 103-131).
THEOREM DigestsBindTheirInputsAlways ==
  ASSUME HashIsFree
  PROVE  CommitmentSpec => []DigestsBindTheirInputs
<1>1. CallsInv => DigestsBindTheirInputs
  BY BindingFromCalls DEF CallsInv
<1> QED BY <1>1, CallsKept, PTL DEF CommitmentSpec

=============================================================================
