----------------------------- MODULE Commitments -----------------------------
(***************************************************************************)
(* Commitments: the helpers of sdk/src/identity.ts and poseidonUtils.ts    *)
(* beside the circuits that constrain the same hashes - identity_commitment*)
(* poseidon_preimage, range_proof and threshold_2of3.                      *)
(*                                                                         *)
(* An owner registers an identity; provers, the owner among them, offer    *)
(* witnesses to the circuits; an application compares the public signals   *)
(* of an accepted proof with what was registered.  The hash is a parameter,*)
(* given free of collisions.  A field element is <<"field", i>>, i its     *)
(* residue or any integer that stands for it, or the hash of a list.       *)
(***************************************************************************)
EXTENDS Poseidon

CONSTANTS
  Hash(_),      \* the hash of a list of field elements, each in normal form
  MaxArity,     \* MAX_ARITY
  Secrets,      \* bigints an owner may use as a secret
  Lists,        \* lists of bigints to be hashed
  Tags,         \* domain tags
  BitLength,    \* the n of RangeProof(n)
  Bounds,       \* field elements a verifier may give for min and max
  ActiveValues, \* field elements a prover may give for active[i]
  NoCommitment  \* nothing registered, or nothing offered, yet

ASSUME ArityAssumption == MaxArity \in Nat \ {0, 1}
\* Bigints stand for field elements.  The circuits work in a prime field, and the
\* wires of a witness hold residues.
BigInts == {"field"} \X Int
ASSUME BigIntsAssumption ==
  Secrets \subseteq BigInts /\ Tags \subseteq BigInts /\ Lists \subseteq Seq(BigInts)
ASSUME PrimeAssumption ==
  Modulus > 3 /\ \A a, b \in 1..Modulus - 1 : (a * b) % Modulus # 0
ASSUME WiresAssumption ==
  Bounds \subseteq 0..Modulus - 1 /\ ActiveValues \subseteq 0..Modulus - 1

PowerOfTwo[k \in 0..BitLength] == IF k = 0 THEN 1 ELSE 2 * PowerOfTwo[k - 1]
ASSUME ComparatorAssumption ==
  BitLength \in Nat /\ 2 * PowerOfTwo[BitLength] < Modulus

VARIABLES
  registered,  \* the secret behind the IdentityRegistrationPayload, and the payload
  attempt,     \* the last witness offered to a circuit, and whether it was accepted
  digests      \* the last two calls to poseidonBatch and domainSeparatedHash

commitmentVars == <<registered, attempt, digests>>

----------------------------------------------------------------------------
Field(i) == <<"field", i>>
\* normalizeInput: digests are in normal form already.
Residue(v) == IF v[1] = "field" THEN Field(Mod(v[2])) ELSE v
Digest(list) == Hash([i \in DOMAIN list |-> Residue(list[i])])

PoseidonCommit(secret) == Digest(<<secret>>)
PoseidonCommitDouble(secret) ==
  LET inner == PoseidonCommit(secret) IN [inner |-> inner, outer |-> Digest(<<inner>>)]
BuildIdentityCommitment(secret) == PoseidonCommitDouble(secret)

\* Fault: the two values of the payload are swapped.
IdentityRegistrationPayloadSwapped(secret) ==
  LET c == BuildIdentityCommitment(secret) IN [anchor |-> c.inner, innerCommitment |-> c.outer]

IdentityRegistrationPayload(secret) ==
  LET c == BuildIdentityCommitment(secret) IN [anchor |-> c.outer, innerCommitment |-> c.inner]

IdentityCircuitInputs(secret) ==
  LET c == BuildIdentityCommitment(secret)
  IN  [secret |-> secret, inner |-> c.inner, commitment2 |-> c.outer]

\* The outer commitment is compared as the integer it is.
VerifyIdentityCommitment(inner, outer) == Digest(<<inner>>) = outer

ParseIdentityPublicSignals(signals) == [inner |-> signals[1], outer |-> signals[2]]

\* The list in pieces of MaxArity, the last one perhaps shorter.
Chunk(list, n) ==
  [k \in 1..(IF n * MaxArity <= Len(list) THEN MaxArity ELSE Len(list) - (n - 1) * MaxArity) |->
     list[(n - 1) * MaxArity + k]]
\* Fault: a last piece that is not full is left out.
ChunksFullOnly(list) == [n \in 1..Len(list) \div MaxArity |-> Digest(Chunk(list, n))]

Chunks(list) ==
  [n \in 1..(Len(list) + MaxArity - 1) \div MaxArity |-> Digest(Chunk(list, n))]

\* The lists of the recursion, each made of the digests of the one before.
DigestLevels(list) ==
  LET level[d \in 0..Len(list)] == IF d = 0 THEN list ELSE Chunks(level[d - 1])
  IN  level

\* The first of them that fits in a single call is hashed.
Fits(list, d) == Len(DigestLevels(list)[d]) <= MaxArity
LastLevel(list) ==
  CHOOSE d \in 0..Len(list) : Fits(list, d) /\ \A e \in 0..d - 1 : ~Fits(list, e)
PoseidonBatch(list) == Digest(DigestLevels(list)[LastLevel(list)])

DomainSeparatedHash(tag, list) == Digest(<<tag>> \o list)

----------------------------------------------------------------------------
(* The circuits: the constraints that the signals satisfy. *)

PreimageCircuit(in) == in.commitment = Digest(<<in.secret>>)

IdentityCommitmentCircuit(in) ==
  /\ in.inner = Digest(<<in.secret>>)
  /\ in.commitment2 = Digest(<<Digest(<<in.secret>>)>>)

\* circomlib's LessEqThan(n): a < b + 1 when a + 2^n - (b + 1) fits n bits; the
\* n + 1 bits it is decomposed into fit no element past 2^(n + 1).
LessEqThan(a, b) == Mod(a + PowerOfTwo[BitLength] - (b + 1)) < PowerOfTwo[BitLength]

\* What lc holds as the loop over the bits adds them up.
LinearCombination(bits) ==
  LET lc[k \in 0..BitLength] ==
        IF k = 0 THEN 0 ELSE lc[k - 1] + bits[k - 1] * PowerOfTwo[k - 1]
  IN  lc

\* Fault: the bits are tied to the secret but need not be bits.
RangeCircuitUnbounded(in) ==
  /\ in.commitment = Digest(<<Field(in.secret)>>)
  /\ LessEqThan(in.min, in.secret)
  /\ LessEqThan(in.secret, in.max)

\* secret_bits exist, each 0 or 1, that add up to the secret.
RangeCircuit(in) ==
  /\ \E bits \in [0..BitLength - 1 -> {0, 1}] :
       in.secret = Mod(LinearCombination(bits)[BitLength])
  /\ in.commitment = Digest(<<Field(in.secret)>>)
  /\ LessEqThan(in.min, in.secret)
  /\ LessEqThan(in.secret, in.max)

\* Fault: active[i] may be any field element.
ThresholdCircuitLoose(in) ==
  /\ Mod(in.active[1] + in.active[2] + in.active[3]) >= 2
  /\ \A i \in 1..3 :
       in.active[i] = 0 \/ Digest(<<in.keys[i]>>) = in.commitments[i]

ThresholdCircuit(in) ==
  /\ \A i \in 1..3 : Mod(in.active[i] * (in.active[i] - 1)) = 0
  /\ Mod(in.active[1] + in.active[2] + in.active[3]) >= 2
  /\ \A i \in 1..3 :
       in.active[i] = 0 \/ Digest(<<in.keys[i]>>) = in.commitments[i]

----------------------------------------------------------------------------
\* bound: one offer to a circuit, and two calls of the hashes.
Offers(circuit, in, accepted) ==
  /\ attempt = NoCommitment
  /\ attempt' = [circuit |-> circuit, in |-> in, accepted |-> accepted]

\* identityRegistrationPayload, and the issuer stores the anchor.
RegisterIdentity(secret) ==
  /\ registered' = [secret |-> secret, payload |-> IdentityRegistrationPayload(secret)]
  /\ UNCHANGED <<attempt, digests>>

\* identityCircuitInputs of a prover's secret, under its own commitments or others.
ProveIdentity(secret, other) ==
  LET in == [IdentityCircuitInputs(other) EXCEPT !.secret = secret]
  IN  /\ Offers("identity_commitment", in, IdentityCommitmentCircuit(in))
      /\ UNCHANGED <<registered, digests>>

\* poseidonCommit of one secret, and the witness of another.
ProvePreimage(secret, other) ==
  LET in == [secret |-> secret, commitment |-> PoseidonCommit(other)]
  IN  /\ Offers("poseidon_preimage", in, PreimageCircuit(in))
      /\ UNCHANGED <<registered, digests>>

ProveRange(secret, min, max) ==
  LET in == [secret |-> secret, min |-> min, max |-> max,
             commitment |-> PoseidonCommit(Field(secret))]
  IN  /\ Offers("range_proof", in, RangeCircuit(in))
      /\ UNCHANGED <<registered, digests>>

\* The three members have the secrets 1, 2 and 3; 0 is nobody's.
ProveThreshold(keys, active) ==
  LET in == [keys |-> [i \in 1..3 |-> Field(keys[i])], active |-> active,
             commitments |-> [i \in 1..3 |-> PoseidonCommit(Field(i))]]
  IN  /\ Offers("threshold_2of3", in, ThresholdCircuit(in))
      /\ UNCHANGED <<registered, digests>>

Hashes(call) ==
  /\ Len(digests) < 2
  /\ digests' = Append(digests, call)
  /\ UNCHANGED <<registered, attempt>>

BatchCall(list) ==
  /\ list # <<>>
  /\ Hashes([call |-> "batch", tag |-> NoCommitment, list |-> list, digest |-> PoseidonBatch(list)])

DomainCall(tag, list) ==
  /\ list # <<>>
  /\ 1 + Len(list) <= MaxArity
  /\ Hashes([call |-> "domain", tag |-> tag, list |-> list,
             digest |-> DomainSeparatedHash(tag, list)])

CommitmentInit == registered = NoCommitment /\ attempt = NoCommitment /\ digests = <<>>

IdentityNext ==
  \/ \E secret \in Secrets : RegisterIdentity(secret)
  \/ \E secret, other \in Secrets : ProveIdentity(secret, other) \/ ProvePreimage(secret, other)

CircuitNext ==
  \/ \E secret \in 0..Modulus - 1 : \E min, max \in Bounds : ProveRange(secret, min, max)
  \/ \E keys \in [1..3 -> 0..3], active \in [1..3 -> ActiveValues] : ProveThreshold(keys, active)

DigestNext ==
  \E list \in Lists : BatchCall(list) \/ \E tag \in Tags : DomainCall(tag, list)

CommitmentSpec ==
  CommitmentInit /\ [][IdentityNext \/ CircuitNext \/ DigestNext]_commitmentVars

----------------------------------------------------------------------------
Accepted(circuit) == attempt # NoCommitment /\ attempt.circuit = circuit /\ attempt.accepted
SameElement(a, b) == Residue(a) = Residue(b)

\* What the theorems ask of the hash: no two lists have the same digest, and no
\* digest passes for a bigint that has yet to be reduced.
HashIsFree ==
  /\ \A a, b : Hash(a) = Hash(b) => a = b
  /\ \A a : Hash(a)[1] # "field"

\* An accepted identity proof, read by parseIdentityPublicSignals, names the
\* registered anchor exactly when its prover has the registered secret (or an
\* integer that is the same field element), and verifyIdentityCommitment says the
\* same of its inner commitment: the payload, the circuit's inputs, the order of its
\* public signals and the parser must agree (identity.ts:58-215 and circuit.circom).
IdentityIsRecognised ==
  Accepted("identity_commitment") /\ registered # NoCommitment =>
    LET parsed == ParseIdentityPublicSignals(<<attempt.in.inner, attempt.in.commitment2>>)
        same == SameElement(attempt.in.secret, registered.secret)
    IN  /\ parsed.outer = registered.payload.anchor <=> same
        /\ VerifyIdentityCommitment(parsed.inner, registered.payload.anchor) <=> same
        /\ VerifyIdentityCommitment(registered.payload.innerCommitment, parsed.outer) <=> same

\* For bounds of n bits exactly the secrets between them.  For any bounds no secret
\* above max, and none below min unless min is the residue of a negative number.
RangeStatement(in, isAccepted) ==
  LET within == in.min <= in.secret /\ in.secret <= in.max
      bits == 0..PowerOfTwo[BitLength] - 1
  IN  /\ {in.min, in.max} \subseteq bits => (isAccepted <=> within)
      /\ isAccepted =>
           /\ in.secret \in bits /\ in.secret <= in.max
           /\ in.min <= in.secret \/ in.min - Modulus \in {-b : b \in bits}

\* The keys of two different members of the three.
KnowsTwo(in) ==
  \E i, j \in 1..3 : i # j /\ in.keys[i] = Field(i) /\ in.keys[j] = Field(j)

\* What a circuit accepts is what its name says, for every witness.  The range
\* circuit bounds the secret by its bits, and its comparators bound nothing else;
\* no key is counted twice for the threshold, since active is constrained to be
\* Boolean; and poseidonCommit is the commitment of its own secret only
\* (range_proof/circuit.circom:13-32, threshold_2of3/circuit.circom:20-38,
\* poseidon_preimage/circuit.circom:9-12, poseidonUtils.ts:155-163).
CircuitsProveTheirStatements ==
  attempt # NoCommitment =>
    /\ attempt.circuit = "range_proof" => RangeStatement(attempt.in, attempt.accepted)
    /\ Accepted("threshold_2of3") => KnowsTwo(attempt.in)
    /\ attempt.circuit = "poseidon_preimage" =>
         (attempt.accepted <=> attempt.in.commitment = PoseidonCommit(attempt.in.secret))

\* Two digests that are equal were made from the same elements: by poseidonBatch
\* when the lists are as long as each other, however many levels they took, and by
\* domainSeparatedHash under the same tag only (poseidonUtils.ts:49-77, 103-131).
DigestsBindTheirInputs ==
  (Len(digests) = 2 /\ digests[1].digest = digests[2].digest
     /\ digests[1].call = digests[2].call) =>
    LET a == digests[1] b == digests[2]
    IN  /\ a.call = "domain" => SameElement(a.tag, b.tag) /\ Len(a.list) = Len(b.list)
        /\ Len(a.list) = Len(b.list) => \A i \in DOMAIN a.list : SameElement(a.list[i], b.list[i])

=============================================================================
