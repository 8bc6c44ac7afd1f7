# zkstellar: a TLA+ verification of the proof contracts and their SDK

The repository verifies Groth16 proofs on Stellar. Two Soroban contracts do the
verifying, a TypeScript SDK encodes proofs, submits them, packs them into bundles
and reads the results, and circom circuits define the statements. These modules
model the contracts' state machines, the SDK's calls with the network between
them, the SDK parts and commands whose results the contracts or circuits consume,
and the circuits' constraints. TLC checks them on small instances; TLAPS proves
their safety properties for every value of the constants.

Paths below are relative to the repository; `V:` is contracts/verifier/src/lib.rs
and `R:` contracts/registry/src/lib.rs.

## 1. The system

| part | state | operations |
|---|---|---|
| registry (R) | admin, pending admin, circuits and their active flags, nullifiers | propose_admin, accept_admin, upgrade, register_circuit, remove_circuit, verify_proof, verify_batch; reads |
| verifier (V) | admin, pending admin, limits, key, allowlist and its mode, pause flag, success counts; attempt counters in temporary storage | one setter each, propose_admin, accept_admin, upgrade, verify_proof, verify_batch; reads |
| SDK calls (sdk/src/verify.ts) | the locals of each running call: options, transaction, deadline, answer | verifyOnChain, verifyBatchOnChain, estimateVerifyFee |
| SDK reads (verify.ts, version.ts) | none between calls | getContractConfig; getContractVersion |
| SDK registry calls (verify.ts, nullifier.ts) | none between calls | verifyViaRegistry, verifyBatchViaRegistry, isNullifierUsedOnChain, computeNullifier |
| SDK history (verify.ts) | none between calls | getVerificationHistory |
| SDK metadata (metadata.ts) | ProofMetadata | createProofMetadata, recommendExpiryLedger, isProofExpired, ledgersUntilExpiry, estimateExpiryDate |
| SDK bundles (bundle.ts, bundleIO.ts) | ProofBundle, SignedBundle, files | createBundle, signBundle, verifyBundleIntegrity, importSignedBundle, the encoders |
| encoding and checks (proof.ts, validate.ts) | none | formatProof, formatVerifyingKey, validateProofInput, validateCalldata |
| Poseidon (poseidon.ts) | the cache of constants, the state of a running hash | poseidon |
| Poseidon helpers (poseidonUtils.ts) | none | poseidonCommit, poseidonCommitDouble, poseidonBatch, domainSeparatedHash |
| identity (identity.ts, circuits/identity_commitment) | a registration | buildIdentityCommitment, identityRegistrationPayload, identityCircuitInputs, parseIdentityPublicSignals |
| Merkle tree (merkle.ts, circuits/merkle_inclusion) | a tree, a proof | buildMerkleTree, buildMerkleProof; the circuit's constraints |
| range_proof, threshold_2of3, poseidon_preimage | none | constraints |
| off-chain verification (verifyOffChain.ts) | none | verifyOffChain |
| commands (cli.ts) | none | decode-bundle, format-vk, check-nullifier, merkle-root; prove, verify, inspect, estimate-fee |
| proof generation, browser entry, demo, scripts, CI | none | wrappers |

How they interact. The host runs one contract call at a time, and a call that
returns Err or panics is rolled back; between calls anything may happen: another
account's call, an admin's, a ledger's close, the archival or expiry of an entry.
The SDK talks to the contracts in two ways. verifyOnChain and verifyBatchOnChain
read the account, simulate, sign, send and poll, and every one of those is an
await during which the ledger moves and other calls run. The registry calls only
simulate: an RPC node runs the contract on its present storage and the result
comes back; the read of the configuration and the fee's dry run do
the same with the verifier. A proof's expiry ledger is chosen by the metadata helpers, encoded by
formatProof as the last public input and enforced by the verifier. Hashes are
computed by the SDK and constrained by circuits, nullifiers are computed by the
SDK, a command and the contract, and a G2 coordinate is put in the host's order by
the SDK and read by the host: in each case two pieces of code must agree that no
test runs together.

What is hard here:

* partial failure in batches: a batch charges, counts, burns and publishes entry
  by entry, and the two contracts treat a bad entry in different ways (R: a panic
  stops the call; V: some errors stop it, others become `false` and keep their
  charge, while the same error in a single call rolls the charge back);
* replay protection through removal, re-registration under another key, archival
  and restoration;
* rate limiting in temporary storage, over window boundaries, time to live and
  changes of the limits in mid window;
* simulate-then-apply, lost answers, dropped and late transactions, two calls on
  one sequence number, an undecodable result;
* the boundary of an expiry ledger, decided three times in different code;
* history read from a node that lags, forgets and limits before the SDK filters;
* a configuration that is read while it changes;
* a bundle that crosses files, edits and two importers, and has no place for an
  expiry;
* a hash schedule whose constants are read at computed offsets, lists hashed in
  pieces, comparators that hold only for short numbers.

PROJECT.json lists every hazard with its line and the properties aimed at it.

## 2. Modules

| module | what it is |
|---|---|
| `Registry` | the registry contract |
| `SingleUse` | the abstract specification: a pair settles at most once, under the key its circuit has |
| `RegistryRefinement` | the mapping Registry -> SingleUse, and the inductive invariant |
| `RegistryProofs` | proofs about Registry and the refinement |
| `Verifier` | the verifier contract, ledgers and temporary storage |
| `VerifierProofs` | proofs about Verifier and VerifierReads |
| `VerifierReads` | SDK calls that read the verifier; EXTENDS Verifier |
| `VerifyClient` | SDK calls that submit, and the fee's dry run, with the network; EXTENDS Verifier |
| `VerifyClientProofs` | proofs about VerifyClient |
| `RegistryClient` | SDK calls that are simulated; EXTENDS Registry |
| `RegistryClientProofs` | proofs about RegistryClient |
| `ProofExpiry` | expiry planning against the contract's check |
| `VerificationHistory` | an application that follows the event history |
| `ProofBundle` | bundles and decode-bundle |
| `CommandLine` | format-vk, check-nullifier and verifyOffChain against the registry |
| `SdkProofs` | proofs about these four |
| `MerkleTree`, `MerkleProofs` | the tree, its circuit and merkle-root, and proofs |
| `Poseidon`, `HashProofs` | the optimised hash beside the permutation, and proofs; HashProofs EXTENDS MerkleProofs for its inductions |
| `Commitments`, `CommitmentProofs` | hash helpers, identities and four circuits, and proofs; Commitments EXTENDS Poseidon for its reduction |
| `MCRegistry`, `MCVerifier`, `MCVerifierReads`, `MCVerifyClient`, `MCRegistryClient`, `MCSdk` | instances for TLC |

Definitions keep the source's names. An operator marked `Fault:` in a comment is a
plausible mistake in the definition that follows it; no specification uses it, and
PROJECT.json pairs it with the property that finds it.

### Registry

`circuit`, `active`, `nullifiers` are the storage; `wNullifiers`, `results` and
`events` are the frame of a running batch. verify_proof is one step. verify_batch
is `BatchBegin`, one `BatchEntry` for each turn of the loop over a working copy,
then `BatchReturn`, which commits, or `BatchTrap` / `BatchOutOfBudget`, which drop
everything. Nothing else of the contract runs in between, as on the host; the
steps are there so that what an entry sees of the earlier ones, and what remains
when a later one panics, are questions with answers. The pairing equation is the
constant `Pairing` (accept, reject or trap for a key, proof and inputs), hashes
are free constructors. That a call which does not return leaves nothing behind is
the host's promise, assumed here. `archived` marks nullifiers whose persistent entry the
ledger has archived: a call that reads one fails until it is restored.
`accepted` and `receipt` are history: successes committed for each pair, and the
last call's outcome.

### Verifier

The storage is split in the admin's settings and a record `store` (attempt
counters with their live-until ledgers, success counts), which one call replaces
as a whole. `Gate` is the first half of verify_one (pause, allowlist, window,
counter), `Check` the second (arity, expiry, points, pairing), `Outcome` what the
two come to and `VerifyOne` what they write. Charging precedes checking as at
V:470-477. `Fatal` are the errors that abort a batch (V:416-417); the others
become `false`. `AdvanceLedger` moves the ledger; a temporary entry is gone once
its live-until ledger is past. `hist` counts committed attempts of the current
window and published successes and `relimited` remembers that the limits changed
within it.

### VerifierReads

`GetContractConfig` simulates on the contract of the moment, `AnswerRead` is the
answer's arrival, and every step of `Verifier` may come before, between and after.
`changed` remembers that the settings or the code have changed since the simulation,
so that what an application may still conclude from what it read is a question with
an answer.

### VerifyClient

A call goes idle, built, signed, polling, done, an await at each arrow. Its
options (`asked`) are calldata, a bundle or both: `ResolveCalldata` prefers
calldata, `AssertBundleNetwork` is made on a bundle whether or not it is the one
that is sent, and formatting a bundle adds no expiry ledger. An estimate stops
after the simulation. A transaction carries its sequence number and the counter
entries its simulation read and wrote; the network accepts, refuses, drops, delays
and applies it, and applies it as failed when it needs an entry outside that
footprint (the window rolled over since the simulation). An answer to
sendTransaction can be lost, a poll can find nothing though the transaction has
applied, return value and diagnostic events can each be missing. `Reception` takes
TRY_AGAIN_LATER and ERROR for what they say, that the node has not queued the
transaction; RefusedHasNoEffect rests on that, since the SDK reports both as a
refusal. A malformed part of the options has the code of that part, proof or public
input; the model leaves open which of the two it is. Contract steps are those of
`Verifier`, with a batch applied entry by entry.

### RegistryClient

A call is made, simulated on the storage of a later moment and answered later
still, with the transactions of others in between. The simulation restores
archived entries or fails, whichever the node does. `SimulateVerify` answers a
whole batch on a copy of the replay set. The storage is the one of the latest
ledger: a node that lags behind it, or two nodes behind one address, are not
modelled, and with them a pair reported used could be reported verified by an
older node.

### The parts on data alone

`MerkleTree` has the tree, its proofs and the circuit's constraints over a hash
free of collisions; the member may hold a proof of an older tree. `ProofExpiry`
has wall-clock time, ledgers that close `LeastGap` seconds apart or more, an
application that reads the ledger, plans an expiry, proves and prechecks at
different moments, and the verifier's comparison. LEDGER_CLOSE_TIME_SECONDS is an
average by its own comment (metadata.ts:49), and the network may close ledgers
faster: LivesItsTimeToLive and EstimateIsSafe promise the full time only when
LeastGap is that average, and otherwise the share of it that LeastGap is.
PrecheckForetells, which speaks of ledgers only, does not depend on it. The current
ledger that createProofMetadata is told may have been read before proving
(`reading`): the estimated date then lies later than the proof lives, by the ledgers
that closed in between (`StaleLife`), and EstimateIsSafe says how long the proof is
good for counted from either moment. `ProofBundle` follows one bundle
through signing, export with or without its digest, edits of single fields of the
file and import, and through decode-bundle, which makes another bundle of the same
file, at a later time (`Later`), with the name trimmed and an empty digest ignored.
The digest is a SHA-256 without a key: that a content was signed (`signed`) means
that somebody computed its digest, not who. `VerificationHistory` has events, a node that ingests and prunes
ledgers, and an application that asks again from the ledger of its newest entry.
FollowingMissesNothing is silent about events after the newest entry: on a ledger
with as many events as the limit, or more, such an application stays on that ledger.

`Poseidon` runs the schedule of poseidon.ts round by round (constants added, the
S-box, the dense or the sparse matrix, each constant at the offset the code
computes) and beside it the permutation as it is defined, in which every round is
the same. The two states agree only at the end. The file of constants is a
parameter, and it is not in the repository: package circomlibjs brings it.
`ScheduleFolds` says what the schedule needs of it, in terms of a matrix and a shift
for each partial round. The instance's constants were derived from its round
constants the way circomlib derives them, and MCSdk's ASSUME `InstanceFolds` has TLC
evaluate that they satisfy it. `Commitments` has the helpers over a free hash of
lists, an owner who registers an identity, provers who offer every witness of a
small field, their own included, and the constraints of identity_commitment,
poseidon_preimage, range_proof and threshold_2of3, whose comparators are those of
circomlib: exact for numbers of the declared length, arithmetic modulo the field
otherwise. `CommandLine` has an admin who registers the key that format-vk prints, a
prover who has check-nullifier print a nullifier, and submissions whose words the
registry's host decodes by its own convention; `Genuine` is the pairing equation on
the files' points. A text of a public signal may be one of several for a number, a
number too large, or none.

They share no state, so `MCSdk` runs one of them at a time (nine parts; Commitments
counts for three): its states are the sum of theirs.

## 3. Runs

With two workers every run ends within about three minutes.

| run | question | bounds |
|---|---|---|
| registry_circuits | replay protection, refinement, admin handoff, the answers of a batch, success events against burns | 2 accounts, 2 circuits sharing inputs, 3 keys of two arities, 3 proofs (one malformed), batches of 2 |
| verifier_rate | rate limit and budget | ledgers 0-5, windows of 2 and 3 (and a refused 0), limits 1 and 2, batches of 2 |
| verifier_policy | allowlist, pause, expiry, counts, handoff, keys | 2 callers, 2 accounts, 2 keys, ledgers 0-3, batches of 1 |
| verifier_reads | what a read of the configuration foretells; the answers of a batch | batches of 3, ledgers 0-2, u32 shrunk to 0-3 so that the counter's end is reached, a pause, an allowlist, a new limit, other code |
| client_calls | what a caller is told, that it is told, and what is sent in its name | 2 calls of one account, each a bundle, a batch, an estimate or refused options; ledgers 0-2, 2 polls |
| registry_client | simulated answers against the ledger | 2 SDK calls, 1 circuit, 2 keys, SDK batches of 2 |
| sdk_parts | the nine parts on data alone | trees of 4 leaves over 2 elements; ledgers 1-4, 11 seconds; 2 signed contents, 1 edit per export; 3 events, 4 ledgers, pages of 1 and 2; Poseidon modulo 13 at widths 2 and 3; circuits of 2 bits over that field; lists of 1 to 4 in pieces of 3; 2 circuits, 3 key files, 3 proof files, 6 signal files |

Why these bounds are enough to be interesting: replay needs two entries of one
pair and two keys; a shifted answer shows in a batch of three (verifier_reads) or
of two when both arities occur (registry_circuits); a window rollover,
a counter that expires early and a change of size need windows of two sizes and
two whole windows; a race of SDK calls is a race of two; left and right children
both occur on both levels of a tree of depth two; a page can end inside a ledger
with three events and a limit of one; a wrong offset in any of Poseidon's loops
differs already at width 3; a list of four needs two pieces, the second shorter
than the first; bounds near 13 are the ones that a comparator of two bits gets
wrong when nothing constrains them. The u32 maximum is a constant, given a small
value so that it is reached. Bounds in the modules: `MaxBatch`, `MaxLedger`,
`MaxPolls`, `MaxItems`, `MaxNow`, `MaxEdits`, `MaxSigned`, `LastLedger`,
`MaxEvents`; the instance closes ledgers 2 seconds apart or more (`LeastGap`) where the SDK
reckons with 3 (`CloseTime`); `U32Max` and `LedgerEnd` are the largest u32, `Modulus` and
`ScalarModulus` the field, `MaxArity`, `Depth` and `BitLength` the code's own
parameters at small values.

CHECK_DEADLOCK FALSE stands where the system really may stop: after an upgrade to
other code none of this program runs (registry_circuits, verifier_policy,
verifier_reads), when every SDK call has ended (client_calls, client_items,
client_bundle, registry_client), and when the bounded time of an SDK part is over
(sdk_parts, sdk_fewer).

Fairness is assumed in one place: client_calls has weak fairness of each call's
own steps. JavaScript's event loop runs every continuation that is ready, and an
RPC request resolves or rejects (a request that never does either would hang
verifyOnChain, which sets no timeout of its own on it). The network is not fair:
a transaction may never apply, and EveryCallEnds holds all the same because of the
polling deadline.

### Disagreements between code and documentation

Each is a run that TLC ends with a counterexample.

* registry_bad_entry. The doc of verify_batch (R:234-236) says that a bad entry
  becomes `false` and does not affect the others; a proof part of the wrong length
  panics and takes earlier acceptances with it.
* registry_nullifier_doc. The doc of is_nullifier_used (R:162-164) says the
  nullifier is the inputs hash; the code burns the hash of circuit id and inputs
  hash.
* client_items. verifyBatchOnChain returns an empty answer list for an applied
  batch when the node sends no diagnostic events, against the doc of
  VerifyBatchResult (sdk/src/types.ts:113-114).
* client_bundle. A bundle has no place for an expiry ledger and resolveCalldata adds
  none (sdk/src/verify.ts:218), so a genuine bundle reaches a contract that wants
  two public inputs with one, and the answer is false. The tutorial
  (docs/tutorial-first-proof.md:273) has the demo (demo/src/estimateFee.ts:54-79)
  verify one and print true.
* sdk_fewer. getVerificationHistory limits before it filters, so a short page does
  not mean there is no more (sdk/src/verify.ts:903-906).

Others were noticed while reading and have no run, since each is one line against
one line: ContractConfig.paused is documented as always false (V:39) and
get_config reads the flag (V:262); the doc of set_paused (V:327-328) has every
batch refused while an empty one returns an empty answer (V:409);
verifyViaRegistry's doc (sdk/src/verify.ts:571) says verify_proof mutates no
storage, while it burns a nullifier when it is submitted; metadata.ts:177-179 says
that a proof without an expiry field never expires in the contract, which answers
false to it at V:483-485; "newest first" of getVerificationHistory is an order
within the oldest `limit` events; the comment of identity_commitment/circuit.circom
(lines 8-11) says the inner hash stays private, while it is a public signal;
poseidonBatch is documented as collision resistant (poseidonUtils.ts:36-37), while a
list longer than one call has the digest of the list of its pieces' digests, so
DigestsBindTheirInputs speaks of lists of one length.

## 4. Proofs

TLAPS proves, for every set of accounts, circuits, keys, proofs, inputs, callers,
calls, limits, windows, batch lengths, times, tree depths, fields, hash widths and
list lengths that the named assumptions allow:

| module | properties | of |
|---|---|---|
| RegistryProofs | TypeOK, AtMostOnce, BurnedIffAccepted, ActiveHasKey, NominationByCurrentAdmin, BatchAnswers, HandoffByConsent, SuccessEventsTellBurns, the refinement of SingleUse | Registry |
| VerifierProofs | TypeOK, RateBound, BudgetExact, CountMatchesEvents, NominationByCurrentAdmin, BatchAnswers, NoLateSuccess, RefusedLeavesNoTrace; ConfigForetellsGate | Verifier; VerifierReads |
| VerifyClientProofs | TruthfulAnswer, RefusedHasNoEffect, OneTransactionPerCall, ClientTypeOK; the verifier's RateBound, BudgetExact, CountMatchesEvents, BatchAnswers and NominationByCurrentAdmin under the clients | VerifyClient |
| RegistryClientProofs | VerifiedIsFresh, UsedIsNotMissed | RegistryClient |
| SdkProofs | LivesItsTimeToLive, EstimateIsSafe, PrecheckForetells | ProofExpiry |
| SdkProofs | FollowingMissesNothing | VerificationHistory |
| SdkProofs | VerifiedWasSigned, OwnBundlesRoundTrip, CommandAgreesWithImport | ProofBundle |
| SdkProofs | OffChainForetells, PrintedNullifierIsTheRegistrys | CommandLine |
| MerkleProofs | ProofsFitTheCircuit, OnlyMembersProve | MerkleTree |
| HashProofs | DigestIsReference | Poseidon |
| CommitmentProofs | IdentityIsRecognised, CircuitsProveTheirStatements, DigestsBindTheirInputs | Commitments |

Registry. AtMostOnce alone is not inductive: a batch commits its
working copy at the end, so the invariant (`IInv` in RegistryRefinement) says the
same of the working copy, ties both replay sets to both counts (`Agree`: a pair's
nullifier is burned exactly when its count is one) and says what a batch has added
(`BatchAddsProvable`, `BatchBurnsAcceptable`: only pairs that were new and provable
under a key that is active, and all of its acceptable entries so far). That
nullifiers of different pairs differ is a lemma about the hash's free
constructors. BatchAnswers needs BatchBurnsAcceptable in both directions, and so does
SuccessEventsTellBurns: the events of an input vector are mapped to the circuits of
their entries, one to one because of two entries of a pair only the first is
acceptable, and onto what was burned by the least such entry. The
refinement maps a batch's commit to one Settle of all pairs it added.

Verifier. RateBound speaks of committed attempts; the code compares a
counter in storage that may have expired. `Agree` (in Verifier) says of a store and
its history: the counter that would be read now is at least the attempts charged
(`UsedCounted`), an entry with attempts outlives its window (`UsedAlive`, the TTL
extension at V:477), no entry exists for a window that starts later
(`FutureEmpty`, without which a smaller window size could find an old counter),
and the counter equals the attempts while the limits have not changed in the
window (`UsedExact`). It holds of what is committed and of what a running batch
would commit; `WorkingCopy` and `BudgetTaken` say what the batch has taken so far.
The arithmetic is in two lemmas, WindowHoldsLedger and NextWindowStartsNow. Of the
reads, `ReadHolds` says that an answer about a contract nobody has changed since is
the one it would give now; with `UsedExact` the limit in it and the application's
own count of attempts decide the gate.

VerifyClient. The invariant has four parts. `CallsInv`: each call's transaction,
once built, carries out the call's options, and what it was told fits how far it
got. `LedgerInv`: a pending transaction is next in its account's sequence, one on
the ledger or being applied is in its past, and an account has at most one
pending; so no transaction applies twice. `SentInv`: whatever is pending, running
or applied was submitted by a call that is polling or done, which gives
OneTransactionPerCall. `TimelyInv`: no success on the ledger is later than the
proof's expiry. A refused call either shares its transaction with another
(`Twin`) or its transaction is `Gone`, which stays so because the sequence number
has passed or was never this one. Nothing of these three results depends on
Verifier's invariant or on the bound on batches. The types of the answers do: what a
batch returns has a type because the contract's working copy has one, so
ClientTypeOK is proved beside Verifier's `IInv`. `ClientKeepsContract` shows that
every step of the clients and the network is a step of the contract or leaves it
alone as far as `IInv` is concerned, and so what is proved of the contract alone
holds of the contract that the transactions drive (ContractHoldsUnderClients).

RegistryClient. The set of used pairs only grows (by Registry's `IInv`), so a pair
that was known to be used when a call was made is used when it is simulated. What
a simulated batch answers is a recursion over its entries; the proof shows that
the recursion has a solution and argues by the least entry that would be wrong.

ProofExpiry. From a moment of which a ledger is known, every close but the first
takes LeastGap at the least, so the ledgers since then are bounded by the time since
then (`Paced`). The invariant says so of the application's first reading, of the one
the metadata was made from and of generatedAt (`ReadingHolds`, `MetaHolds`); the plan
and the answers belong to those readings.

VerificationHistory. FollowingMissesNothing is inductive beside three facts: the log
is in the order of ledgers (`LogInOrder`), the node is behind the chain and the
application's start is not ahead of the node (`NodeLags`), and every event that the
node dropped was delivered before or is recorded as lost (`PrunedIsKnown`). The step that needs an argument
is the answer: an event before the newest entry was in the page, because a page is
the oldest part of what the node has (AnswerIsOldest).

ProofBundle. Every digest that is around is the digest of a content that was
signed, whatever was edited (`Known`), and a bundle of the application's own is a
fixed point of what the import makes of it (`Own`). The bundle that decode-bundle
makes differs from the trimmed file at most in its time, when the file has none; and
no content was signed with the time it fills in then (DecodeIsOfTrimmed).

MerkleTree. The invariant only says that the tree is some list's and that the held
proof is some tree's. The rest is induction over the levels: upwards, the circuit's
hash at each level of a built proof is the tree's node above the leaf
(OwnPathClimbs); downwards, a path that ends at a tree's root runs through its
nodes if the hash has no collisions (PathDescends); and direction bits and
positions determine one another (BitsDetermine, BitsLead). Both theorems have the
absence of collisions, `CollisionFree`, as a hypothesis. An induction over numbers
is one over a set of numbers here (InductionUpTo, InductionDownFrom, from the
existence of least elements), since the library's induction theorems take an
operator; and each recursive function of the model is first shown to have a
solution, by the same induction.

CommandLine. The registry's keys are the key files' own (`KeysAreFiles`: encoding
and the host's reading cancel), and its nullifiers are exactly those of the
accepted circuits and numbers (`SettledAreAccepted`), which differ when the
circuits or numbers do.

Poseidon. The invariant (`InStep`) relates the two states. Between full rounds the
code's state is congruent to that of the permutation with the next round's constants
added. Before the partial round j it is the permutation's state, shifted by a vector
and then multiplied by a matrix that leaves the first element alone, so that the
S-box acts on the same element in both (FirstAlone); each round's equations in
ScheduleFolds carry that from j to j + 1 (PartialRoundAgrees), and the last such
matrix is the identity, where the full rounds take over (LastTurn). The lemmas below
it are the linear algebra: residues of sums and products (ModOf*), finite sums as the
recursion of state.reduce (Reduce*), products of matrices (ApplyTwice), the sparse
product as one of them (SparseIsAMatrix). `ScheduleFolds` is a hypothesis of the
theorem, for some matrices and shifts.

Commitments. Over a hash that is free (`HashIsFree`: equal digests are of equal
lists) the identity property compares three constructors. The circuits are
arithmetic: a comparator tests the size of a sum that is taken modulo the field
(WhatLessEqThanSays splits on whether the sum wraps), and a number with bits is one
below a power of two (SumFitsItsBits, NumbersHaveBits); that a weight is Boolean
when its square is itself needs the field to be prime (`PrimeAssumption`). Digests of
lists go level by level: each level of poseidonBatch is shorter than the one below,
so there are finitely many, each has a solution as a recursive function, and equal
roots give equal lists by induction downwards.

Assumptions are the ASSUMEs of the modules: typing of the constants, the shape of
keys and files, that the empty markers are no values, that the pairing equation has
one point of the key for each public input, that the field is prime and has room for
the comparators, that the file of constants has the lengths the code reads. TLC
evaluates all of them. Three hypotheses are of single theorems: `CollisionFree` and
`HashIsFree` idealise the hash, and `ScheduleFolds` is about the file of constants;
TLC checks the same properties on instances where all three hold.

Model-checked only: the liveness property EveryCallEnds (VerifyClient), since
liveness under fairness and ENABLED are out of the prover's reach. Not checked at
all: that the constants of package circomlibjs satisfy ScheduleFolds, and that
Poseidon has no collisions.

## 5. What is not modelled

* Elliptic curves and SHA-256: the pairing's result is a constant function, and
  SHA-256 is free of collisions. Poseidon's rounds are modelled over a small field;
  where it is only used it is free of collisions.
* Bytes of one point or number, JSON and Base64 text, wording of errors and log
  lines. Encoding matters to a property where the expiry has its position among the
  public inputs, where a proof encodes or not, and in the order of a G2 point's
  parts, and is modelled there.
* Archival of contract instances, the network's largest time to live (the one
  hazard without a property: a window so large that V:477 asks for more than it),
  overflow of the u64 success count, fees. A resource budget is modelled as a stop
  at any point of a batch; a single call that exceeds it does nothing.
* Admin calls that return Err: they change nothing.
* getContractVersion: it returns the string that the contract answers and warns when
  it is another than the one expected, and nothing ties that string to one code.
* generateProof and the browser entry (argument checks and one call of snarkjs),
  the commands prove, verify, inspect and estimate-fee (one library function each,
  and its result printed), the types, the demo, scripts and CI: no state and no
  decision that another part relies on.

## 6. What is left

* An abstract specification for Verifier (a budget for each caller and window, a
  set of timely successes) that it refines. RateBound, BudgetExact,
  CountMatchesEvents and NoLateSuccess, all proved, say between them what it would
  allow; what it would add is that nothing else can be observed.
* Callers with accounts of their own in VerifyClient's instance (the module has
  them; two calls of one account are the harder race), and a window that rolls over
  while a batch is on its way.
