----------------------------- MODULE CommandLine -----------------------------
(***************************************************************************)
(* The commands format-vk and check-nullifier of sdk/src/cli.ts, over the  *)
(* encoders of sdk/src/proof.ts, beside verifyOffChain and the registry    *)
(* that their output is meant for.                                         *)
(*                                                                         *)
(* An admin runs the call that format-vk prints for a key file; a prover   *)
(* has check-nullifier print the nullifier of its files, and it or another *)
(* submits files with the SDK.  The registry decodes the words it gets by  *)
(* the convention of its host, and keeps what it has accepted.             *)
(***************************************************************************)
EXTENDS Naturals, Sequences

CONSTANTS
  Number,        \* the number that each text of a public signal stands for
  NotANumber,    \* of a text that is none
  ScalarModulus, \* BN254_FIELD_MODULUS of proof.ts: the field of public inputs
  KeyFiles,      \* verification keys: [beta : a G2 point, ic : G1 points]
  ProofFiles,    \* proofs: [a : a G1 point, b : a G2 point]
  SignalFiles,   \* lists of texts
  Genuine,       \* <<key, numbers, proof>> that satisfy the pairing equation
  CircuitIds,
  NoFile        \* nothing registered, printed or submitted; a command that throws

\* A G1 point is <<x, y>>, a G2 point <<<<x0, x1>>, <<y0, y1>>>>, its coordinates
\* numbers of the curve's base field, which is a little larger than the scalar field.
G1 == Nat \X Nat
G2 == G1 \X G1
EncodedProofs == [a : G1, b : Nat \X Nat \X Nat \X Nat, publicInputs : Seq(Nat)]
ASSUME ScalarAssumption == ScalarModulus \in Nat \ {0}
ASSUME FilesAssumption ==
  /\ NotANumber \notin Nat /\ NoFile \notin EncodedProofs
  /\ Number \in [DOMAIN Number -> Nat \cup {NotANumber}]
  /\ KeyFiles \subseteq [beta : G2, ic : Seq(G1)]
  /\ ProofFiles \subseteq [a : G1, b : G2]
  /\ SignalFiles \subseteq Seq(DOMAIN Number)
\* The equation has one point of the key for each public input, and one more.
ASSUME GenuineAssumption ==
  \A vk \in KeyFiles, proof \in ProofFiles, signals \in SignalFiles :
    LET numbers == [i \in DOMAIN signals |-> Number[signals[i]]]
    IN  <<vk, numbers, proof>> \in Genuine => Len(numbers) + 1 = Len(vk.ic)

VARIABLES
  vkOf,              \* the key the registry has for each circuit, decoded, or NoFile
  settled,           \* the registry's nullifiers
  printedNullifier,  \* what check-nullifier printed last: [id, numbers, nullifier]
  registeredFrom,    \* history: the key file behind each key
  accepted,          \* history: circuits and numbers that were accepted
  submission         \* history: the last submission, its files and the answer

commandVars == <<vkOf, settled, printedNullifier, registeredFrom, accepted, submission>>

----------------------------------------------------------------------------
\* parseFieldElement, on public signals and on coordinates alike.
Parses(signal) == Number[signal] # NotANumber /\ Number[signal] < ScalarModulus
ParsesG1(point) == \A i \in 1..2 : point[i] < ScalarModulus
ParsesG2(point) == ParsesG1(point[1]) /\ ParsesG1(point[2])

EncodeG1(point) == point

\* Fault: the parts of a coordinate are left in the order of the file.
EncodeG2InFileOrder(point) == point[1] \o point[2]

\* The second part of each coordinate first.
EncodeG2(point) == <<point[1][2], point[1][1], point[2][2], point[2][1]>>

Numbers(signals) == [i \in DOMAIN signals |-> Number[signals[i]]]

EncodePublicInputs(signals) == Numbers(signals)

EncodeProof(proof, signals) ==
  IF ParsesG1(proof.a) /\ ParsesG2(proof.b) /\ \A i \in DOMAIN signals : Parses(signals[i])
    THEN [a |-> EncodeG1(proof.a), b |-> EncodeG2(proof.b),
          publicInputs |-> EncodePublicInputs(signals)]
    ELSE NoFile

FormatVerifyingKey(vk) ==
  IF ParsesG2(vk.beta) /\ vk.ic # <<>> /\ \A i \in DOMAIN vk.ic : ParsesG1(vk.ic[i])
    THEN [beta |-> EncodeG2(vk.beta), ic |-> [i \in DOMAIN vk.ic |-> EncodeG1(vk.ic[i])]]
    ELSE NoFile

\* snarkjs on the files as they are; it takes no signal past the scalar field.
VerifyOffChain(proof, signals, vk) ==
  (\A i \in DOMAIN signals : Parses(signals[i])) /\ <<vk, Numbers(signals), proof>> \in Genuine

\* The host reads a G2 point with the second part of each coordinate first.
ReadG1(words) == words
ReadG2(words) == <<<<words[2], words[1]>>, <<words[4], words[3]>>>>

InputsHash(publicInputs) == <<"sha256", publicInputs>>
\* Fault: the circuit id is left out of the hash.
CheckedNullifierUnscoped(id, publicInputs) == <<"sha256", InputsHash(publicInputs)>>

\* check-nullifier's own computation, apart from nullifier.ts.
CheckedNullifier(id, publicInputs) == <<"sha256", id, InputsHash(publicInputs)>>

ContractNullifier(id, publicInputs) == <<"sha256", id, InputsHash(publicInputs)>>

\* verify_proof of an active circuit: not settled, as many inputs as the key takes,
\* and the pairing equation.
RegistryAccepts(id, calldata) ==
  /\ vkOf[id] # NoFile
  /\ ContractNullifier(id, calldata.publicInputs) \notin settled
  /\ Len(calldata.publicInputs) + 1 = Len(vkOf[id].ic)
  /\ <<vkOf[id], calldata.publicInputs, [a |-> ReadG1(calldata.a), b |-> ReadG2(calldata.b)]>>
       \in Genuine

----------------------------------------------------------------------------
\* format-vk on a key file, and the admin runs the call that it prints.
FormatVk(id, vk) ==
  LET printed == FormatVerifyingKey(vk)
  IN
  /\ printed # NoFile
  /\ vkOf' = [vkOf EXCEPT ![id] =
       [beta |-> ReadG2(printed.beta), ic |-> [i \in DOMAIN printed.ic |-> ReadG1(printed.ic[i])]]]
  /\ registeredFrom' = [registeredFrom EXCEPT ![id] = vk]
  /\ UNCHANGED <<settled, printedNullifier, accepted, submission>>

CheckNullifier(id, proof, signals) ==
  LET calldata == EncodeProof(proof, signals)
  IN
  /\ calldata # NoFile
  /\ printedNullifier' = [id |-> id, numbers |-> Numbers(signals),
                          nullifier |-> CheckedNullifier(id, calldata.publicInputs)]
  /\ UNCHANGED <<vkOf, settled, registeredFrom, accepted, submission>>

\* formatProof in the SDK, and the registry's answer; what does not encode is not sent.
Submit(id, proof, signals) ==
  LET calldata == EncodeProof(proof, signals)
      success == calldata # NoFile /\ RegistryAccepts(id, calldata)
  IN
  /\ submission' = [id |-> id, proof |-> proof, signals |-> signals, success |-> success,
                    repeated |-> <<id, Numbers(signals)>> \in accepted,
                    vk |-> registeredFrom[id]]
  /\ settled' = IF success THEN settled \cup {ContractNullifier(id, calldata.publicInputs)}
                ELSE settled
  /\ accepted' = IF success THEN accepted \cup {<<id, Numbers(signals)>>} ELSE accepted
  /\ UNCHANGED <<vkOf, printedNullifier, registeredFrom>>

CommandInit ==
  /\ vkOf = [id \in CircuitIds |-> NoFile] /\ registeredFrom = vkOf
  /\ settled = {} /\ accepted = {}
  /\ printedNullifier = NoFile /\ submission = NoFile

CommandNext ==
  \E id \in CircuitIds :
    \/ \E vk \in KeyFiles : FormatVk(id, vk)
    \/ \E proof \in ProofFiles, signals \in SignalFiles :
         CheckNullifier(id, proof, signals) \/ Submit(id, proof, signals)

CommandSpec == CommandInit /\ [][CommandNext]_commandVars

----------------------------------------------------------------------------
\* The registry, under a key that format-vk printed, accepts a submission of the
\* SDK exactly when verifyOffChain accepts the same files under the key file and
\* the circuit has not accepted the same numbers before, whatever texts they were
\* written as - but for a proof with a coordinate past the scalar field, which
\* parseFieldElement refuses (proof.ts:18-40, 46-89, 179-223; lib.rs:303-340).
OffChainForetells ==
  submission # NoFile /\ submission.vk # NoFile =>
    LET s == submission
        offChain == VerifyOffChain(s.proof, s.signals, s.vk)
    IN  /\ s.success => offChain /\ ~s.repeated
        /\ offChain /\ ~s.repeated /\ ParsesG1(s.proof.a) /\ ParsesG2(s.proof.b) => s.success

\* A nullifier that check-nullifier printed is found among the registry's exactly
\* from the moment the registry accepts those numbers for that circuit, from these
\* files or others (cli.ts:221-259 against lib.rs:342-358).
PrintedNullifierIsTheRegistrys ==
  printedNullifier # NoFile =>
    (printedNullifier.nullifier \in settled
       <=> <<printedNullifier.id, printedNullifier.numbers>> \in accepted)

=============================================================================
