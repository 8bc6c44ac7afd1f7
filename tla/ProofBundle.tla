---------------------------- MODULE ProofBundle ----------------------------
(***************************************************************************)
(* Proof bundles: sdk/src/bundle.ts, sdk/src/bundleIO.ts and the           *)
(* decode-bundle command of sdk/src/cli.ts.                                *)
(*                                                                         *)
(* A bundle is made, signed and exported to a file; anyone may edit the    *)
(* file; who imports it holds the bundle from then on and may export it    *)
(* again.  JSON and Base64 carry every field unchanged, so a file is the   *)
(* record it decodes to, and text that does not parse is no file.          *)
(***************************************************************************)
EXTENDS Naturals, FiniteSets

CONSTANTS
  Proofs,       \* kinds of proof and of public signals: "good" and "other"
  Signals,      \* encode, "noField" has a part that is no field element,
                \* "misshapen" lacks one
  Circuits,     \* circuit names in bundles, with and without outer spaces
  Networks,     \* network passphrases
  Times,        \* generatedAt texts
  Trim,         \* String.prototype.trim on these texts
  Blank,        \* the empty text
  Now,          \* the time createBundle fills in for a bundle that is signed
  Later,        \* the one it fills in for decode-bundle, when the clock has moved on
  Absent,       \* a field that is missing
  Nothing,      \* no bundle, no file yet
  MaxEdits,     \* bound: edits of one export
  MaxSigned     \* bound: different contents signed over time

Texts == Circuits \cup Networks \cup Times \cup {Blank, Now, Later}

ASSUME ValuesAssumption ==
  Proofs \cup Signals \subseteq {"good", "other", "noField", "misshapen"}
ASSUME TrimAssumption ==
  /\ Trim \in [Texts -> Texts] /\ Trim[Now] # Blank /\ Trim[Blank] = Blank
  /\ \A t \in Texts : Trim[Trim[t]] = Trim[t]
  /\ \A c \in Circuits : Trim[c] \in Circuits
ASSUME MarkersAssumption == Absent \notin Texts /\ Now \notin Times /\ Later \notin Times \cup {Now}
ASSUME BoundsAssumption == MaxEdits \in Nat /\ MaxSigned \in Nat

Encodable(c) == {c.proof, c.publicSignals} \subseteq {"good", "other"}

Contents ==
  [proof : Proofs, publicSignals : Signals, circuit : Circuits \cup {Absent},
   generatedAt : Times \cup {Absent, Now}, networkPassphrase : Networks \cup {Absent}]

VARIABLES
  bundle,   \* the SignedBundle in memory, or Nothing
  file,     \* what the file decodes to, or Nothing
  edits,    \* edits of the file since it was exported
  signed,   \* history: contents that signBundle was called on
  made,     \* history: bundle is one that createBundle and signBundle made, its
            \* time not blank: createBundle takes a blank one, import refuses it
  genuine   \* history: file is such a bundle, exported and not edited

bundleVars == <<bundle, file, edits, signed, made, genuine>>

NonEmpty(text) == text # Absent /\ Trim[text] # Blank

Content(b) ==
  [proof |-> b.proof, publicSignals |-> b.publicSignals, circuit |-> b.circuit,
   generatedAt |-> b.generatedAt, networkPassphrase |-> b.networkPassphrase]

\* The digest field: none, the empty string, or the digest of some content.
NoDigest == <<"none">>
EmptyDigest == <<"empty">>

WithDigest(c, digest) ==
  [proof |-> c.proof, publicSignals |-> c.publicSignals, circuit |-> c.circuit,
   generatedAt |-> c.generatedAt, networkPassphrase |-> c.networkPassphrase,
   digest |-> digest]

\* Fault: the digest leaves the network out.
BundleDigestSansNetwork(c) ==
  <<"sha256", [Content(c) EXCEPT !.networkPassphrase = Absent]>>

\* Fault: everything in the bundle is digested, an earlier digest included.
BundleDigestOfAll(c) == <<"sha256", c>>

\* sha256 over the five content fields, taken free of collisions.
BundleDigest(c) == <<"sha256", Content(c)>>

SignBundle(c) == WithDigest(c, BundleDigest(c))

TextsPresent(b) ==
  NonEmpty(b.circuit) /\ NonEmpty(b.generatedAt) /\ NonEmpty(b.networkPassphrase)

ValidateBundleShape(b) ==
  TextsPresent(b) /\ "misshapen" \notin {b.proof, b.publicSignals}

VerifyBundleIntegrity(b) ==
  /\ TextsPresent(b)
  /\ Encodable(b)
  /\ b.digest # NoDigest => b.digest = BundleDigest(b)

\* The inputs createBundle does not throw on, and what it returns.
Creatable(c) == Encodable(c) /\ NonEmpty(c.circuit) /\ NonEmpty(c.networkPassphrase)

CreateBundle(c, at) ==
  [proof |-> c.proof, publicSignals |-> c.publicSignals, circuit |-> Trim[c.circuit],
   generatedAt |-> IF c.generatedAt = Absent THEN at ELSE c.generatedAt,
   networkPassphrase |-> c.networkPassphrase]

Refused == [bundle |-> Nothing, integrityVerified |-> FALSE]

ImportSignedBundle(b) ==
  IF ~ValidateBundleShape(b) \/ (b.digest # NoDigest /\ ~VerifyBundleIntegrity(b))
    THEN Refused
  ELSE IF b.digest # NoDigest THEN [bundle |-> b, integrityVerified |-> TRUE]
  ELSE [bundle |-> SignBundle(b), integrityVerified |-> FALSE]

\* Fault: the bundle made anew is signed anew.
DecodeBundleResigned(b) ==
  /\ Creatable(Content(b))
  /\ VerifyBundleIntegrity(SignBundle(CreateBundle(Content(b), Later)))

\* Whether the decode-bundle command reports the file as sound; it checks a
\* bundle made anew from the file, and takes an empty digest for none.
DecodeBundle(b) ==
  /\ Creatable(Content(b))
  /\ VerifyBundleIntegrity(
       WithDigest(CreateBundle(Content(b), Later),
                  IF b.digest = EmptyDigest THEN NoDigest ELSE b.digest))

----------------------------------------------------------------------------
Sign(c) ==
  /\ Creatable(c)
  /\ signed' = signed \cup {CreateBundle(c, Now)}
  /\ Cardinality(signed') <= MaxSigned
  /\ bundle' = SignBundle(CreateBundle(c, Now))
  /\ made' = NonEmpty(CreateBundle(c, Now).generatedAt)
  /\ UNCHANGED <<file, edits, genuine>>

\* bundleToJson and bundleToBase64, of the bundle with or without its digest.
\* The model follows the file from here on.
Export ==
  /\ bundle # Nothing
  /\ \/ file' = bundle /\ genuine' = made
     \/ file' = WithDigest(bundle, NoDigest) /\ genuine' = FALSE
  /\ edits' = 0
  /\ bundle' = Nothing
  /\ UNCHANGED <<signed, made>>

Digests == {NoDigest, EmptyDigest} \cup {BundleDigest(c) : c \in signed}

EditFile ==
  /\ file # Nothing /\ edits < MaxEdits
  /\ \/ \E v \in Proofs : file' = [file EXCEPT !.proof = v]
     \/ \E v \in Signals : file' = [file EXCEPT !.publicSignals = v]
     \/ \E c \in Circuits \cup {Absent} : file' = [file EXCEPT !.circuit = c]
     \/ \E t \in Times \cup {Absent} : file' = [file EXCEPT !.generatedAt = t]
     \/ \E n \in Networks \cup {Absent} : file' = [file EXCEPT !.networkPassphrase = n]
     \/ \E d \in Digests : file' = [file EXCEPT !.digest = d]
  /\ edits' = edits + 1
  /\ genuine' = FALSE
  /\ UNCHANGED <<bundle, signed, made>>

\* importSignedBundle; a file without a digest is signed on the way.
Import ==
  /\ file # Nothing
  /\ ImportSignedBundle(file) # Refused
  /\ bundle' = ImportSignedBundle(file).bundle
  /\ signed' = IF ImportSignedBundle(file).integrityVerified
                 THEN signed ELSE signed \cup {Content(file)}
  /\ Cardinality(signed') <= MaxSigned
  /\ made' = genuine
  /\ UNCHANGED <<file, edits, genuine>>

BundleInit ==
  /\ bundle = Nothing /\ file = Nothing /\ edits = 0
  /\ signed = {} /\ made = FALSE /\ genuine = FALSE

BundleNext ==
  \/ \E c \in Contents : Sign(c)
  \/ Export \/ EditFile \/ Import

BundleSpec == BundleInit /\ [][BundleNext]_bundleVars

----------------------------------------------------------------------------
\* integrityVerified is answered only for a content that was signed as a whole:
\* no edit of a field, and no digest moved from another bundle, passes
\* (bundle.ts:143-155, 222-264; bundleIO.ts:276-287).
VerifiedWasSigned ==
  file # Nothing /\ ImportSignedBundle(file).integrityVerified
    => Content(file) \in signed

\* A bundle that createBundle and signBundle made comes through any number of
\* exports and imports: import verifies it and changes nothing, and
\* decode-bundle calls it sound (bundleIO.ts:248-291, cli.ts:165-208).
OwnBundlesRoundTrip ==
  genuine =>
    /\ ImportSignedBundle(file) = [bundle |-> file, integrityVerified |-> TRUE]
    /\ DecodeBundle(file)

\* The file with the outer spaces of its circuit name trimmed.
Trimmed(b) == IF b.circuit = Absent THEN b ELSE [b EXCEPT !.circuit = Trim[@]]

\* decode-bundle says of a file with a digest, whoever edited it, what import would
\* say of the same file with its circuit name trimmed, so what it calls sound was
\* signed; of a bundle that import verifies they differ exactly when its name was
\* signed with outer spaces.  A file whose digest was emptied, which decode-bundle
\* takes for one without, import refuses (cli.ts:165-208, bundleIO.ts:248-291).
CommandAgreesWithImport ==
  file # Nothing /\ file.digest # NoDigest =>
    IF file.digest = EmptyDigest THEN ImportSignedBundle(file) = Refused
    ELSE /\ DecodeBundle(file) <=> ImportSignedBundle(Trimmed(file)).integrityVerified
         /\ DecodeBundle(file) => Content(Trimmed(file)) \in signed
         /\ ImportSignedBundle(file).integrityVerified
              => (DecodeBundle(file) <=> Trim[file.circuit] = file.circuit)
=============================================================================
