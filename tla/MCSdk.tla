------------------------------- MODULE MCSdk -------------------------------
(***************************************************************************)
(* Small instances of the parts of the SDK that work on data alone.  They  *)
(* share no state, so TLC explores one part at a time while the others     *)
(* rest, and the run is the sum of small ones.                             *)
(***************************************************************************)
EXTENDS MerkleTree, ProofExpiry, ProofBundle, VerificationHistory, Commitments, CommandLine

VARIABLE part   \* the part that moves

MCElements == {<<"field", 0>>, <<"field", 1>>}
MCZeroLeaf == <<"field", 0>>
MCHash2(a, b) == <<"poseidon", a, b>>

MCTrim == [t \in Texts |-> IF t = " c" THEN "c" ELSE t]

(* Commitments: residues of one and two among the secrets, as numbers past the  *)
(* modulus and below zero too; lists that need one piece and two.               *)
MCHash(list) == <<"poseidon", list>>
MCSecrets == {Field(1), Field(2), Field(14), Field(-12)}
MCLists == UNION {[1..n -> {Field(0), Field(1), Field(13)}] : n \in 1..4}
MCTags == {Field(1), Field(14), Field(2)}

(* Poseidon over the integers modulo 13, widths 2 and 3, with the constants     *)
(* of the schedule computed from the matrices and the round constants.          *)
MCPartialRounds == [t \in {2, 3} |-> t]
MCValues == -1..14
MCM == [t \in {2, 3} |-> IF t = 2 THEN <<<<1, 10>>, <<3, 12>>>>
                         ELSE <<<<12, 8, 4>>, <<3, 7, 2>>, <<4, 9, 5>>>>]
MCP == [t \in {2, 3} |-> IF t = 2 THEN <<<<1, 10>>, <<3, 12>>>>
                         ELSE <<<<12, 3, 12>>, <<3, 9, 1>>, <<4, 11, 8>>>>]
MCC == [t \in {2, 3} |->
  IF t = 2 THEN <<1, 8, 10, 11, 2, 4, 4, 8, 9, 4, 8, 9, 4, 0, 10, 5, 7, 0>>
  ELSE <<3, 3, 5, 0, 1, 4, 2, 6, 2, 2, 4, 8, 5, 7, 1, 9, 10, 5, 10, 11, 0, 6, 2, 6, 6, 3, 3>>]
MCS == [t \in {2, 3} |-> IF t = 2 THEN <<1, 3, 3, 1, 10, 10>>
                         ELSE <<12, 9, 0, 6, 0, 12, 11, 3, 1, 10, 12, 5, 10, 8, 4>>]
MCRC == [t \in {2, 3} |->
  IF t = 2 THEN <<<<1, 8>>, <<4, 11>>, <<1, 3>>, <<2, 6>>, <<8, 4>>, <<7, 9>>, <<2, 10>>,
                  <<4, 1>>, <<12, 4>>, <<7, 5>>>>
  ELSE <<<<3, 3, 5>>, <<6, 4, 9>>, <<11, 11, 4>>, <<3, 12, 4>>, <<7, 5, 1>>, <<6, 7, 3>>,
         <<3, 5, 2>>, <<6, 5, 10>>, <<10, 1, 10>>, <<11, 12, 6>>, <<2, 5, 6>>>>]

\* What the schedule of the instance is folded by.
MCTurn == [t \in {2, 3} |->
  IF t = 2 THEN <<<<<<1, 0>>, <<0, 1>>>>, <<<<1, 0>>, <<0, 12>>>>, <<<<1, 0>>, <<0, 1>>>>>>
  ELSE <<<<<<1, 0, 0>>, <<0, 9, 12>>, <<0, 7, 2>>>>, <<<<1, 0, 0>>, <<0, 2, 4>>, <<0, 11, 4>>>>,
         <<<<1, 0, 0>>, <<0, 7, 9>>, <<0, 2, 5>>>>, <<<<1, 0, 0>>, <<0, 1, 0>>, <<0, 0, 1>>>>>>]
MCShift == [t \in {2, 3} |-> IF t = 2 THEN <<<<8, 8>>, <<7, 11>>, <<2, 10>>>>
                             ELSE <<<<7, 7, 0>>, <<6, 12, 9>>, <<3, 0, 2>>, <<6, 5, 10>>>>]
ASSUME InstanceFolds == ScheduleFolds(MCTurn, MCShift)

(* Commands: two texts of one number, one past the scalar modulus and one that  *)
(* is none; keys and proofs with a coordinate past that modulus.                *)
MCNumber == [t \in {"1", "01", "2", "13", "x"} |->
  CASE t = "x" -> NotANumber [] t = "2" -> 2 [] t = "13" -> 13 [] OTHER -> 1]
KeyWith(n) == [beta |-> <<<<n, 2>>, <<3, 4>>>>, ic |-> <<<<1, 2>>, <<3, 5>>>>]
ProofAt(x) == [a |-> <<x, 1>>, b |-> <<<<5, 6>>, <<7, 8>>>>]
MCKeyFiles == {KeyWith(1), KeyWith(2), KeyWith(14)}
MCProofFiles == {ProofAt(0), ProofAt(1), ProofAt(14)}
MCSignalFiles == {<<"1">>, <<"01">>, <<"2">>, <<"13">>, <<"x">>, <<"1", "1">>}
MCGenuine == {<<KeyWith(1), <<1>>, ProofAt(0)>>, <<KeyWith(1), <<1>>, ProofAt(14)>>,
              <<KeyWith(2), <<1>>, ProofAt(1)>>, <<KeyWith(2), <<2>>, ProofAt(1)>>}

Init ==
  /\ part \in {"merkle", "expiry", "bundle", "history", "poseidon", "identity",
               "circuits", "digests", "commands"}
  /\ MerkleInit /\ ExpiryInit /\ BundleInit /\ HistoryInit
  /\ PoseidonInit /\ CommitmentInit /\ CommandInit
  /\ part # "merkle" => tree = Tree(<<ZeroLeaf>>)
  /\ part # "history" => limit = 1 /\ filter = NoFilter

Next ==
  /\ UNCHANGED part
  /\ IF part = "merkle" THEN MerkleNext ELSE UNCHANGED merkleVars
  /\ IF part = "expiry" THEN ExpiryNext ELSE UNCHANGED expiryVars
  /\ IF part = "bundle" THEN BundleNext ELSE UNCHANGED bundleVars
  /\ IF part = "history" THEN HistoryNext ELSE UNCHANGED historyVars
  /\ IF part = "poseidon" THEN PoseidonNext ELSE UNCHANGED poseidonVars
  /\ IF part = "commands" THEN CommandNext ELSE UNCHANGED commandVars
  /\ \/ part = "identity" /\ IdentityNext
     \/ part = "circuits" /\ CircuitNext
     \/ part = "digests" /\ DigestNext
     \/ part \notin {"identity", "circuits", "digests"} /\ UNCHANGED commitmentVars

Spec == Init /\ [][Next]_<<part, merkleVars, expiryVars, bundleVars, historyVars, poseidonVars,
                          commitmentVars, commandVars>>
=============================================================================
