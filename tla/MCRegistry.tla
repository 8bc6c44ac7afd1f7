----------------------------- MODULE MCRegistry -----------------------------
(* Small instances of Registry for TLC. *)
EXTENDS RegistryRefinement, TLC

CONSTANTS alice, bob, carol, noAccount, codeA, codeB, k1, k2, k3, noKey,
          good, bad, short, w1

\* Keys for circuits of one public input.
SameIcLen == [k \in Keys |-> 2]
SharedInput == {<<w1>>}

\* k3 is the key of a circuit without public inputs.
MixedIcLen == [k \in Keys |-> IF k = k3 THEN 1 ELSE 2]

\* The good proof satisfies the equation, the bad one does not, and a part of
\* the short one has the wrong length.
MCPairing ==
  [q \in Keys \X Proofs \X Inputs |->
    CASE q[2] = good -> "accept" [] q[2] = bad -> "reject" [] q[2] = short -> "trap"]
=============================================================================
