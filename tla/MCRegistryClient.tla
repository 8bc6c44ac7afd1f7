-------------------------- MODULE MCRegistryClient --------------------------
(* A small instance of RegistryClient for TLC. *)
EXTENDS RegistryClient, TLC

CONSTANTS alice, noAccount, codeA, k1, k2, noKey, good, short, w1, u, v

SameIcLen == [k \in Keys |-> 2]
SharedInput == {<<w1>>}

\* The good proof satisfies the equation, and a part of the short one has the
\* wrong length.
MCPairing ==
  [q \in Keys \X Proofs \X Inputs |-> IF q[2] = good THEN "accept" ELSE "trap"]
=============================================================================
