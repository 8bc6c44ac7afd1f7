----------------------------- MODULE MCVerifier -----------------------------
(* Small instances of Verifier for TLC. *)
EXTENDS Verifier, TLC

CONSTANTS alice, bob, carol, c1, c2, noAccount, codeA, codeB, k1, k2,
          good, bad, short, offcurve

\* k1 fits the contract; k2 has the shape of another circuit's key.
MCIcLen == [k \in Keys |-> IF k = k1 THEN 2 ELSE 3]

\* The good proof satisfies the equation, the bad one does not, and the host
\* refuses the points of every other one.
MCPairing ==
  [q \in Keys \X Proofs \X Words |->
    IF q[2] = good THEN "accept" ELSE IF q[2] = bad THEN "reject" ELSE "trap"]

\* Vectors of a signal 1 and an expiry ledger: soon and far.
Expiring == {<<1, 1>>, <<1, U32Max>>}

\* One vector, that stays good.
Timely == {<<1, U32Max>>}

Limited(max, size) == [maxCalls |-> max, windowSize |-> size]
OneInTwo == Limited(1, 2)
TwoInTwo == Limited(2, 2)
TwoInThree == Limited(2, 3)
=============================================================================
