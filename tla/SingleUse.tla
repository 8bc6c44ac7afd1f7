----------------------------- MODULE SingleUse ------------------------------
(***************************************************************************)
(* What the registry promises, without contracts, calls or batches: a      *)
(* ledger on which a pair of a circuit and its public inputs is settled at *)
(* most once, under the key the circuit has at that moment, and several    *)
(* pairs may settle in one step.                                           *)
(***************************************************************************)
EXTENDS Naturals

CONSTANTS
  Ids, Inputs, Keys, NoKey,
  Provable       \* pairs of a key and inputs that some proof shows

VARIABLES
  key,           \* the key a circuit accepts proofs under, or NoKey
  uses           \* how often a pair was settled

SUPairs == Ids \X Inputs

SUInit ==
  /\ key = [id \in Ids |-> NoKey]
  /\ uses = [p \in SUPairs |-> 0]

SetKey(id, k) ==
  /\ key' = [key EXCEPT ![id] = k]
  /\ UNCHANGED uses

Settle(S) ==
  /\ \A p \in S :
       /\ uses[p] = 0
       /\ key[p[1]] # NoKey
       /\ <<key[p[1]], p[2]>> \in Provable
  /\ uses' = [p \in SUPairs |-> IF p \in S THEN 1 ELSE uses[p]]
  /\ UNCHANGED key

SUNext ==
  \/ \E id \in Ids, k \in Keys \cup {NoKey} : SetKey(id, k)
  \/ \E S \in SUBSET SUPairs : Settle(S)

SUSpec == SUInit /\ [][SUNext]_<<key, uses>>
=============================================================================
