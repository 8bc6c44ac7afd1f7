------------------------- MODULE RegistryRefinement -------------------------
(* The registry implements the single-use ledger of SingleUse. *)
EXTENDS Registry

\* A removed circuit keeps its key in storage and accepts nothing under it.
EffectiveKey == [id \in Ids |-> IF active[id] THEN circuit[id] ELSE NoKey]

ProvableUnder ==
  {q \in Keys \X Inputs :
     /\ Len(q[2]) + 1 = IcLen[q[1]]
     /\ \E proof \in Proofs : Pairing[q[1], proof, q[2]] = "accept"}

SU == INSTANCE SingleUse
        WITH Provable <- ProvableUnder, key <- EffectiveKey, uses <- accepted

\* Every call on the registry is, for its circuits and its accepted inputs, one
\* step of the single-use ledger or none: what a batch accepts settles together,
\* each pair for the first time and under a key its circuit holds (verify_proof,
\* verify_batch, register_circuit, remove_circuit).
ImplementsSingleUse == SU!SUSpec

-----------------------------------------------------------------------------
(* The inductive invariant behind the properties of Registry. *)

\* A set of nullifiers and a count of successes tell the same story.
Agree(burned, count) ==
  \A p \in Pairs : NullifierOf(p) \in burned <=> count[p] = 1

AtMostOnceIn(count) == \A p \in Pairs : count[p] <= 1

\* What a running batch has added to the counts is new and provable under a key
\* that accepts proofs.
BatchAddsProvable ==
  \A p \in Pairs :
    wAccepted[p] # accepted[p] =>
      /\ accepted[p] = 0
      /\ active[p[1]]
      /\ <<circuit[p[1]], p[2]>> \in ProvableUnder

\* The nullifiers a running batch has added are those of its acceptable entries.
BatchBurnsAcceptable ==
  /\ nullifiers \subseteq wNullifiers
  /\ \A i \in 1..Len(results) :
       Acceptable(batch[i]) => NullifierOf(PairOf(batch[i])) \in wNullifiers
  /\ \A n \in wNullifiers \ nullifiers :
       \E i \in 1..Len(results) : Acceptable(batch[i]) /\ NullifierOf(PairOf(batch[i])) = n

RunningBatch ==
  running =>
    /\ Len(results) <= Len(batch)
    /\ Agree(wNullifiers, wAccepted)
    /\ AtMostOnceIn(wAccepted)
    /\ BatchAddsProvable
    /\ BatchBurnsAcceptable

IInv ==
  /\ TypeOK
  /\ archived \subseteq nullifiers
  /\ AtMostOnce
  /\ Agree(nullifiers, accepted)
  /\ ActiveHasKey
  /\ NominationByCurrentAdmin
  /\ RunningBatch
  /\ BatchAnswers
=============================================================================
