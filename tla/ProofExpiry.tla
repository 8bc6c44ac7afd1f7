---------------------------- MODULE ProofExpiry ----------------------------
(***************************************************************************)
(* The expiry of a proof as sdk/src/metadata.ts plans it, sdk/src/proof.ts *)
(* encodes it and contracts/verifier enforces it, over the passing of time *)
(* and of ledgers.                                                         *)
(*                                                                         *)
(* An application reads the current ledger, chooses an expiry from what it *)
(* read, generates the proof and its metadata some time later, asks the    *)
(* metadata whether the proof can still be submitted, and the contract     *)
(* decides at the ledger that runs the call.  The SDK reckons with the     *)
(* average time between ledgers; the network may be faster or slower, and  *)
(* all that is known of it is a least time between two ledgers.            *)
(***************************************************************************)
EXTENDS Integers, Sequences

CONSTANTS
  CloseTime,   \* LEDGER_CLOSE_TIME_SECONDS, the average the SDK reckons with
  LeastGap,    \* the least time between two ledgers of the network, in seconds
  Ttls,        \* values of ttlSeconds an application asks for
  Expiries,    \* expiry ledgers an application names itself
  NoExpiry,    \* expiryLedger is undefined
  Unset,       \* no metadata, or no answer, yet
  LedgerEnd,   \* the largest u32
  Start,       \* bound: the first ledger of the model
  MaxNow       \* bound: the last second of the model

ASSUME CloseTimeAssumption == CloseTime \in Nat \ {0} /\ LeastGap \in Nat
ASSUME TtlsAssumption == Ttls \subseteq Nat \ {0}
ASSUME LedgersAssumption ==
  LedgerEnd \in Nat /\ Start \in 0..LedgerEnd /\ Expiries \subseteq 0..LedgerEnd
ASSUME ExpiryAssumption == NoExpiry \notin Nat /\ MaxNow \in Nat

VARIABLES
  now,        \* wall-clock seconds
  sequence,   \* the last closed ledger
  closedAt,   \* when it closed
  read,       \* the application's currentLedger, and when it read it
  planned,    \* expiryLedger, NoExpiry or Unset, and the time to live asked for
  meta,       \* the ProofMetadata, or Unset
  inputs,     \* the public inputs formatProof encoded
  asked       \* the last precheck: at which ledger, and what it said

expiryVars == <<now, sequence, closedAt, read, planned, meta, inputs, asked>>

----------------------------------------------------------------------------
\* Fault: a remainder of less than a ledger is dropped.
RecommendExpiryLedgerFloor(currentLedger, ttlSeconds) ==
  LET expiry == currentLedger + ttlSeconds \div CloseTime
  IN  IF expiry > LedgerEnd THEN LedgerEnd ELSE expiry

RecommendExpiryLedger(currentLedger, ttlSeconds) ==
  LET expiry == currentLedger + (ttlSeconds + CloseTime - 1) \div CloseTime
  IN  IF expiry > LedgerEnd THEN LedgerEnd ELSE expiry

\* Fault: the expiry ledger is counted in full after the current one.
EstimateExpiryDateInclusive(expiryLedger, currentLedger, from) ==
  from + (expiryLedger - currentLedger + 1) * CloseTime

EstimateExpiryDate(expiryLedger, currentLedger, from) ==
  from + (expiryLedger - currentLedger) * CloseTime

\* Fault: the proof is taken for expired on its last ledger.
IsProofExpiredEarly(expiryLedger, currentLedger) ==
  expiryLedger # NoExpiry /\ currentLedger >= expiryLedger

IsProofExpired(expiryLedger, currentLedger) ==
  expiryLedger # NoExpiry /\ currentLedger > expiryLedger

\* NoExpiry stands for Infinity.
LedgersUntilExpiry(expiryLedger, currentLedger) ==
  IF expiryLedger = NoExpiry THEN NoExpiry
  ELSE IF expiryLedger > currentLedger THEN expiryLedger - currentLedger ELSE 0

\* The circuit's own public signal, then the expiry when there is one.
FormatProof(expiryLedger) ==
  IF expiryLedger = NoExpiry THEN <<"signal">> ELSE <<"signal", expiryLedger>>

\* verify_one on a proof that satisfies the pairing equation.
ContractAccepts(publicInputs, atLedger) ==
  Len(publicInputs) = 2 /\ ~(atLedger > publicInputs[2])

----------------------------------------------------------------------------
Tick ==
  /\ now < MaxNow
  /\ now' = now + 1
  /\ UNCHANGED <<sequence, closedAt, read, planned, meta, inputs, asked>>

\* Ledgers close LeastGap apart at the earliest, and may be late.
CloseLedger ==
  /\ sequence < LedgerEnd
  /\ now - closedAt >= LeastGap
  /\ sequence' = sequence + 1
  /\ closedAt' = now
  /\ UNCHANGED <<now, read, planned, meta, inputs, asked>>

ReadLedger ==
  /\ meta = Unset /\ planned = Unset
  /\ read' = [ledger |-> sequence, at |-> now]
  /\ UNCHANGED <<now, sequence, closedAt, planned, meta, inputs, asked>>

\* recommendExpiryLedger, an expiry of the application's own, or none.
Plan ==
  /\ planned = Unset /\ read # Unset
  /\ \/ \E ttl \in Ttls :
          planned' = [expiryLedger |-> RecommendExpiryLedger(read.ledger, ttl), ttl |-> ttl]
     \/ \E expiry \in Expiries \cup {NoExpiry} :
          planned' = [expiryLedger |-> expiry, ttl |-> 0]
  /\ UNCHANGED <<now, sequence, closedAt, read, meta, inputs, asked>>

\* The proof is ready: createProofMetadata, and formatProof.  The current ledger
\* it is told is the one the expiry was planned from, or one read just now;
\* reading and atLedger are history.
CreateProofMetadata ==
  /\ meta = Unset /\ planned # Unset
  /\ \E reading \in {read, [ledger |-> sequence, at |-> now]} :
       meta' = [generatedAt |-> now,
                expiryLedger |-> planned.expiryLedger,
                estimatedExpiryAt |->
                  IF planned.expiryLedger = NoExpiry THEN Unset
                  ELSE EstimateExpiryDate(planned.expiryLedger, reading.ledger, now),
                reading |-> reading,
                atLedger |-> sequence]
  /\ inputs' = FormatProof(planned.expiryLedger)
  /\ UNCHANGED <<now, sequence, closedAt, read, planned, asked>>

Precheck ==
  /\ meta # Unset
  /\ asked' = [ledger |-> sequence,
               expired |-> IsProofExpired(meta.expiryLedger, sequence),
               remaining |-> LedgersUntilExpiry(meta.expiryLedger, sequence)]
  /\ UNCHANGED <<now, sequence, closedAt, read, planned, meta, inputs>>

ExpiryInit ==
  /\ now = 0 /\ sequence = Start /\ closedAt = 0
  /\ read = Unset /\ planned = Unset /\ meta = Unset
  /\ inputs = <<>> /\ asked = Unset

ExpiryNext ==
  \/ Tick \/ CloseLedger
  \/ ReadLedger \/ Plan \/ CreateProofMetadata \/ Precheck

ExpirySpec == ExpiryInit /\ [][ExpiryNext]_expiryVars

----------------------------------------------------------------------------
HasExpiry == meta # Unset /\ meta.expiryLedger # NoExpiry

\* A proof given the expiry recommendExpiryLedger returns is accepted for the
\* whole time to live it was asked for, counted from the moment the current
\* ledger was read, however long proving took, as long as no ledger closes sooner
\* than the average; on a faster network for the same share of the time to live
\* that LeastGap is of the average (metadata.ts:241-264: rounding, clamping at
\* the largest u32; lib.rs:492).
LivesItsTimeToLive ==
  HasExpiry /\ (now - read.at) * CloseTime < planned.ttl * LeastGap
    => ContractAccepts(inputs, sequence)

\* The seconds from generatedAt to estimatedExpiryAt, and how many of them stand
\* for ledgers that had already closed when the metadata was made.
EstimatedLife == meta.estimatedExpiryAt - meta.generatedAt
StaleLife == CloseTime * (meta.atLedger - meta.reading.ledger)

\* The estimate counts ledgers from a reading and time from generatedAt, two
\* moments that proving may separate (metadata.ts:121-128, 158-166).  On a network
\* that keeps the average the contract accepts the proof for the estimated life
\* counted from the reading, and, counted from generatedAt, for what is left of it
\* without the ledgers closed in between: until the estimated date itself when the
\* reading was still current.  On a faster network both shrink in proportion.
EstimateIsSafe ==
  HasExpiry =>
    /\ (now - meta.reading.at) * CloseTime < EstimatedLife * LeastGap
         => ContractAccepts(inputs, sequence)
    /\ (now - meta.generatedAt) * CloseTime < (EstimatedLife - StaleLife) * LeastGap
         => ContractAccepts(inputs, sequence)

\* What the precheck said stays true of the contract as ledgers pass: a proof
\* called expired is never accepted again, and one with so many ledgers left is
\* accepted for exactly that many more (metadata.ts:189-218 against lib.rs:492).
PrecheckForetells ==
  HasExpiry /\ asked # Unset =>
    /\ asked.expired => ~ContractAccepts(inputs, sequence)
    /\ ~asked.expired =>
         (ContractAccepts(inputs, sequence) <=> sequence - asked.ledger <= asked.remaining)
=============================================================================
