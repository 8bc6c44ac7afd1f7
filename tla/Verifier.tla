------------------------------ MODULE Verifier ------------------------------
(***************************************************************************)
(* The single-circuit verifier, contracts/verifier/src/lib.rs: admin       *)
(* operations, pause, allowlist, the fixed-window rate limit in temporary  *)
(* storage, proof expiry and the count of verifications per commitment.    *)
(*                                                                         *)
(* A call runs alone, at one ledger sequence number.  What it wrote and    *)
(* published takes effect when it returns Ok and is dropped when it        *)
(* returns Err, panics or runs out of budget.  verify_batch is one step    *)
(* per entry over a working copy (wStore); every other call is one step.   *)
(* An admin call that returns Err or lacks its auth changes nothing and is *)
(* left out.  Error::NotInitialized cannot occur: the constructor writes   *)
(* every key that is looked up that way and no call removes one.           *)
(***************************************************************************)
EXTENDS Naturals, Sequences

CONSTANTS
  Accounts,      \* addresses that can be admin
  NoAccount,     \* the PendingAdmin key is absent
  FirstAdmin,    \* the admin given to the constructor
  Callers,       \* addresses that submit proofs
  Wasms,         \* hashes of uploaded contract code
  ThisCode,      \* the hashes whose code is this source
  FirstWasm,     \* the code the contract is deployed with
  Keys,          \* verifying keys offered to update_vk
  FirstKey,      \* the key given to the constructor
  IcLen,         \* vk.ic.len() of each key
  Proofs,        \* (proof_a, proof_b, proof_c) triples
  WellSized,     \* those whose three parts have the right lengths
  Words,         \* 32-byte public input words, as numbers
  Inputs,        \* public input vectors
  Pairing,       \* the outcome of the pairing equation
  U32Max,        \* the largest u32
  MaxCalls,      \* values of max_calls the admin chooses from
  WindowSizes,   \* values of window_size the admin chooses from
  PauseValues,   \* values of paused the admin chooses from
  ListModes,     \* values of enabled the admin chooses from
  Listable,      \* callers the admin lists and unlists
  FirstLimits,   \* the limits given to the constructor
  MinTempTtl,    \* the network's least time to live of a new temporary entry
  MaxLedger,     \* bound: the last ledger of the model
  MaxBatch       \* bound: the longest batch a caller submits

\* CIRCUIT_PUBLIC_INPUT_COUNT words of the circuit and the expiry ledger.
EXPECTED_PUBLIC_INPUT_COUNT == 2

Limits == [maxCalls : 0..U32Max, windowSize : 1..U32Max]
PairingOutcomes == {"accept", "reject", "trap"}

ASSUME AccountsAssumption ==
  NoAccount \notin Accounts \cup Callers /\ FirstAdmin \in Accounts
ASSUME WasmAssumption == FirstWasm \in ThisCode /\ ThisCode \subseteq Wasms
ASSUME KeysAssumption ==
  /\ IcLen \in [Keys -> Nat]
  /\ FirstKey \in Keys
  /\ IcLen[FirstKey] = EXPECTED_PUBLIC_INPUT_COUNT
ASSUME InputsAssumption == Words \subseteq Nat /\ Inputs \subseteq Seq(Words)
ASSUME PairingAssumption ==
  WellSized \subseteq Proofs /\ Pairing \in [Keys \X Proofs \X Words -> PairingOutcomes]
ASSUME LimitsAssumption ==
  /\ U32Max \in Nat
  /\ MaxCalls \subseteq 0..U32Max
  /\ WindowSizes \subseteq 0..U32Max
  /\ FirstLimits \in Limits
ASSUME ChoicesAssumption ==
  PauseValues \subseteq BOOLEAN /\ ListModes \subseteq BOOLEAN /\ Listable \subseteq Callers
ASSUME LedgerAssumption ==
  MinTempTtl \in Nat \ {0} /\ MaxLedger \in 0..U32Max /\ MaxBatch \in Nat

VARIABLES
  ledger,            \* env.ledger().sequence()
  admin,             \* DataKey::Admin
  pendingAdmin,      \* DataKey::PendingAdmin, or NoAccount
  wasm,              \* the executable the contract runs
  limits,            \* DataKey::Limits
  vk,                \* DataKey::Vk
  allowlistEnabled,  \* DataKey::AllowlistEnabled, FALSE when absent
  allowlist,         \* the addresses with a DataKey::Allowlist entry
  paused,            \* DataKey::Paused, FALSE when absent
  store,             \* what verification calls write, see Stores
  running,           \* a verify_batch call is being executed
  caller,            \* its caller argument, NoAccount when none runs
  batch,             \* its proofs argument
  wStore,            \* its working copy of store
  results,           \* the vec it has built so far
  events,            \* the events it has published so far
  hist,              \* history: see Histories
  wHist,             \* history: hist, as the running batch would leave it
  relimited,         \* history: set_limits was called in the current window
  proposer           \* history: who made the proposal now pending

adminVars == <<admin, pendingAdmin, proposer>>
policyVars == <<vk, allowlistEnabled, allowlist, paused>>
limitVars == <<limits, relimited>>
batchVars == <<running, caller, batch, wStore, results, events, wHist>>
vars == <<ledger, adminVars, wasm, policyVars, limitVars, store, hist, batchVars>>

Items == [proof : Proofs, inputs : Inputs]

\* sha256 of the concatenated words, taken free of collisions.
InputsHash(inputs) == <<"sha256", inputs>>
Commitments == {InputsHash(pi) : pi \in Inputs}

\* CallCount(caller, window_start) entries, with the ledger up to which each
\* lives, and VerificationCount(commitment).
WindowStarts == 0..MaxLedger
Slots == Callers \X WindowStarts
Stores ==
  [callCount : [Slots -> Nat],
   liveUntil : [Slots -> Nat],
   verificationCount : [Commitments -> Nat]]

\* used: attempts of a caller that the ledger charged in the current window,
\* under the current limits.  published: success events per input vector.
Histories == [used : [Callers -> Nat], published : [Inputs -> Nat]]

EmptyStore ==
  [callCount |-> [s \in Slots |-> 0],
   liveUntil |-> [s \in Slots |-> 0],
   verificationCount |-> [c \in Commitments |-> 0]]
NothingUsed == [c \in Callers |-> 0]
EmptyHist == [used |-> NothingUsed, published |-> [pi \in Inputs |-> 0]]

VerificationResult(success, who, inputs) ==
  [success |-> success, caller |-> who, inputsHash |-> InputsHash(inputs)]

-----------------------------------------------------------------------------
(* The constructor, at any ledger. *)
Init ==
  /\ ledger \in 0..MaxLedger
  /\ admin = FirstAdmin
  /\ pendingAdmin = NoAccount
  /\ proposer = NoAccount
  /\ wasm = FirstWasm
  /\ limits = FirstLimits
  /\ relimited = FALSE
  /\ vk = FirstKey
  /\ allowlistEnabled = FALSE
  /\ allowlist = {}
  /\ paused = FALSE
  /\ store = EmptyStore
  /\ hist = EmptyHist
  /\ running = FALSE
  /\ caller = NoAccount
  /\ batch = <<>>
  /\ wStore = EmptyStore
  /\ results = <<>>
  /\ events = <<>>
  /\ wHist = EmptyHist

\* A call can start: no other call is running, and the code is this code.
Idle == ~running /\ wasm \in ThisCode

\* The first ledger of the rate-limit window that a ledger belongs to.
WindowStart(l, size) == l - (l % size)
Start == WindowStart(ledger, limits.windowSize)

-----------------------------------------------------------------------------
(* Admin operations. *)

SetLimits(auth, max, size) ==
  /\ Idle
  /\ size # 0
  /\ auth = admin
  /\ limits' = [maxCalls |-> max, windowSize |-> size]
  /\ relimited' = TRUE
  /\ hist' = [hist EXCEPT !.used = NothingUsed]
  /\ UNCHANGED <<ledger, adminVars, wasm, policyVars, store, batchVars>>

\* Fault: the shape of the new key is not looked at.
UpdateVkAnyShape(auth, newVk) ==
  /\ Idle
  /\ auth = admin
  /\ vk' = newVk
  /\ UNCHANGED <<ledger, adminVars, wasm, allowlistEnabled, allowlist, paused,
                 limitVars, store, hist, batchVars>>

UpdateVk(auth, newVk) ==
  /\ Idle
  /\ IcLen[newVk] = EXPECTED_PUBLIC_INPUT_COUNT
  /\ auth = admin
  /\ vk' = newVk
  /\ UNCHANGED <<ledger, adminVars, wasm, allowlistEnabled, allowlist, paused,
                 limitVars, store, hist, batchVars>>

SetAllowlistMode(auth, enabled) ==
  /\ Idle
  /\ auth = admin
  /\ allowlistEnabled' = enabled
  /\ UNCHANGED <<ledger, adminVars, wasm, vk, allowlist, paused,
                 limitVars, store, hist, batchVars>>

AddToAllowlist(auth, addr) ==
  /\ Idle
  /\ auth = admin
  /\ allowlist' = allowlist \cup {addr}
  /\ UNCHANGED <<ledger, adminVars, wasm, vk, allowlistEnabled, paused,
                 limitVars, store, hist, batchVars>>

RemoveFromAllowlist(auth, addr) ==
  /\ Idle
  /\ auth = admin
  /\ allowlist' = allowlist \ {addr}
  /\ UNCHANGED <<ledger, adminVars, wasm, vk, allowlistEnabled, paused,
                 limitVars, store, hist, batchVars>>

SetPaused(auth, value) ==
  /\ Idle
  /\ auth = admin
  /\ paused' = value
  /\ UNCHANGED <<ledger, adminVars, wasm, vk, allowlistEnabled, allowlist,
                 limitVars, store, hist, batchVars>>

ProposeAdmin(auth, newAdmin) ==
  /\ Idle
  /\ auth = admin
  /\ pendingAdmin' = newAdmin
  /\ proposer' = auth
  /\ UNCHANGED <<ledger, admin, wasm, policyVars, limitVars, store, hist, batchVars>>

\* Fault: the accepted proposal is not removed.
AcceptAdminKeepsProposal(auth) ==
  /\ Idle
  /\ pendingAdmin # NoAccount
  /\ auth = pendingAdmin
  /\ admin' = pendingAdmin
  /\ UNCHANGED <<pendingAdmin, proposer, ledger, wasm, policyVars, limitVars, store,
                 hist, batchVars>>

AcceptAdmin(auth) ==
  /\ Idle
  /\ pendingAdmin # NoAccount
  /\ auth = pendingAdmin
  /\ admin' = pendingAdmin
  /\ pendingAdmin' = NoAccount
  /\ proposer' = NoAccount
  /\ UNCHANGED <<ledger, wasm, policyVars, limitVars, store, hist, batchVars>>

Upgrade(auth, newWasm) ==
  /\ Idle
  /\ auth = admin
  /\ wasm' = newWasm
  /\ UNCHANGED <<ledger, adminVars, policyVars, limitVars, store, hist, batchVars>>

GetConfig ==
  [admin |-> admin,
   paused |-> paused,
   rateLimitMax |-> limits.maxCalls,
   rateLimitWindow |-> limits.windowSize,
   allowlistEnabled |-> allowlistEnabled]

-----------------------------------------------------------------------------
(* verify_one: what the checks come to, and what they leave in storage. *)

\* An entry past its time to live is gone, and reads as 0.
CurrentCount(s, who) ==
  IF s.liveUntil[<<who, Start>>] >= ledger THEN s.callCount[<<who, Start>>] ELSE 0

Admitted(who) == allowlistEnabled => who \in allowlist

\* Fault: the allowlist is consulted after the attempt is charged.
GateBeforeAllowlist(s, who) ==
  IF paused THEN "ContractPaused"
  ELSE IF CurrentCount(s, who) = U32Max THEN "trap"
  ELSE IF CurrentCount(s, who) + 1 > limits.maxCalls THEN "RateLimitExceeded"
  ELSE "open"

\* Fault: the pause flag is not read here.
GateIgnoresPause(s, who) ==
  IF ~Admitted(who) THEN "CallerNotAllowed"
  ELSE IF CurrentCount(s, who) = U32Max THEN "trap"
  ELSE IF CurrentCount(s, who) + 1 > limits.maxCalls THEN "RateLimitExceeded"
  ELSE "open"

\* The checks on the caller, up to the rate limit.  The release profile panics
\* on an overflow of the counter.
Gate(s, who) ==
  IF paused THEN "ContractPaused"
  ELSE IF ~Admitted(who) THEN "CallerNotAllowed"
  ELSE IF CurrentCount(s, who) = U32Max THEN "trap"
  ELSE IF CurrentCount(s, who) + 1 > limits.maxCalls THEN "RateLimitExceeded"
  ELSE "open"

\* A word is an expiry ledger when its upper 28 bytes are zero.
IsExpiry(word) == word <= U32Max

\* Fault: a proof is good for one ledger more than it says.
CheckOneLedgerLate(item) ==
  IF item.proof \notin WellSized THEN "trap"
  ELSE IF Len(item.inputs) # EXPECTED_PUBLIC_INPUT_COUNT THEN "false"
  ELSE IF ~IsExpiry(item.inputs[2]) THEN "false"
  ELSE IF ledger > item.inputs[2] + 1 THEN "ProofExpired"
  ELSE CASE Pairing[vk, item.proof, item.inputs[1]] = "accept" -> "true"
         [] Pairing[vk, item.proof, item.inputs[1]] = "reject" -> "false"
         [] OTHER -> "trap"

\* The checks on the proof.  Its parts are parsed before the inputs are counted.
Check(item) ==
  IF item.proof \notin WellSized THEN "trap"
  ELSE IF Len(item.inputs) # EXPECTED_PUBLIC_INPUT_COUNT THEN "false"
  ELSE IF ~IsExpiry(item.inputs[2]) THEN "false"
  ELSE IF ledger > item.inputs[2] THEN "ProofExpired"
  ELSE CASE Pairing[vk, item.proof, item.inputs[1]] = "accept" -> "true"
         [] Pairing[vk, item.proof, item.inputs[1]] = "reject" -> "false"
         [] OTHER -> "trap"

Outcome(s, who, item) == IF Gate(s, who) = "open" THEN Check(item) ELSE Gate(s, who)

AtLeast(a, b) == IF a >= b THEN a ELSE b

\* Fault: the entry's time to live is left at the network's least.
ChargeWithoutExtension(s, who) ==
  LET slot == <<who, Start>>
      base == IF s.liveUntil[slot] >= ledger /\ s.callCount[slot] > 0
                THEN s.liveUntil[slot] ELSE ledger + MinTempTtl - 1
  IN [s EXCEPT !.callCount[slot] = CurrentCount(s, who) + 1,
               !.liveUntil[slot] = base]

\* The count goes up by one.  A new entry gets the network's least time to live,
\* and extend_ttl(window_size, window_size) makes any entry live that long.
Charge(s, who) ==
  LET slot == <<who, Start>>
      base == IF s.liveUntil[slot] >= ledger /\ s.callCount[slot] > 0
                THEN s.liveUntil[slot] ELSE ledger + MinTempTtl - 1
  IN [s EXCEPT !.callCount[slot] = CurrentCount(s, who) + 1,
               !.liveUntil[slot] = AtLeast(base, ledger + limits.windowSize)]

RecordVerificationAttempt(s, item) ==
  [s EXCEPT !.verificationCount[InputsHash(item.inputs)] = @ + 1]

\* Fault: a verification is recorded before its outcome is known.
VerifyOneRecordsAttempts(s, who, item) ==
  IF Gate(s, who) # "open" THEN s
  ELSE RecordVerificationAttempt(Charge(s, who), item)

\* Fault: only a success is charged.
VerifyOneChargesSuccess(s, who, item) ==
  IF Gate(s, who) # "open" THEN s
  ELSE IF Check(item) = "true" THEN RecordVerificationAttempt(Charge(s, who), item)
  ELSE s

\* The storage that verify_one leaves.
VerifyOne(s, who, item) ==
  IF Gate(s, who) # "open" THEN s
  ELSE IF Check(item) = "true" THEN RecordVerificationAttempt(Charge(s, who), item)
  ELSE Charge(s, who)

\* History: an attempt past the gate counts as used, a success event as published.
Note(h, s, who, item, success) ==
  [used |-> IF Gate(s, who) = "open" THEN [h.used EXCEPT ![who] = @ + 1] ELSE h.used,
   published |-> IF success THEN [h.published EXCEPT ![item.inputs] = @ + 1]
                 ELSE h.published]

-----------------------------------------------------------------------------
(* The verification calls. *)

\* Fault: an error of verify_one is answered Ok(false), so nothing is rolled back.
VerifyProofKeepsFailures(who, item) ==
  LET outcome == Outcome(store, who, item)
  IN
  /\ Idle
  /\ outcome # "trap"
  /\ store' = VerifyOne(store, who, item)
  /\ hist' = IF outcome \in {"true", "false"}
               THEN Note(hist, store, who, item, outcome = "true") ELSE hist
  /\ UNCHANGED <<ledger, adminVars, wasm, policyVars, limitVars, batchVars>>

\* verify_proof, when it returns Ok(true) or Ok(false); what verify_one wrote is
\* dropped with every other outcome, and the call changes nothing.
VerifyProof(who, item) ==
  LET outcome == Outcome(store, who, item)
  IN
  /\ Idle
  /\ outcome \in {"true", "false"}
  /\ store' = VerifyOne(store, who, item)
  /\ hist' = Note(hist, store, who, item, outcome = "true")
  /\ UNCHANGED <<ledger, adminVars, wasm, policyVars, limitVars, batchVars>>

BatchBegin(who, items) ==
  /\ Idle
  /\ running' = TRUE
  /\ caller' = who
  /\ batch' = items
  /\ wStore' = store
  /\ wHist' = hist
  /\ results' = <<>>
  /\ events' = <<>>
  /\ UNCHANGED <<ledger, adminVars, wasm, policyVars, limitVars, store, hist>>

\* These outcomes of an entry end the call; the other errors become false.
Fatal == {"ContractPaused", "trap"}

BatchEntry ==
  /\ running
  /\ Len(results) < Len(batch)
  /\ LET item == batch[Len(results) + 1]
         outcome == Outcome(wStore, caller, item)
         success == outcome = "true"
     IN
     /\ outcome \notin Fatal
     /\ wStore' = VerifyOne(wStore, caller, item)
     /\ wHist' = Note(wHist, wStore, caller, item, success)
     /\ events' = Append(events, VerificationResult(success, caller, item.inputs))
     /\ results' = Append(results, success)
  /\ UNCHANGED <<ledger, adminVars, wasm, policyVars, limitVars, store, hist,
                 running, caller, batch>>

\* The frame of the call is gone.
EndBatch ==
  /\ running' = FALSE
  /\ caller' = NoAccount
  /\ batch' = <<>>
  /\ wStore' = EmptyStore
  /\ wHist' = EmptyHist
  /\ results' = <<>>
  /\ events' = <<>>
  /\ UNCHANGED <<ledger, adminVars, wasm, policyVars, limitVars>>

BatchReturn ==
  /\ running
  /\ Len(results) = Len(batch)
  /\ store' = wStore
  /\ hist' = wHist
  /\ EndBatch

BatchFails ==
  /\ running
  /\ Len(results) < Len(batch)
  /\ Outcome(wStore, caller, batch[Len(results) + 1]) \in Fatal
  /\ UNCHANGED <<store, hist>>
  /\ EndBatch

\* The host stops the call at any point when its resource budget is spent.
BatchOutOfBudget ==
  /\ running
  /\ UNCHANGED <<store, hist>>
  /\ EndBatch

-----------------------------------------------------------------------------
\* A ledger closes and the next one opens, possibly in the next window.
AdvanceLedger ==
  /\ ~running
  /\ ledger < MaxLedger
  /\ ledger' = ledger + 1
  /\ IF WindowStart(ledger + 1, limits.windowSize) = Start
       THEN UNCHANGED <<hist, relimited>>
       ELSE /\ hist' = [hist EXCEPT !.used = NothingUsed]
            /\ relimited' = FALSE
  /\ UNCHANGED <<adminVars, wasm, policyVars, limits, store, batchVars>>

Batches == UNION {[1..n -> Items] : n \in 0..MaxBatch}

BatchStep == BatchEntry \/ BatchReturn \/ BatchFails \/ BatchOutOfBudget

AdminStep(auth) ==
  \/ \E max \in MaxCalls, size \in WindowSizes : SetLimits(auth, max, size)
  \/ \E k \in Keys : UpdateVk(auth, k)
  \/ \E b \in ListModes : SetAllowlistMode(auth, b)
  \/ \E b \in PauseValues : SetPaused(auth, b)
  \/ \E c \in Listable : AddToAllowlist(auth, c) \/ RemoveFromAllowlist(auth, c)
  \/ \E a \in Accounts : ProposeAdmin(auth, a)
  \/ AcceptAdmin(auth)
  \/ \E w \in Wasms : Upgrade(auth, w)

Next ==
  \/ \E auth \in Accounts : AdminStep(auth)
  \/ \E who \in Callers, item \in Items : VerifyProof(who, item)
  \/ \E who \in Callers, items \in Batches : BatchBegin(who, items)
  \/ BatchStep
  \/ AdvanceLedger

Spec == Init /\ [][Next]_vars

-----------------------------------------------------------------------------
Events == [success : BOOLEAN, caller : Callers, inputsHash : Commitments]

TypeOK ==
  /\ ledger \in 0..MaxLedger
  /\ admin \in Accounts
  /\ pendingAdmin \in Accounts \cup {NoAccount}
  /\ proposer \in Accounts \cup {NoAccount}
  /\ wasm \in Wasms
  /\ limits \in Limits
  /\ relimited \in BOOLEAN
  /\ vk \in Keys /\ IcLen[vk] = EXPECTED_PUBLIC_INPUT_COUNT
  /\ allowlistEnabled \in BOOLEAN
  /\ allowlist \subseteq Callers
  /\ paused \in BOOLEAN
  /\ store \in Stores /\ wStore \in Stores
  /\ hist \in Histories /\ wHist \in Histories
  /\ running \in BOOLEAN
  /\ caller \in Callers \cup {NoAccount}
  /\ running => caller \in Callers
  /\ batch \in Seq(Items)
  /\ results \in Seq(BOOLEAN)
  /\ events \in Seq(Events)

\* The promise of get_config's rate_limit_max: between two changes of the limits
\* no caller is charged for more than max_calls attempts in one window, whatever
\* mix of single calls and batches, expired entries, failed calls and evictions
\* of temporary entries the window saw.
RateBound == \A c \in Callers : hist.used[c] <= GetConfig.rateLimitMax

\* The counter a caller is held to is its own committed attempts of the window,
\* no more and no less: a call that returned Err or panicked cost nothing, an
\* expired or false entry of a batch cost one, and no entry of an earlier window
\* is read again (as long as the window has kept its size and limit).
BudgetExact ==
  ~relimited => \A c \in Callers : CurrentCount(store, c) = hist.used[c]

\* verification_count tells the number of success events published with that
\* inputs hash, after rollbacks too.
CountMatchesEvents ==
  \A pi \in Inputs : store.verificationCount[InputsHash(pi)] = hist.published[pi]

\* A success is on the ledger only if the proof's expiry ledger had not passed.
NoLateSuccess ==
  [][\A pi \in Inputs :
       hist'.published[pi] > hist.published[pi] => ledger <= pi[2]]_vars

\* Who is refused at the gate leaves nothing behind, by single calls or batches: a
\* paused contract charges nobody and counts nothing, and a caller is charged only
\* while the allowlist admits it (lib.rs:439-458 before 470-477, 416-417).
RefusedLeavesNoTrace ==
  [][/\ paused => UNCHANGED store
     /\ \A c \in Callers : hist'.used[c] > hist.used[c] => Admitted(c)]_vars

\* A proposal that accept_admin can act on was made by the admin in office.
NominationByCurrentAdmin == pendingAdmin # NoAccount => proposer = admin

\* Each entry of a running batch is answered as its position says: the entries
\* before it have each taken one call of the budget the batch started with, so
\* entry i succeeds when i calls are left and its own checks succeed; and its
\* event says the same.
DueAnswer(i) ==
  /\ Admitted(caller)
  /\ CurrentCount(store, caller) + i <= limits.maxCalls
  /\ Check(batch[i]) = "true"
BatchAnswers ==
  running =>
    /\ Len(events) = Len(results)
    /\ \A i \in 1..Len(results) :
         /\ results[i] <=> DueAnswer(i)
         /\ events[i] = VerificationResult(results[i], caller, batch[i].inputs)

-----------------------------------------------------------------------------
(***************************************************************************)
(* The inductive invariant.  Agree relates a store and the history of its  *)
(* attempts at ledger l, under limits lim; rel says whether the limits     *)
(* changed in the current window.  It holds of what is committed and of    *)
(* what a running batch would commit.                                      *)
(***************************************************************************)
Counted(s, c, l, size) ==
  IF s.liveUntil[<<c, WindowStart(l, size)>>] >= l
    THEN s.callCount[<<c, WindowStart(l, size)>>] ELSE 0

UsedWithin(lim, h) == \A c \in Callers : h.used[c] <= lim.maxCalls
UsedCounted(l, lim, s, h) ==
  \A c \in Callers : h.used[c] <= Counted(s, c, l, lim.windowSize)
\* The entry of a caller with attempts outlives the window.
UsedAlive(l, lim, s, h) ==
  \A c \in Callers :
    h.used[c] > 0 => s.liveUntil[<<c, WindowStart(l, lim.windowSize)>>]
                       >= WindowStart(l, lim.windowSize) + lim.windowSize
\* No window that starts later has an entry, whatever the window size was.
FutureEmpty(l, s) ==
  \A c \in Callers, w \in WindowStarts : w > l => s.callCount[<<c, w>>] = 0
UsedExact(l, lim, s, h) ==
  \A c \in Callers : Counted(s, c, l, lim.windowSize) = h.used[c]
Tallied(s, h) ==
  \A pi \in Inputs : s.verificationCount[InputsHash(pi)] = h.published[pi]

Agree(l, lim, rel, s, h) ==
  /\ UsedWithin(lim, h)
  /\ UsedCounted(l, lim, s, h)
  /\ UsedAlive(l, lim, s, h)
  /\ FutureEmpty(l, s)
  /\ ~rel => UsedExact(l, lim, s, h)
  /\ Tallied(s, h)

\* What a running batch has done so far it was entitled to do: it charged only
\* an admitted caller, counted only what had not expired, moved only an unpaused
\* contract, and took from the caller's budget one call for each entry.
WorkingCopy ==
  /\ \A c \in Callers : wHist.used[c] > hist.used[c] => ~paused /\ Admitted(c)
  /\ \A pi \in Inputs : wHist.published[pi] > hist.published[pi] => ledger <= pi[2]
  /\ paused => wStore = store
  /\ Len(results) <= Len(batch)
BudgetTaken ==
  Admitted(caller) =>
    IF CurrentCount(store, caller) + Len(results) <= limits.maxCalls
      THEN CurrentCount(wStore, caller) = CurrentCount(store, caller) + Len(results)
      ELSE CurrentCount(wStore, caller) >= limits.maxCalls

IInv ==
  /\ TypeOK
  /\ NominationByCurrentAdmin
  /\ Agree(ledger, limits, relimited, store, hist)
  /\ running => Agree(ledger, limits, relimited, wStore, wHist) /\ WorkingCopy /\ BudgetTaken
  /\ BatchAnswers
=============================================================================
