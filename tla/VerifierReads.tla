---------------------------- MODULE VerifierReads ----------------------------
(***************************************************************************)
(* The SDK call that only reads the verifier: getContractConfig of         *)
(* sdk/src/verify.ts.                                                      *)
(*                                                                         *)
(* It builds a transaction it never sends and has an RPC node simulate it; *)
(* the admin changes and upgrades the contract, and other calls use up     *)
(* budgets, between the simulation and the answer, and after it.           *)
(***************************************************************************)
EXTENDS Verifier

CONSTANT NoRead  \* no call

VARIABLES
  read,     \* the SDK call: [phase, value]
  changed   \* history: the contract's settings or code have changed since the simulation

readVars == <<read, changed>>
settings == <<admin, wasm, policyVars, limits>>

ReadInit == Init /\ read = NoRead /\ changed = FALSE

\* Fault: the two numbers of the rate limit are swapped.
DecodeConfigSwapped(raw) ==
  [raw EXCEPT !.rateLimitMax = raw.rateLimitWindow, !.rateLimitWindow = raw.rateLimitMax]

\* Every field by its name; what the contract leaves out stays undefined.
DecodeConfig(raw) ==
  [admin |-> raw.admin, paused |-> raw.paused,
   rateLimitMax |-> raw.rateLimitMax, rateLimitWindow |-> raw.rateLimitWindow,
   allowlistEnabled |-> raw.allowlistEnabled]

\* getNetwork, perhaps getAccount, and the simulation of a transaction that nobody
\* signs; a request that fails, and a simulation without a result, make the call
\* throw, and leave the caller where it was.
GetContractConfig ==
  /\ wasm \in ThisCode
  /\ read = NoRead
  /\ read' = [phase |-> "simulated", value |-> DecodeConfig(GetConfig)]
  /\ changed' = FALSE
  /\ UNCHANGED vars

\* The answer arrives.
AnswerRead ==
  /\ read # NoRead /\ read.phase = "simulated"
  /\ read' = [read EXCEPT !.phase = "answered"]
  /\ UNCHANGED <<vars, changed>>

ContractGoesOn ==
  /\ Next
  /\ changed' = (changed \/ settings' # settings)
  /\ UNCHANGED read

\* An application gives up what it read and asks again.
AskAgain ==
  /\ read # NoRead /\ read.phase = "answered"
  /\ read' = NoRead
  /\ UNCHANGED <<vars, changed>>

ReadNext ==
  \/ GetContractConfig
  \/ AnswerRead \/ AskAgain
  \/ ContractGoesOn

ReadSpec == ReadInit /\ [][ReadNext]_<<vars, readVars>>

----------------------------------------------------------------------------
HoldsAnswer == read # NoRead /\ read.phase = "answered"

\* An application that knows its own charged attempts and reads the configuration
\* can tell, for as long as nobody changes the contract, what the contract will say
\* to its next call: the fields carry the numbers verify_one compares, over windows
\* that pass and batches that are charged or rolled back, and the window that the
\* application counts its attempts in is the contract's (verify.ts:835-849 against
\* contracts/verifier/src/lib.rs:434-477).
ConfigForetellsGate ==
  HoldsAnswer /\ ~changed /\ ~relimited =>
    LET a == read.value
    IN  /\ WindowStart(ledger, a.rateLimitWindow) = Start
        /\ \A c \in Callers :
             Gate(store, c) \in
               IF a.paused THEN {"ContractPaused"}
               ELSE IF a.allowlistEnabled /\ c \notin allowlist THEN {"CallerNotAllowed"}
               ELSE IF hist.used[c] >= a.rateLimitMax THEN {"RateLimitExceeded", "trap"}
               ELSE {"open"}
=============================================================================
