\* Two callers, the allowlist, the pause flag, proofs that expire, the admin
\* handoff, two keys.  After an upgrade to other code nothing of this program runs.
SPECIFICATION Spec
CONSTANTS
  alice = alice
  bob = bob
  carol = carol
  c1 = c1
  c2 = c2
  noAccount = noAccount
  codeA = codeA
  codeB = codeB
  k1 = k1
  k2 = k2
  good = good
  bad = bad
  short = short
  offcurve = offcurve
  NoAccount = noAccount
  FirstAdmin = alice
  ThisCode = {codeA}
  FirstWasm = codeA
  FirstKey = k1
  IcLen <- MCIcLen
  Pairing <- MCPairing
  MinTempTtl = 1
  Accounts = {alice, bob}
  Wasms = {codeA, codeB}
  Keys = {k1, k2}
  Callers = {c1, c2}
  Proofs = {good, bad}
  WellSized = {good, bad}
  Words = {1, 7}
  Inputs <- Expiring
  U32Max = 7
  MaxCalls = {1}
  WindowSizes = {2}
  PauseValues = {TRUE, FALSE}
  ListModes = {TRUE, FALSE}
  Listable = {c1}
  FirstLimits <- OneInTwo
  MaxLedger = 3
  MaxBatch = 1
INVARIANTS TypeOK CountMatchesEvents NominationByCurrentAdmin
PROPERTIES NoLateSuccess RefusedLeavesNoTrace
CHECK_DEADLOCK FALSE
