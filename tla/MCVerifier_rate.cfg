\* One caller, windows of two and three ledgers, changes of the limits in mid
\* window, expired, malformed and false proofs, single calls and batches.
SPECIFICATION Spec
CONSTANTS
  alice = alice
  bob = bob
  carol = carol
  c1 = c1
  c2 = c2
  noAccount = noAccount
  codeA = codeA
  codeB = codeB
  k1 = k1
  k2 = k2
  good = good
  bad = bad
  short = short
  offcurve = offcurve
  NoAccount = noAccount
  FirstAdmin = alice
  ThisCode = {codeA}
  FirstWasm = codeA
  FirstKey = k1
  IcLen <- MCIcLen
  Pairing <- MCPairing
  MinTempTtl = 1
  Accounts = {alice}
  Wasms = {codeA}
  Keys = {k1}
  Callers = {c1}
  Proofs = {bad, short}
  WellSized = {bad}
  Words = {1, 7}
  Inputs <- Expiring
  U32Max = 7
  MaxCalls = {1, 2}
  WindowSizes = {0, 2, 3}
  PauseValues = {}
  ListModes = {}
  Listable = {}
  FirstLimits <- TwoInThree
  MaxLedger = 5
  MaxBatch = 2
INVARIANTS RateBound BudgetExact
