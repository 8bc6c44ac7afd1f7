\* The tutorial: verifyOnChain of the bundle that the demo makes prints true.
SPECIFICATION ClientSpec
CONSTANTS
  alice = alice
  bob = bob
  carol = carol
  c1 = c1
  c2 = c2
  noAccount = noAccount
  codeA = codeA
  codeB = codeB
  k1 = k1
  k2 = k2
  good = good
  bad = bad
  short = short
  offcurve = offcurve
  NoAccount = noAccount
  FirstAdmin = alice
  ThisCode = {codeA}
  FirstWasm = codeA
  FirstKey = k1
  IcLen <- MCIcLen
  Pairing <- MCPairing
  MinTempTtl = 1
  r1 = r1
  r2 = r2
  noTx = noTx
  NoTx = noTx
  NoBundle = NoBundle
  NoRequest = NoRequest
  Networks = {"test", "main"}
  Network = "test"
  Calls = {r1, r2}
  Accounts = {alice}
  Wasms = {codeA}
  Keys = {k1}
  Callers = {c1}
  Proofs = {good, short}
  WellSized = {good}
  Words = {1}
  Inputs <- AboutToExpire
  U32Max = 7
  MaxCalls = {}
  WindowSizes = {}
  PauseValues = {TRUE}
  ListModes = {}
  Listable = {}
  FirstLimits <- OneInTwo
  MaxLedger = 2
  MaxBatch = 1
  Requests <- WithBundle
  Stamps = {1}
  Faults = {"limit"}
  HasValue = {TRUE, FALSE}
  HasEvents = {TRUE, FALSE}
  MaxPolls = 2
INVARIANT BundleVerifies
CHECK_DEADLOCK FALSE
