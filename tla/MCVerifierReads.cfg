\* The SDK reads the configuration of a contract that is paused,
\* restricted, limited, upgraded and called in batches of three, up to the u32
\* counter's end.  After an upgrade to other code nothing of the contract runs.
SPECIFICATION ReadSpec
CONSTANTS
  alice = alice
  bob = bob
  carol = carol
  c1 = c1
  c2 = c2
  noAccount = noAccount
  codeA = codeA
  codeB = codeB
  k1 = k1
  k2 = k2
  good = good
  bad = bad
  short = short
  offcurve = offcurve
  NoAccount = noAccount
  FirstAdmin = alice
  ThisCode = {codeA}
  FirstWasm = codeA
  FirstKey = k1
  IcLen <- MCIcLen
  Pairing <- MCPairing
  MinTempTtl = 1
  NoRead = noRead
  noRead = noRead
  Accounts = {alice}
  Wasms = {codeA, codeB}
  Keys = {k1}
  Callers = {c1}
  Proofs = {good, bad}
  WellSized = {good, bad}
  Words = {1, 3}
  Inputs <- Timely
  U32Max = 3
  MaxCalls = {3}
  WindowSizes = {2}
  PauseValues = {TRUE}
  ListModes = {TRUE}
  Listable = {c1}
  FirstLimits <- TwoInTwo
  MaxLedger = 2
  MaxBatch = 3
INVARIANTS BatchAnswers ConfigForetellsGate
CHECK_DEADLOCK FALSE
