\* Two SDK calls beside transactions of others, on a circuit that changes its key.
SPECIFICATION ClientSpec
CONSTANTS
  alice = alice
  noAccount = noAccount
  codeA = codeA
  k1 = k1
  k2 = k2
  noKey = noKey
  good = good
  short = short
  w1 = w1
  u = u
  v = v
  NoAccount = noAccount
  FirstAdmin = alice
  Wasms = {codeA}
  ThisCode = {codeA}
  FirstWasm = codeA
  NoKey = noKey
  Accounts = {alice}
  Ids = {1}
  Keys = {k1, k2}
  IcLen <- SameIcLen
  Proofs = {good}
  Inputs <- SharedInput
  Pairing <- MCPairing
  MaxBatch = 1
  Calls = {u, v}
  MaxItems = 2
INVARIANTS VerifiedIsFresh UsedIsNotMissed
CHECK_DEADLOCK FALSE
