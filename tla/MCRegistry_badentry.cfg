\* The doc of verify_batch: a bad entry does not affect the others.
SPECIFICATION Spec
CONSTANTS
  alice = alice
  bob = bob
  carol = carol
  noAccount = noAccount
  codeA = codeA
  codeB = codeB
  k1 = k1
  k2 = k2
  k3 = k3
  noKey = noKey
  good = good
  bad = bad
  short = short
  w1 = w1
  NoAccount = noAccount
  FirstAdmin = alice
  ThisCode = {codeA}
  FirstWasm = codeA
  NoKey = noKey
  Pairing <- MCPairing
  Accounts = {alice}
  Wasms = {codeA}
  Ids = {1, 2}
  Keys = {k1}
  IcLen <- SameIcLen
  Proofs = {good, short}
  Inputs <- SharedInput
  MaxBatch = 2
INVARIANT BadEntryAffectsNoOther
