\* The doc of is_nullifier_used: the nullifier is the inputs hash.
SPECIFICATION Spec
CONSTANTS
  alice = alice
  bob = bob
  carol = carol
  noAccount = noAccount
  codeA = codeA
  codeB = codeB
  k1 = k1
  k2 = k2
  k3 = k3
  noKey = noKey
  good = good
  bad = bad
  short = short
  w1 = w1
  NoAccount = noAccount
  FirstAdmin = alice
  ThisCode = {codeA}
  FirstWasm = codeA
  NoKey = noKey
  Pairing <- MCPairing
  Accounts = {alice}
  Wasms = {codeA}
  Ids = {1}
  Keys = {k1}
  IcLen <- SameIcLen
  Proofs = {good}
  Inputs <- SharedInput
  MaxBatch = 1
INVARIANT InputsHashIsTheNullifier
