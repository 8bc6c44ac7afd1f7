\* Two circuits that share their public inputs, keys of two arities, batches of
\* two, and the admin handoff around them.  After an upgrade to
\* other code nothing of this program runs.
SPECIFICATION Spec
CONSTANTS
  alice = alice
  bob = bob
  carol = carol
  noAccount = noAccount
  codeA = codeA
  codeB = codeB
  k1 = k1
  k2 = k2
  k3 = k3
  noKey = noKey
  good = good
  bad = bad
  short = short
  w1 = w1
  NoAccount = noAccount
  FirstAdmin = alice
  ThisCode = {codeA}
  FirstWasm = codeA
  NoKey = noKey
  Pairing <- MCPairing
  Accounts = {alice, bob}
  Wasms = {codeA, codeB}
  Ids = {1, 2}
  Keys = {k1, k2, k3}
  IcLen <- MixedIcLen
  Proofs = {good, bad, short}
  Inputs <- SharedInput
  MaxBatch = 2
INVARIANTS TypeOK AtMostOnce BurnedIffAccepted ActiveHasKey BatchAnswers
PROPERTIES ImplementsSingleUse HandoffByConsent SuccessEventsTellBurns
CHECK_DEADLOCK FALSE
