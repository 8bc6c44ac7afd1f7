\* Trees of four leaves; ledgers of three seconds; bundles with blank, untrimmed
\* and edited fields; pages of one and two of up to four events; a hash of one
\* and two inputs and the circuits over the integers modulo 13; two circuits,
\* and key, proof and signal files that encode and that do not.
SPECIFICATION Spec
CONSTANTS
  Elements <- MCElements
  ZeroLeaf <- MCZeroLeaf
  Poseidon <- MCHash2
  BlankItem = BlankItem
  Depth = 2
  NoProof = NoProof
  CloseTime = 3
  LeastGap = 2
  Ttls = {1, 3, 4}
  Expiries = {0, 2}
  NoExpiry = NoExpiry
  Unset = Unset
  LedgerEnd = 4
  Start = 1
  MaxNow = 11
  Proofs = {"good", "noField", "misshapen"}
  Signals = {"good", "other"}
  Circuits = {"c", " c", ""}
  Networks = {"net", "main"}
  Times = {"t", ""}
  Trim <- MCTrim
  Blank = ""
  Now = "now"
  Later = "later"
  Absent = "absent"
  Nothing = Nothing
  MaxEdits = 1
  MaxSigned = 2
  PageLimits = {1, 2}
  NoFilter = NoFilter
  Undecodable = Undecodable
  LastLedger = 4
  MaxEvents = 3
  Modulus = 13
  FullRounds = 8
  PartialRounds <- MCPartialRounds
  C <- MCC
  S <- MCS
  M <- MCM
  P <- MCP
  RoundConstants <- MCRC
  Values <- MCValues
  NotLoaded = NotLoaded
  Hash <- MCHash
  MaxArity = 3
  Secrets <- MCSecrets
  Lists <- MCLists
  Tags <- MCTags
  BitLength = 2
  Bounds = {0, 1, 2, 3, 4, 9, 10, 12}
  ActiveValues = {0, 1, 2}
  NoCommitment = NoCommitment
  Number <- MCNumber
  NotANumber = NotANumber
  ScalarModulus = 13
  KeyFiles <- MCKeyFiles
  ProofFiles <- MCProofFiles
  SignalFiles <- MCSignalFiles
  Genuine <- MCGenuine
  CircuitIds = {1, 2}
  NoFile = NoFile
INVARIANTS
  ProofsFitTheCircuit OnlyMembersProve
  LivesItsTimeToLive EstimateIsSafe PrecheckForetells
  VerifiedWasSigned OwnBundlesRoundTrip 
  FollowingMissesNothing
  DigestIsReference
  IdentityIsRecognised CircuitsProveTheirStatements DigestsBindTheirInputs
  OffChainForetells PrintedNullifierIsTheRegistrys
CHECK_DEADLOCK FALSE
