SPECIFICATION FairSpec
CONSTANTS
  Modes <- AllModes
  NumChunks = 2
  Lengths <- OneOrTwoChunks
  Vals <- TwoVals
  NoVal = 98
  NoWord = 99
  Digests <- TwoLevels
  NoDigest <- MCNoDigest
  HashChunk <- MCHash
  HashPair <- MCHashPair
  OffsetSpan = 2
  WholeChunks = FALSE
  WideTeams = TRUE
  Overloads = {"memory", "files"}
  ReusesView = FALSE
  FailingWrites = {0, 1}
  MaxChkpts = 2
INVARIANTS
  ObjectsCoherent
PROPERTIES
  StoreSpec
  CallsReturn
