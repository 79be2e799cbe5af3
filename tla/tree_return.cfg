SPECIFICATION ReferenceSpec
CONSTANTS
  NumChunks = 2
  Vals <- TwoVals
  NoVal = "unwritten"
  Digests <- TwoLevels
  NoDigest <- MCNoDigest
  Hash <- MCHash
  HashPair <- MCHashPair
  OffsetSpan = 3
  WideTeams = FALSE
  FailingWrites = {}
  MaxChkpts = 3
INVARIANTS
  RestartExact
