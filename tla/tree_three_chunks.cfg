SPECIFICATION ReferenceSpec
CONSTANTS
  NumChunks = 3
  Vals <- ThreeVals
  NoVal = "unwritten"
  Digests <- ThreeChunks
  NoDigest <- MCNoDigest
  Hash <- MCHash
  HashPair <- MCHashPair
  OffsetSpan = 4
  WideTeams = FALSE
  FailingWrites = {}
  MaxChkpts = 1
INVARIANTS
  RestartExact
