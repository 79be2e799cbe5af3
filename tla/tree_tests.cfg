SPECIFICATION TestSpec
CONSTANTS
  NumChunks = 8
  Vals <- Letters
  NoVal = "unwritten"
  Digests <- LeafDigests
  NoDigest <- MCNoDigest
  Hash <- MCHash
  HashPair <- MCHashPair
  OffsetSpan = 9
  WideTeams = FALSE
  FailingWrites = {}
  MaxChkpts = 2
INVARIANTS
  RegionsAsExpected
  AgreesWithReference
  RoomEnough
  RestartExact
