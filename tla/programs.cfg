SPECIFICATION ProgramsSpec
CONSTANTS
  Modes <- AllModes
  NumChunks = 2
  Lengths <- TwoChunks
  Vals <- TwoVals
  NoVal = 98
  NoWord = 99
  Digests <- TwoLevels
  NoDigest <- MCNoDigest
  HashChunk <- MCHash
  HashPair <- MCHashPair
  OffsetSpan = 4
  WholeChunks = TRUE
  WideTeams = FALSE
  Overloads = {"memory"}
  ReusesView = FALSE
  FailingWrites = {}
  MaxChkpts = 3
  NumFiles = 3
  MaxKills = 2
INVARIANTS
  FileRestarted
PROPERTIES
  ProgramsEnd
