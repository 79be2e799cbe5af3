SPECIFICATION Spec
CONSTANTS
  NumChunks = 2
  Vals <- ThreeVals
  NoVal = 98
  NoWord = 99
  NoDigest <- MCNoDigest
  Hash <- MCHash
  OffsetSpan = 3
  WholeChunks = FALSE
  WideTeams = FALSE
  Overloads = {"files"}
  FailingWrites = {}
  MaxChkpts = 2
INVARIANTS
  RestartExact
