SPECIFICATION MCSpec
CONSTANTS
  NumChunks = 2
  Vals <- ThreeVals
  NoVal = 98
  NoWord = 99
  NoDigest <- MCNoDigest
  Hash <- MCHash
  OffsetSpan = 3
  WholeChunks = FALSE
  WideTeams = FALSE
  Overloads = {"memory", "files"}
  FailingWrites = {1}
  MaxChkpts = 3
INVARIANTS
  TypeOK
  DuplicatesTrue
  SavedOnce
  Exact
  RoomEnough
  OmittedUnchanged
PROPERTIES
  StoreSpec
