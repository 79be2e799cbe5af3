SPECIFICATION ReferenceSpec
CONSTANTS
  NumChunks = 4
  Vals = {a, b}
  NoVal = "unwritten"
  Digests <- ThreeLevels
  NoDigest <- MCNoDigest
  Hash <- MCHash
  HashPair <- MCHashPair
  OffsetSpan = 5
  WideTeams = FALSE
  FailingWrites = {}
  MaxChkpts = 3
SYMMETRY Symmetry
INVARIANTS
  TypeOK
  SourcesKnown
  RegionsDisjoint
  DuplicatesTrue
  SavedOnce
  OmittedUnchanged
  RestartExactWithoutReturn
  AgreesWithReference
  Coherent
  Restorable
