SPECIFICATION Spec
CONSTANTS
  Vals <- MCVals
  NoVal = "unwritten"
  Digests <- MCDigests
  NoDigest <- MCNoDigest
  Hash <- MCHash
  Lengths <- TwoChunks
  OffsetSpan = 2
  WholeChunks = FALSE
  FailingWrites = {0, 1}
  MaxChkpts = 3
INVARIANTS
  TypeOK
  EntriesTrue
  OmittedUnchanged
  UnchangedOmitted
  RestartExact
  Coherent
  Exact
PROPERTIES
  StoreSpec
