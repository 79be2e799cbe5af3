SPECIFICATION Spec
CONSTANTS
  Vals <- MCVals
  NoVal = "unwritten"
  Digests <- MCDigests
  NoDigest <- MCNoDigest
  Hash <- MCHash
  Lengths <- OneOrTwoChunks
  OffsetSpan = 2
  WholeChunks = FALSE
  FailingWrites = {}
  MaxChkpts = 2
INVARIANTS
  OmittedUnchanged
