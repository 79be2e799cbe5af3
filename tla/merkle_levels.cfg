SPECIFICATION FairSpec
CONSTANT
  MaxChunks = 40
INVARIANTS
  ChildrenFirst
  AllVisited
  RegionsExact
PROPERTIES
  EndsAboveRoot
CHECK_DEADLOCK FALSE
