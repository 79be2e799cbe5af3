SPECIFICATION Spec
CONSTANTS
  NoWord = 99
  MaxDupl = 4
  MaxId = 4
INVARIANTS
  FirstsRead
  SourcesReadWhenBinsSuffice
CHECK_DEADLOCK FALSE
