CONSTANTS
  Blocks = 3
  PipeCap = 2
  NoFile = NoFile
SPECIFICATION FairSpec
INVARIANTS
  NoChildLeft
  FinishedOnce
  NameMeansTheEnd
PROPERTIES
  ErrorsEnd
CHECK_DEADLOCK FALSE
