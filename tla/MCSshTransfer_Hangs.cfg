CONSTANTS
  Blocks = 3
  PipeCap = 2
  NoFile = NoFile
SPECIFICATION FairSpec
PROPERTIES
  PerformEnds
CHECK_DEADLOCK FALSE
