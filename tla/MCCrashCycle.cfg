CONSTANTS
  SaveDirs <- TwoDirs
  LocalDirs <- BothLocal
  Stamps = {1, 2, 3, 4}
  Keep = 1
  Settings <- MCSettings
  ClockMoves = {0, 1}
  MaxCrashes = 4
SPECIFICATION FairSpec
INVARIANTS
  RetentionBound
PROPERTIES
  OldestFirst
  DeleteDumpsSpec
  ComesBack
CHECK_DEADLOCK FALSE
