CONSTANTS
  SaveDirs <- OneDir
  LocalDirs <- BothLocal
  Stamps = {1, 2, 3, 4}
  Keep = 1
  Settings <- SplitOnly
  ClockMoves = {1}
  MaxCrashes = 4
SPECIFICATION Spec
INVARIANTS
  DumpDirsBounded
CHECK_DEADLOCK FALSE
