CONSTANTS
  PipeSize = 4
  BufSize = 2
  MaxReport = 1
  MaxOwed = 2
  Targets <- MCTargets
  Scripts = {0, 3, 4, 8}
  Files <- MCFiles
  Blocks = 2
SPECIFICATION FairSpec
INVARIANTS
  PlacedWhereConfigured
  LeftMountsHaveCause
  FtpSavedIsWhole
PROPERTIES
  KeepsFilter
  EndsUnlessLong
