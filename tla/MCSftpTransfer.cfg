CONSTANTS
  Addrs = 2
  Timeout = 2
  Kinds = {"route", "cloned", "long"}
  MaxChanges = 3
  Depth = 2
  Blocks = 2
  IdMod = 3
  NoMsg = NoMsg
SPECIFICATION FairSpec
INVARIANTS
  SavedIsWhole
  CleansUp
PROPERTIES
  NoRouteMissed
  GivesUpInTime
  UploadEnds
CHECK_DEADLOCK FALSE
