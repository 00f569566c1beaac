CONSTANTS
  p1 = p1
  p2 = p2
  p3 = p3
  Procs <- TwoProcs
  None = None
  Units = {"kdump-early", "kdump"}
  Booting = TRUE
  MaxHw = 2
  MaxStarts = 1
SPECIFICATION FairSpec
INVARIANTS
  LockProtectsJobs
  StaleHasCause
PROPERTIES
  InstancesEnd
CHECK_DEADLOCK FALSE
