CONSTANTS
  p1 = p1
  p2 = p2
  p3 = p3
  Procs <- ThreeProcs
  None = None
  Units = {}
  Booting = FALSE
  MaxHw = 3
  MaxStarts = 0
SPECIFICATION Spec
SYMMETRY Symmetry
INVARIANT ImageIsFresh
CHECK_DEADLOCK FALSE
