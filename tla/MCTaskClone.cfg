CONSTANTS
  PidLimit = 4
  Tid = {boot, t1, t2, t3, t4}
  Boot = boot
  NoTid = NoTid
  SingleShell = FALSE
SPECIFICATION Spec
SYMMETRY Symmetry
INVARIANT HandlesAreDistinct
CHECK_DEADLOCK FALSE
