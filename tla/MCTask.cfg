CONSTANTS
  PidLimit = 3
  Tid = {boot, t1, t2, t3}
  Boot = boot
  NoTid = NoTid
  SingleShell = TRUE
SPECIFICATION FairSpec
INVARIANTS
  TypeOK
  TablesAgree
  HandlesResolve
PROPERTIES
  SlotsAreFreedLate
  BootstrapEnds
CHECK_DEADLOCK FALSE
