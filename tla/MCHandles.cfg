CONSTANTS
  d = d
  f = f
  Process = {s, p}
  FirstShell = s
  Shells = {s}
  Root = Root
  Path <- MCPath
  Dirs <- MCDirs
  Parent <- MCParent
  MaxId = 3
  MaxCount = 2
  Unnamed = Unnamed
  NoElement = NoElement
  Beyond = Beyond
  NoPath = NoPath
  NoInfo = NoInfo
  Serial = {"path", "search"}
SPECIFICATION Spec
INVARIANTS
  TypeOK
  MapsAgree
  HandlesAreExclusive
  NoIdleEntries
CHECK_DEADLOCK FALSE
