CONSTANTS
  d = d
  f = f
  Process = {s, p}
  FirstShell = s
  Shells = {s, p}
  Root = Root
  Path <- MCPath
  Dirs <- MCDirs
  Parent <- MCParent
  MaxId = 3
  MaxCount = 2
  Unnamed = Unnamed
  NoElement = NoElement
  Beyond = Beyond
  NoPath = NoPath
  NoInfo = NoInfo
  Serial = {"search"}
SPECIFICATION Spec
INVARIANT HandlesAreExclusive
CHECK_DEADLOCK FALSE
