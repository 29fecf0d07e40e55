CONSTANTS
  Name = {a, b}
  NameLength = 1
  Raw <- MCRaw
  Asked <- MCAsked
  MaxFiles = 2
  MaxHandles = 2
  BufferSizes <- MCBufferSizes
  Mixed = FALSE
  Unkept = FALSE
SPECIFICATION Spec
INVARIANTS
  TypeOK
  OpenFilesExist
  ObjectsAgree
  SizesAreTold
PROPERTY KeepsPromise
SYMMETRY MCSymmetry
VIEW state
CHECK_DEADLOCK FALSE
