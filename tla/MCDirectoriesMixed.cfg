CONSTANTS
  Name = {a, b}
  NameLength = 1
  Raw <- MCRaw
  Asked <- MCAsked
  MaxFiles = 2
  MaxHandles = 2
  BufferSizes <- MCBufferSizes
  Mixed = TRUE
  Unkept = FALSE
SPECIFICATION Spec
INVARIANTS
  OpenFilesExist
SYMMETRY MCSymmetry
VIEW state
CHECK_DEADLOCK FALSE
