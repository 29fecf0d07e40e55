CONSTANTS
  Name = {a, b}
  NameLength = 1
  Raw <- MCRaw
  Asked <- MCAskedAll
  MaxFiles = 2
  MaxHandles = 2
  BufferSizes <- MCBufferSizes
  Mixed = FALSE
  Unkept = TRUE
SPECIFICATION Spec
PROPERTY CreationsReplace
SYMMETRY MCSymmetry
VIEW state
CHECK_DEADLOCK FALSE
