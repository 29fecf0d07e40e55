SPECIFICATION FairSpec
CONSTANTS
  a = a
  b = b
  Lines <- MCLines
  MaxLines = 2
  Files <- MCFiles
  NoFile = NoFile
  Slots <- MCSlots
  MaxId = 9
  Pipes <- MCPipes
  BufferSize = 2
  ReadLimit = 2
  Long = 3
  NoProcess = NoProcess
  Nothing = Nothing
INVARIANTS TypeOK NothingIsLeft OutputArrives FilesStayOpen
PROPERTIES LineEnds
CHECK_DEADLOCK FALSE
