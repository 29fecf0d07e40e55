SPECIFICATION Spec
CONSTANTS
  SectorSize = 2
  SectorsPerCluster = 1
  SectorCount = 7
  FatType = 12
  ChainLength = 3
  Chains <- MCNeighbours
  Entries <- MCEntries
  Values = {4095, 3}
  Buffers <- MCBuffers
  Byte <- MCByte
  Zero = 0
  FAT_FREE = 4095
  Unset = Unset
PROPERTY WritesArrive
CHECK_DEADLOCK FALSE
