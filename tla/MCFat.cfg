SPECIFICATION Spec
CONSTANTS
  f = f  g = g  h = h
  Name = {f, g, h}
  ClusterCount = 5
  ClusterSize = 5
  EntrySize = 2
  HowMany <- MCHowMany
  Offsets <- MCOffsets
  MaxPosition = 12
  Shrinking = FALSE
  Scattered = FALSE
  FAT_EOF = FAT_EOF
  FAT_FREE = FAT_FREE
  Closed = Closed
INVARIANTS TypeOK ChainsPartitionTheDisk NoClusterIsLost SizesFit EntriesAreTrue
PROPERTIES OpenFilesOnlyGrow
SYMMETRY Symmetry
