CONSTANTS
  Writers = {w1}
  Readers = {r1, r2}
  Byte = {b0, b1}
  BufferSize = 2
  MaxLimit = 3
  MaxBytes = 4
SPECIFICATION FairSpec
INVARIANTS
  TypeOK
  FifoOrder
  NoLostWakeup
  EofIsFinal
PROPERTIES
  ImplementsChannel
  ReaderReleased
CHECK_DEADLOCK FALSE
