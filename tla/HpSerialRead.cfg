\* Three byte classes and lines of up to 8 bytes: two shortest telegrams, or
\* one with noise, restarts and an extra '!' in any place; chunks of 1 to 3.
SPECIFICATION Spec
CONSTANTS
  Slash = slash
  Bang = bang
  Byte = {slash, bang, data}
  CRC_SIZE = 2
  READ_BUFF = 3
  MaxLine = 8
INVARIANTS
  TypeOK
  ReturnsAFrame
  NoFrameOverlooked
PROPERTIES
  FramesInOrder
\* openPort may throw, which ends the process.
CHECK_DEADLOCK FALSE
