\* Liveness on shorter lines: one telegram with up to two bytes of noise.
SPECIFICATION FairSpec
CONSTANTS
  Slash = slash
  Bang = bang
  Byte = {slash, bang, data}
  CRC_SIZE = 2
  READ_BUFF = 3
  MaxLine = 6
PROPERTIES
  CallReturns
\* openPort may throw, which ends the process.
CHECK_DEADLOCK FALSE
