SPECIFICATION PathSpec
CONSTANTS
  Body <- MCBody
  Flips <- MCFlips
  Garbled <- MCGarbled
  Powers <- MCPowers
  Numbers <- MCNumbers
  Files <- MCFiles
INVARIANTS
  CrcIsRemainder
  BurstsRejected
  CrcTextDenotes
  LinesRejoin
  AtMostOneWattLost
  ChannelsClose
  HeartbeatTold
  WordsRoundTrip
  EveryFieldOnce
  ConfigMeansTheFile
\* A telegram, a value or a file is the last one.
CHECK_DEADLOCK FALSE
