\* Two clients and three descriptors: a listening socket and both connections,
\* or descriptors of other threads instead, and none left to accept with.
SPECIFICATION FairSpec
CONSTANTS
  Client = {c1, c2}
  MaxFd = 3
INVARIANTS
  TypeOK
  WatchesEveryConnection
  FdmaxCovers
  MappingOutlivesThread
  NeverWaitsOnQuiet
PROPERTIES
  EndsOnlyBySelect
  OthersKept
  QueriesAnswered
  StopReturns
\* Every state has a step, but all descriptors may be orphans or other.
CHECK_DEADLOCK FALSE
