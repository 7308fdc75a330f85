\* A reply that an update overlaps.
SPECIFICATION Spec
CONSTANTS
  Word = {0, 1, 2}
  Sets = {{0, 1, 2}}
  NbReg = 2
  Callers = {main, other}
  NoCaller = noCaller
  Client = client
  MaxUpdates = 2
INVARIANTS
  MeasurementsWhole
\* After the last update the threads may all be idle.
CHECK_DEADLOCK FALSE
