\* Two callers; updates of all words, a measurement of two words and a word
\* past the end of the mapping, or of one; each update overlaps any query.
SPECIFICATION Spec
CONSTANTS
  Word = {0, 1, 2}
  Sets = {{0, 1, 2}, {1}, {2}}
  NbReg = 2
  Callers = {main, other}
  NoCaller = noCaller
  Client = client
  MaxUpdates = 2
INVARIANTS
  TypeOK
  SnapshotWhole
  MappingMirrors
  ClientValuesExpire
  ReplyNotStale
PROPERTIES
  AnswersNeverGoBack
\* After the last update the threads may all be idle.
CHECK_DEADLOCK FALSE
