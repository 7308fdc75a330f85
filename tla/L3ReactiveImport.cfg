\* The whole code table; a line of 63.7.0 is enough.
SPECIFICATION Spec
CONSTANTS
  Code <- ObisCode
  Field <- HpDataField
  FieldOf <- ObisTable
  Value = {0, 1}
  Zero = 0
  Malformed = malformed
  Telegrams <- OneOrThreeLines
  MaxTelegrams = 1
INVARIANTS
  L3ReactiveImportParsed
\* The meter may fall silent.
CHECK_DEADLOCK FALSE
