\* The whole code table and two telegrams: the second meets the values that
\* the first left, good lines stand before and after a malformed one.
SPECIFICATION Spec
CONSTANTS
  Code <- ObisCode
  Field <- HpDataField
  FieldOf <- ObisTable
  Value = {0, 1}
  Zero = 0
  Malformed = malformed
  Telegrams <- OneOrThreeLines
  MaxTelegrams = 2
INVARIANTS
  TypeOK
  PrefixApplied
  StopsAtFirstMalformed
  FiledAsDenoted
\* The meter may fall silent.
CHECK_DEADLOCK FALSE
