-------------------------- MODULE HpDataParser_proofs -----------------------
(***************************************************************************)
(* Proofs about HpDataParser for every code table, every set of values and *)
(* telegrams of any length, and about the table the code has.              *)
(* PrefixApplied and StopsAtFirstMalformed are inductive once the types    *)
(* are known.                                                              *)
(***************************************************************************)
EXTENDS HpObisTable, TLAPS

\* Every step keeps the types.
LEMMA TypeStep == TypeOK /\ [Next]_vars => TypeOK'
<1> SUFFICES ASSUME TypeOK, [Next]_vars PROVE TypeOK'
  OBVIOUS
<1> USE TableAssumption, ValueAssumption, ParserBounds DEF TypeOK
<1>1. ASSUME NEW lines \in Telegrams, Construct(lines)
      PROVE  TypeOK'
  <2>1. lines \in Seq(Line) /\ Len(lines) \in Nat
    BY ParserBounds
  <2>2. outcome' \in {"parsing", "thrown"}
    BY <1>1 DEF Construct
  <2>3. i' \in 0..Len(message_array')
    BY <1>1, <2>1 DEF Construct
  <2>4. QED
    BY <1>1, <2>1, <2>2, <2>3 DEF Construct
<1>2. CASE SkipLine
  BY <1>2 DEF SkipLine, Parsing
<1>3. CASE ParseData
  <2>1. line \in Line /\ line.kind = "data" /\ line.value # Malformed
    BY <1>3 DEF ParseData, Parsing, line
  <2>2. line.obis \in Code /\ line.value \in Value
    BY <2>1 DEF Line
  <2>3. dt_obj' \in [Field -> Value]
    BY <1>3, <2>2 DEF ParseData
  <2>4. QED
    BY <1>3, <2>3 DEF ParseData, Parsing
<1>4. CASE ParseThrows \/ ParseDone \/ Leave \/ UNCHANGED vars
  BY <1>4 DEF ParseThrows, ParseDone, Leave, vars
<1>5. QED
  BY <1>1, <1>2, <1>3, <1>4 DEF Next, ParseStep

-----------------------------------------------------------------------------
(* One line more.                                                          *)

\* A line that does not write f leaves the value that the prefix gives it.
LEMMA PrefixSkips ==
  ASSUME NEW f, NEW v, i \in Nat,
         IsLastValue(FieldOf, f, i, v),
         ~ (/\ message_array[i + 1].kind = "data"
            /\ FieldOf[message_array[i + 1].obis] = f)
  PROVE  IsLastValue(FieldOf, f, i + 1, v)
<1>1. Writers(FieldOf, f, i + 1) = Writers(FieldOf, f, i)
  BY DEF Writers
<1>2. QED
  BY <1>1 DEF IsLastValue

\* A line that writes f gives it its value.
LEMMA PrefixWrites ==
  ASSUME NEW f, i \in Nat,
         message_array[i + 1].kind = "data",
         FieldOf[message_array[i + 1].obis] = f
  PROVE  IsLastValue(FieldOf, f, i + 1, message_array[i + 1].value)
<1>1. i + 1 \in Writers(FieldOf, f, i + 1)
  BY DEF Writers
<1>2. \A m \in Writers(FieldOf, f, i + 1) : m <= i + 1
  BY DEF Writers
<1>3. QED
  BY <1>1, <1>2 DEF IsLastValue

\* Every step keeps the record equal to the prefix parsed.
LEMMA PrefixStep ==
  TypeOK /\ PrefixApplied /\ [Next]_vars => PrefixApplied'
<1> SUFFICES ASSUME TypeOK, PrefixApplied, [Next]_vars,
                    NEW f \in Field
             PROVE  IsLastValue(FieldOf, f, i, dt_obj[f])'
  BY DEF PrefixApplied
<1>0. i \in Nat /\ IsLastValue(FieldOf, f, i, dt_obj[f])
  BY DEF TypeOK, PrefixApplied
<1>1. ASSUME NEW lines \in Telegrams, Construct(lines)
      PROVE  IsLastValue(FieldOf, f, i, dt_obj[f])'
  BY <1>1 DEF Construct, IsLastValue, Writers
<1>2. CASE SkipLine
  <2>1. IsLastValue(FieldOf, f, i + 1, dt_obj[f])
    BY <1>0, <1>2, PrefixSkips DEF SkipLine, line
  <2>2. QED
    BY <1>2, <2>1 DEF SkipLine, IsLastValue, Writers
<1>3. CASE ParseData
  <2>0. line \in Line /\ line.kind = "data" /\ line.obis \in Code
    BY <1>3 DEF ParseData, Parsing, line, Line, TypeOK
  <2>1. CASE FieldOf[line.obis] = f
    <3>1. dt_obj'[f] = message_array[i + 1].value
      BY <1>3, <2>1 DEF ParseData, line, TypeOK
    <3>2. IsLastValue(FieldOf, f, i + 1, message_array[i + 1].value)
      BY <1>0, <2>0, <2>1, PrefixWrites DEF line
    <3>3. QED
      BY <1>3, <3>1, <3>2 DEF ParseData, IsLastValue, Writers
  <2>2. CASE FieldOf[line.obis] # f
    <3>1. dt_obj'[f] = dt_obj[f]
      BY <1>3, <2>2 DEF ParseData, TypeOK
    <3>2. IsLastValue(FieldOf, f, i + 1, dt_obj[f])
      BY <1>0, <2>2, PrefixSkips DEF line
    <3>3. QED
      BY <1>3, <3>1, <3>2 DEF ParseData, IsLastValue, Writers
  <2>3. QED
    BY <2>1, <2>2
<1>4. CASE ParseThrows \/ ParseDone \/ Leave \/ UNCHANGED vars
  BY <1>0, <1>4 DEF ParseThrows, ParseDone, Leave, vars, IsLastValue, Writers
<1>5. QED
  BY <1>1, <1>2, <1>3, <1>4 DEF Next, ParseStep

\* Every step keeps what is said of the end of parsing.
LEMMA StopsStep ==
  TypeOK /\ StopsAtFirstMalformed /\ [Next]_vars => StopsAtFirstMalformed'
<1> SUFFICES ASSUME TypeOK, StopsAtFirstMalformed, [Next]_vars
             PROVE  StopsAtFirstMalformed'
  OBVIOUS
<1>1. ASSUME NEW lines \in Telegrams, Construct(lines)
      PROVE  StopsAtFirstMalformed'
  BY <1>1 DEF Construct, StopsAtFirstMalformed
<1>2. CASE SkipLine \/ ParseData
  <2>1. /\ i \in Nat /\ i' = i + 1 /\ message_array' = message_array
        /\ ~IsMalformed(message_array[i + 1]) /\ outcome' = "parsing"
    BY <1>2 DEF SkipLine, ParseData, Parsing, line, IsMalformed, TypeOK
  <2>2. \A k \in 1..(i + 1) : k = i + 1 \/ k \in 1..i
    BY <2>1
  <2>3. QED
    BY <2>1, <2>2 DEF StopsAtFirstMalformed, IsMalformed
<1>3. CASE ParseThrows
  BY <1>3 DEF ParseThrows, Parsing, StopsAtFirstMalformed, IsMalformed, line
<1>4. CASE ParseDone \/ Leave \/ UNCHANGED vars
  BY <1>4 DEF ParseDone, Leave, vars, StopsAtFirstMalformed, IsMalformed, line
<1>5. QED
  BY <1>1, <1>2, <1>3, <1>4 DEF Next, ParseStep

-----------------------------------------------------------------------------
\* The three invariants hold at the start.
LEMMA Initially == Init => TypeOK /\ PrefixApplied /\ StopsAtFirstMalformed
<1> SUFFICES ASSUME Init PROVE TypeOK /\ PrefixApplied /\ StopsAtFirstMalformed
  OBVIOUS
<1>1. message_array \in Seq(Line) /\ Len(message_array) = 0
  BY DEF Init
<1>2. TypeOK
  BY <1>1, ValueAssumption, ParserBounds DEF Init, TypeOK
<1>3. PrefixApplied
  BY DEF Init, PrefixApplied, IsLastValue, Writers
<1>4. StopsAtFirstMalformed
  BY DEF Init, StopsAtFirstMalformed
<1>5. QED
  BY <1>2, <1>3, <1>4

\* The parser keeps its types whatever the telegrams hold.
THEOREM TypeCorrect == Spec => []TypeOK
  BY Initially, TypeStep, PTL DEF Spec

\* At every moment the record is the one from before the telegram,
\* overwritten by the lines parsed so far (hpDataParser.cpp:17-31).
THEOREM PrefixTheorem == Spec => []PrefixApplied
  BY Initially, TypeStep, PrefixStep, PTL DEF Spec

\* parse_message ends normally exactly when no line is malformed, and
\* throws at the first one that is (hpDataParser.cpp:52-69).
THEOREM StopsTheorem == Spec => []StopsAtFirstMalformed
  BY Initially, TypeStep, StopsStep, PTL DEF Spec

-----------------------------------------------------------------------------
(* The record holds what the codes denote, whatever the telegrams are.     *)

\* The one branch that does not assign what its code denotes stays among the
\* reactive powers of L3.
AsDenoted(b) ==
  \/ b[2] = Denotes(b[1])
  \/ b[2] \in L3Reactive /\ Denotes(b[1]) \in L3Reactive

LEMMA EnergiesDenoted == \A b \in EnergyBranches : AsDenoted(b)
BY DEF EnergyBranches, AsDenoted, Denotes, Energy

LEMMA PowersDenoted == \A b \in PowerBranches : AsDenoted(b)
BY DEF PowerBranches, AsDenoted, Denotes, Power, L3Reactive

LEMMA VoltagesAndCurrentsDenoted ==
  \A b \in VoltageBranches \cup CurrentBranches : AsDenoted(b)
BY DEF VoltageBranches, CurrentBranches, AsDenoted, Denotes

\* Where a field of another quantity is concerned, the table and what the
\* codes denote are the same.
LEMMA SameFiling ==
  \A c \in ObisCode, f \in HpDataField \ L3Reactive :
    ObisTable[c] = f <=> Denotation[c] = f
<1> SUFFICES ASSUME NEW c \in ObisCode, NEW f \in HpDataField \ L3Reactive
             PROVE  ObisTable[c] = f <=> Denotation[c] = f
  OBVIOUS
<1>1. PICK b \in Branches : b[1] = c /\ ObisTable[c] = b[2]
  <2>1. \E b \in Branches : b[1] = c
    BY DEF ObisCode
  <2> QED
    BY <2>1 DEF ObisTable
<1>2. AsDenoted(b)
  BY EnergiesDenoted, PowersDenoted, VoltagesAndCurrentsDenoted DEF Branches
<1>3. Denotation[c] = Denotes(b[1])
  BY <1>1 DEF Denotation
<1> QED
  BY <1>1, <1>2, <1>3 DEF AsDenoted

\* The branches fill every field but two with the lines whose codes denote
\* it, whatever lines come (hpDataParser.cpp:71-194).
THEOREM FiledTheorem ==
  ASSUME FieldOf = ObisTable, Field = HpDataField
  PROVE  Spec => []FiledAsDenoted
<1>1. TypeOK /\ PrefixApplied => FiledAsDenoted
  <2> SUFFICES ASSUME TypeOK, PrefixApplied, NEW f \in HpDataField \ L3Reactive
               PROVE  IsLastValue(Denotation, f, i, dt_obj[f])
    BY DEF FiledAsDenoted
  <2>1. Code = ObisCode
    BY TableAssumption DEF ObisTable
  <2>2. \A k \in 1..i : message_array[k].kind = "data" =>
          message_array[k].obis \in ObisCode
    <3> SUFFICES ASSUME NEW k \in 1..i, message_array[k].kind = "data"
                 PROVE  message_array[k].obis \in ObisCode
      OBVIOUS
    <3>1. message_array[k] \in Line
      BY DEF TypeOK
    <3> QED
      BY <2>1, <3>1 DEF Line
  <2>3. Writers(Denotation, f, i) = Writers(FieldOf, f, i)
    BY <2>2, SameFiling DEF Writers
  <2> QED
    BY <2>3 DEF PrefixApplied, IsLastValue
<1> QED
  BY <1>1, TypeCorrect, PrefixTheorem, PTL
=============================================================================
