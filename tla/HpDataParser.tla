---------------------------- MODULE HpDataParser ----------------------------
(***************************************************************************)
(* The telegram parser of src/src/hpDataParser.cpp: parse_message() walks  *)
(* the lines of a validated telegram and overwrites, one line at a time,   *)
(* the fields of the caller's hpData.  A line that names a known OBIS code *)
(* but carries no readable value throws, and what the earlier lines wrote  *)
(* stays written.                                                          *)
(*                                                                         *)
(* A line is reduced to what decides its branch: whether it is skipped,    *)
(* which code stands before its '(' and the float that std::stof reads     *)
(* between '(' and '*'.  The hpData object is shared with main and lives   *)
(* on from telegram to telegram.                                           *)
(***************************************************************************)
EXTENDS Naturals, Sequences

CONSTANTS
  Code,       \* the OBIS codes that have a branch
  Field,      \* the measured fields of hpData
  FieldOf,    \* the field that the branch of a code assigns
  Value,      \* the floats a line may carry
  Zero,       \* the value of a field nothing was parsed into
  Malformed,  \* a value part without '(' or '*' or a number between them
  Telegrams,  \* model bound: the telegrams that may come, as their lines
  MaxTelegrams  \* model bound: telegrams parsed

ASSUME TableAssumption == FieldOf \in [Code -> Field]
ASSUME ValueAssumption == Zero \in Value /\ Malformed \notin Value

\* "no_dash" and "clock" lines are skipped before the code is looked at;
\* the code of an "unknown" line matches no branch.
Line ==
  [kind : {"no_dash", "clock", "unknown"}]
    \cup [kind : {"data"}, obis : Code, value : Value \cup {Malformed}]

ASSUME ParserBounds == Telegrams \subseteq Seq(Line) /\ MaxTelegrams \in Nat

VARIABLES
  message_array,  \* the lines of the telegram
  i,              \* how many of them the loop has dealt with
  dt_obj,         \* the caller's hpData
  outcome,        \* "idle", "parsing", "parsed" or "thrown"
  dt_before,      \* history: dt_obj when the parser was constructed
  telegrams       \* how many telegrams were handed to the parser

vars == <<message_array, i, dt_obj, outcome, dt_before, telegrams>>

Init ==
  /\ message_array = <<>> /\ i = 0 /\ outcome = "idle" /\ telegrams = 0
  /\ dt_obj = [f \in Field |-> Zero] /\ dt_before = dt_obj

-----------------------------------------------------------------------------
\* Faulty variant: the loop index survives from the last telegram.
ConstructKeepsIndex(lines) ==
  /\ outcome = "idle" /\ telegrams < MaxTelegrams
  /\ message_array' = lines
  /\ outcome' = IF lines = <<>> THEN "thrown" ELSE "parsing"
  /\ dt_before' = dt_obj
  /\ telegrams' = telegrams + 1
  /\ UNCHANGED <<i, dt_obj>>

\* main constructs a parser with the telegram's lines.
Construct(lines) ==
  /\ outcome = "idle" /\ telegrams < MaxTelegrams
  /\ message_array' = lines /\ i' = 0
  /\ outcome' = IF lines = <<>> THEN "thrown" ELSE "parsing"
  /\ dt_before' = dt_obj
  /\ telegrams' = telegrams + 1
  /\ UNCHANGED dt_obj

line == message_array[i + 1]
Parsing == outcome = "parsing" /\ i < Len(message_array)

SkipLine ==
  /\ Parsing /\ line.kind # "data"
  /\ i' = i + 1
  /\ UNCHANGED <<message_array, dt_obj, outcome, dt_before, telegrams>>

\* Faulty variant: a line only fills a field that is still empty.
ParseDataOnce ==
  /\ Parsing /\ line.kind = "data" /\ line.value # Malformed
  /\ i' = i + 1
  /\ dt_obj' = IF dt_obj[FieldOf[line.obis]] = Zero
                 THEN [dt_obj EXCEPT ![FieldOf[line.obis]] = line.value]
                 ELSE dt_obj
  /\ UNCHANGED <<message_array, outcome, dt_before, telegrams>>

\* parse_electricity_data: the branch of the code assigns set_value(line).
ParseData ==
  /\ Parsing /\ line.kind = "data" /\ line.value # Malformed
  /\ i' = i + 1
  /\ dt_obj' = [dt_obj EXCEPT ![FieldOf[line.obis]] = line.value]
  /\ UNCHANGED <<message_array, outcome, dt_before, telegrams>>

\* Faulty variant: a malformed line is skipped.
ParseThrowsNot ==
  /\ Parsing /\ line.kind = "data" /\ line.value = Malformed
  /\ i' = i + 1
  /\ UNCHANGED <<message_array, dt_obj, outcome, dt_before, telegrams>>

\* set_value throws out of parse_message.
ParseThrows ==
  /\ Parsing /\ line.kind = "data" /\ line.value = Malformed
  /\ outcome' = "thrown"
  /\ UNCHANGED <<message_array, i, dt_obj, dt_before, telegrams>>

ParseDone ==
  /\ outcome = "parsing" /\ i = Len(message_array)
  /\ outcome' = "parsed"
  /\ UNCHANGED <<message_array, i, dt_obj, dt_before, telegrams>>

\* main leaves the block of the parser.
Leave ==
  /\ outcome \in {"parsed", "thrown"}
  /\ outcome' = "idle"
  /\ UNCHANGED <<message_array, i, dt_obj, dt_before, telegrams>>

-----------------------------------------------------------------------------
ParseStep == SkipLine \/ ParseData \/ ParseThrows \/ ParseDone

Next ==
  \/ \E lines \in Telegrams : Construct(lines)
  \/ ParseStep
  \/ Leave

Spec == Init /\ [][Next]_vars

-----------------------------------------------------------------------------
(* Properties.                                                             *)

TypeOK ==
  /\ message_array \in Seq(Line) /\ i \in 0..Len(message_array)
  /\ dt_obj \in [Field -> Value] /\ dt_before \in [Field -> Value]
  /\ outcome \in {"idle", "parsing", "parsed", "thrown"}
  /\ telegrams \in 0..MaxTelegrams

IsMalformed(l) == l.kind = "data" /\ l.value = Malformed

\* The lines among the first n whose code table F files under field f.
Writers(F, f, n) ==
  {k \in 1..n : /\ message_array[k].kind = "data"
                /\ F[message_array[k].obis] = f}

\* v is what the first n lines make of field f under table F: the value of
\* the last of them, or the value from before the telegram.
IsLastValue(F, f, n, v) ==
  \/ Writers(F, f, n) = {} /\ v = dt_before[f]
  \/ \E k \in Writers(F, f, n) :
       /\ \A m \in Writers(F, f, n) : m <= k
       /\ v = message_array[k].value

\* The record is at every moment the one before the telegram, overwritten
\* by the lines parsed so far, the later line winning: a throw leaves it
\* between two telegrams (hpDataParser.cpp:17-31, 71-194).
PrefixApplied == \A f \in Field : IsLastValue(FieldOf, f, i, dt_obj[f])

\* Parsing ends normally only if no line was malformed, and otherwise at
\* the first malformed line (hpDataParser.cpp:52-69).
StopsAtFirstMalformed ==
  /\ \A k \in 1..i : ~IsMalformed(message_array[k])
  /\ outcome = "parsed" => i = Len(message_array)
  /\ outcome = "thrown" /\ message_array # <<>> =>
       i < Len(message_array) /\ IsMalformed(line)
=============================================================================
