------------------------------ MODULE MCDataPath ----------------------------
(***************************************************************************)
(* The computations on the way of a value from the line to registers and   *)
(* topics.  They share no state: a behaviour validates a telegram, encodes *)
(* a value or reads a configuration file.                                  *)
(***************************************************************************)
EXTENDS HpMessageValidator, HpEncoding, HpConfig

\* Up to two bytes and '!', disturbed in one bit, two, a run of them, or none.
Short == {Append(d, Bang) : d \in UNION {[1..n -> {0, 47, 255}] : n \in 0..2}}
Shapes == {{}} \cup {{0, k} : k \in 0..15} \cup {0..k : k \in 0..15}
Disturbances(body) ==
  {{}} \cup {places \in {Moved(s, k) : s \in Shapes, k \in 0..8 * Len(body) - 1} :
              places \subseteq 0..8 * Len(body) - 1}

\* Up to five of line feed, carriage return and 'A', and '!'.
Lines == {Append(d, Bang) : d \in UNION {[1..n -> {10, 13, 65}] : n \in 0..5}}

MCBody == Short \cup Lines
MCFlips ==
  [body \in MCBody |-> IF body \in Short THEN Disturbances(body) ELSE {{}}]

\* Up to four of: tab, plus, minus, '0', 'x', '1', 'F', 'f', 'G'.
MCGarbled ==
  [body \in MCBody |->
     IF Len(body) > 1 THEN {}
     ELSE UNION {[1..n -> {9, 43, 45, 48, 120, 49, 70, 102, 71}] : n \in 0..4}]

\* The first thousandths, and those around powers of two.
MCPowers == 0..2999 \cup UNION {2^k - 9..2^k + 9 : k \in 12..23} \cup 9999990..9999999

\* Around the numbers a float cannot hold, and around the word limits.
MCNumbers ==
  0..9 \cup UNION {2^k - 9..2^k + 9 : k \in {8, 16, 23, 24, 25, 26, 30}}

\* One line of up to four characters, or four of some longer lines.
LongLine ==
  {<<"[", "a", "]">>, <<"[", " ", "b", "]", " ">>, <<"[", "b", "]", ";">>,
   <<"a", "=", "x">>, <<"a", " ", "=", "y", "#", "z", ";">>,
   <<"[", "a", "=", "x", "]">>}
MCFiles ==
  {<<>>}
    \cup {<<line>> : line \in
            UNION {[1..n -> {" ", ";", "#", "[", "]", "=", "a"}] : n \in 0..4}}
    \cup [1..4 -> LongLine]

ValidatorIdle == sent = <<Bang>> /\ pc = "meter" /\ i = 0
EncodingIdle == field = Heartbeat /\ power = 0 /\ number = 0
ConfigIdle == file = <<>>

PathInit ==
  /\ Init /\ EncodingInit /\ LoadInit
  /\ ValidatorIdle \/ ConfigIdle

\* A power is tried for one field, and every field with one power.
Encode ==
  EncodingNext /\ (power' = 0 \/ field' = <<0, "active_power_import">>)

PathNext ==
  \/ /\ EncodingIdle /\ ConfigIdle /\ UNCHANGED <<encodingVars, configVars>>
     /\ Next
  \/ /\ ValidatorIdle /\ EncodingIdle /\ ConfigIdle
     /\ UNCHANGED <<vars, configVars>>
     /\ Encode
  \/ /\ ValidatorIdle /\ EncodingIdle /\ UNCHANGED <<vars, encodingVars>>
     /\ ReadLine

PathSpec == PathInit /\ [][PathNext]_<<vars, encodingVars, configVars>>
=============================================================================
