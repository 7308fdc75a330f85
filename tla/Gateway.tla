------------------------------- MODULE Gateway ------------------------------
(***************************************************************************)
(* What the gateway promises its readers, whatever the order and number of *)
(* steps it takes for it: a telegram with a correct CRC is taken over once *)
(* and at once, with the fields it held before it broke off, if it did;    *)
(* registers and topics only ever show what the gateway knows at that      *)
(* moment; and a gateway that ends forgets what it knew and serves no      *)
(* registers.  A value is the number of the telegram it comes from.        *)
(***************************************************************************)
EXTENDS Naturals

CONSTANTS Field, Heartbeat, Nothing

Exposed == Field \cup {Heartbeat}

VARIABLES
  known,      \* the newest value of every field, 0 before there is one
  beat,       \* the heartbeat
  offered,    \* the last telegram heard is valid and not yet taken over
  heard,      \* how many telegrams were heard
  registers,  \* what a Modbus client reads, Nothing while none are served
  topics      \* what a subscriber got last on each topic

vars == <<known, beat, offered, heard, registers, topics>>

Zeros == [f \in Field |-> 0]
Shown(x) == IF x = Heartbeat THEN beat ELSE known[x]

Init ==
  /\ known = Zeros /\ beat = 0 /\ offered = FALSE /\ heard = 0
  /\ registers = Nothing /\ topics = [x \in Exposed |-> Nothing]

Beat ==
  /\ beat' = beat + 1
  /\ UNCHANGED <<known, offered, heard, registers, topics>>

Hear ==
  /\ ~offered
  /\ heard' = heard + 1 /\ offered' \in BOOLEAN
  /\ UNCHANGED <<known, beat, registers, topics>>

Learn(F) ==
  /\ offered /\ offered' = FALSE
  /\ known' = [f \in Field |-> IF f \in F THEN heard ELSE known[f]]
  /\ UNCHANGED <<beat, heard, registers, topics>>

Serve ==
  /\ registers = Nothing
  /\ registers' = [x \in Exposed |-> 0]
  /\ UNCHANGED <<known, beat, offered, heard, topics>>

Write ==
  /\ registers # Nothing
  /\ registers' = [x \in Exposed |-> Shown(x)]
  /\ UNCHANGED <<known, beat, offered, heard, topics>>

Publish(x) ==
  /\ topics' = [topics EXCEPT ![x] = Shown(x)]
  /\ UNCHANGED <<known, beat, offered, heard, registers>>

End ==
  /\ known' = Zeros /\ beat' = 0 /\ offered' = FALSE
  /\ registers' = Nothing
  /\ UNCHANGED <<heard, topics>>

Next ==
  \/ Beat \/ Hear \/ Serve \/ Write \/ End
  \/ \E F \in SUBSET Field : Learn(F)
  \/ \E x \in Exposed : Publish(x)

Spec == Init /\ [][Next]_vars
=============================================================================
