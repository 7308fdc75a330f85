---------------------------- MODULE MCHanportMain ---------------------------
(* The small instance of HanportMain: two fields, and telegrams that hold  *)
(* both, one, or one and then a line that cannot be read.                  *)
EXTENDS HanportMain

Data1(c, v) == [kind |-> "data", obis |-> c, value |-> v]

TableOfTwo == [c \in Code |-> IF c = "1-0:1.8.0" THEN "active_energy_import_total"
                                                 ELSE "l1_voltage_rms"]
TopicsOfThree == <<Heartbeat, "active_energy_import_total", "l1_voltage_rms">>

SomeShapes ==
  {<<Data1("1-0:1.8.0", TRUE), Data1("1-0:32.7.0", TRUE)>>,
   <<[kind |-> "clock"], Data1("1-0:32.7.0", TRUE)>>,
   <<Data1("1-0:1.8.0", TRUE), Data1("1-0:32.7.0", Malformed)>>,
   <<Data1("1-0:32.7.0", Malformed), Data1("1-0:1.8.0", TRUE)>>}
=============================================================================
