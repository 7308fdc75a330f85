----------------------------- MODULE HpObisTable ----------------------------
(***************************************************************************)
(* The if-else chain of parse_electricity_data() in                        *)
(* src/src/hpDataParser.cpp: which field of hpData the branch of an OBIS   *)
(* code assigns, and, apart from it, which field the code denotes.         *)
(*                                                                         *)
(* The code 1-0:C.D.0 is written <<C, D>>; the field l1_voltage_rms of     *)
(* hpData is written <<1, "voltage_rms">>, and a field of the whole meter  *)
(* has phase 0.                                                            *)
(***************************************************************************)
EXTENDS HpDataParser, HpData

\* The branches: code and assigned field, in the order of the code, and
\* 63.7.0 as it is there.
EnergyBranches ==
  {<< <<1, 8>>, <<0, "active_energy_import_total">> >>,
   << <<2, 8>>, <<0, "active_energy_export_total">> >>,
   << <<3, 8>>, <<0, "reactive_energy_import_total">> >>,
   << <<4, 8>>, <<0, "reactive_energy_export_total">> >>}

PowerBranches ==
  {<< <<1, 7>>, <<0, "active_power_import">> >>,
   << <<2, 7>>, <<0, "active_power_export">> >>,
   << <<3, 7>>, <<0, "reactive_power_import">> >>,
   << <<4, 7>>, <<0, "reactive_power_export">> >>,
   << <<21, 7>>, <<1, "active_power_import">> >>,
   << <<22, 7>>, <<1, "active_power_export">> >>,
   << <<41, 7>>, <<2, "active_power_import">> >>,
   << <<42, 7>>, <<2, "active_power_export">> >>,
   << <<61, 7>>, <<3, "active_power_import">> >>,
   << <<62, 7>>, <<3, "active_power_export">> >>,
   << <<23, 7>>, <<1, "reactive_power_import">> >>,
   << <<24, 7>>, <<1, "reactive_power_export">> >>,
   << <<43, 7>>, <<2, "reactive_power_import">> >>,
   << <<44, 7>>, <<2, "reactive_power_export">> >>,
   << <<63, 7>>, <<3, "reactive_power_export">> >>,
   << <<64, 7>>, <<3, "reactive_power_export">> >>}

\* Faulty variant: the voltage of L2 is filed as a current.
VoltageBranchesSlip ==
  {<< <<32, 7>>, <<1, "voltage_rms">> >>,
   << <<52, 7>>, <<2, "current_rms">> >>,
   << <<72, 7>>, <<3, "voltage_rms">> >>}

VoltageBranches ==
  {<< <<32, 7>>, <<1, "voltage_rms">> >>,
   << <<52, 7>>, <<2, "voltage_rms">> >>,
   << <<72, 7>>, <<3, "voltage_rms">> >>}

CurrentBranches ==
  {<< <<31, 7>>, <<1, "current_rms">> >>,
   << <<51, 7>>, <<2, "current_rms">> >>,
   << <<71, 7>>, <<3, "current_rms">> >>}

Branches ==
  EnergyBranches \cup PowerBranches \cup VoltageBranches \cup CurrentBranches

ObisCode == {b[1] : b \in Branches}
ObisTable == [c \in ObisCode |-> (CHOOSE b \in Branches : b[1] = c)[2]]

-----------------------------------------------------------------------------
(* What a code denotes: D = 8 is an energy and D = 7 a momentary value; C  *)
(* counts the quantities 1 to 4 of the whole meter, and those of phase p   *)
(* from 20 p, with the current 11 and the voltage 12.                      *)

Denotes(c) ==
  LET C == c[1] IN
  IF c[2] = 8 THEN <<0, Energy[C]>>
  ELSE CASE C % 20 = 11 -> <<(C \div 20), "current_rms">>
         [] C % 20 = 12 -> <<(C \div 20), "voltage_rms">>
         [] OTHER -> <<(C \div 20), Power[C % 20]>>
Denotation == [c \in ObisCode |-> Denotes(c)]

-----------------------------------------------------------------------------
(* Properties.                                                             *)

L3Reactive == {<<3, "reactive_power_import">>, <<3, "reactive_power_export">>}

\* Every field but two holds, after any lines, the last value of a line
\* whose code denotes it: the 26 branches assign the fields that the
\* numbers of their codes stand for (hpDataParser.cpp:71-194).
FiledAsDenoted ==
  \A f \in HpDataField \ L3Reactive : IsLastValue(Denotation, f, i, dt_obj[f])

\* The same of the field that the comment at hpDataParser.cpp:155 names over
\* the branch of 63.7.0: "l3 reactive power import".
L3ReactiveImportParsed ==
  IsLastValue(Denotation, <<3, "reactive_power_import">>, i,
              dt_obj[<<3, "reactive_power_import">>])
=============================================================================
