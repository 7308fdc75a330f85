-------------------------------- MODULE HpData ------------------------------
(***************************************************************************)
(* The fields of hpData (src/include/hpData.hpp), in the order in which    *)
(* hpModbuss.cpp gives them registers and hpMqttPub.cpp topics.  The field *)
(* l1_voltage_rms is written <<1, "voltage_rms">>, and a field of the      *)
(* whole meter has phase 0.                                                *)
(***************************************************************************)
EXTENDS Naturals, SequencesExt

Heartbeat == <<0, "heartbeat">>
Energy == <<"active_energy_import_total", "active_energy_export_total",
            "reactive_energy_import_total", "reactive_energy_export_total">>
Power == <<"active_power_import", "active_power_export",
           "reactive_power_import", "reactive_power_export">>

\* The float members of hpData.
HpDataField ==
  ({0} \X Range(Energy)) \cup ((0..3) \X Range(Power))
    \cup ((1..3) \X {"voltage_rms", "current_rms"})

OfPhase(p, quantities) == [k \in DOMAIN quantities |-> <<p, quantities[k]>>]
\* Faulty variant: L2's quantities are appended for L3 as well.
EachPhaseSlip(quantities) ==
  OfPhase(1, quantities) \o OfPhase(2, quantities) \o OfPhase(2, quantities)

EachPhase(quantities) ==
  OfPhase(1, quantities) \o OfPhase(2, quantities) \o OfPhase(3, quantities)

MeterFields == <<Heartbeat>> \o OfPhase(0, Energy) \o OfPhase(0, Power)

\* Two registers for each of these, from address 0 on.
make_regs ==
  MeterFields
    \o EachPhase(SubSeq(Power, 1, 2)) \o EachPhase(SubSeq(Power, 3, 4))
    \o EachPhase(<<"voltage_rms">>) \o EachPhase(<<"current_rms">>)

\* One topic for each of these, in the order they are sent.
publishIndividualFields ==
  MeterFields \o EachPhase(Power \o <<"voltage_rms", "current_rms">>)
=============================================================================
