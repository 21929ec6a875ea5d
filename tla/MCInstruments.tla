----------------------------- MODULE MCInstruments ------------------------------
(* The heater, the humidifier, and an equilibration run that drives a chamber   *)
(* through a night (Characterization).  They share no state, so a behaviour     *)
(* follows one of them and leaves the others as they were.                      *)
EXTENDS Heater, Humidifier, Characterization

VARIABLE followed

InstrumentsInit ==
  /\ HeatInit /\ HumidInit /\ ChInit
  /\ followed \in {"heater", "humidifier", "night"}
  /\ followed # "heater" => host = "window"

InstrumentsNext ==
  /\ UNCHANGED followed
  /\ \/ followed = "heater" /\ HeatNext /\ UNCHANGED <<hvars, chvars>>
     \/ followed = "humidifier" /\ HumidNext /\ UNCHANGED <<heatvars, chvars>>
     \/ followed = "night" /\ ChNext /\ UNCHANGED <<heatvars, hvars>>

InstrumentsSpec ==
  /\ InstrumentsInit /\ [][InstrumentsNext]_<<heatvars, hvars, chvars, followed>>
  /\ HumidFairness /\ ChFairness

================================================================================
