------------------------------- MODULE MCRunLock -------------------------------
(* RunLock on three processes: one machine, or two that share the data root. *)
EXTENDS RunLock

CONSTANT Visitor   \* the process on the other machine

OneHost  == [p \in Proc |-> "rig-pc"]
TwoHosts == [p \in Proc |-> IF p = Visitor THEN "office-pc" ELSE "rig-pc"]
================================================================================
