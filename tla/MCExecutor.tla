------------------------------- MODULE MCExecutor -------------------------------
(* The two ways a workflow is executed: linear, on two channels, with the two   *)
(* layouts deposition_recipe emits; and by tiers, a sweep as temp_eis_sweep.py  *)
(* builds it, of a setpoint, a wait for it, a reading of two channels by one    *)
(* instrument in one tier, and the next setpoint.  They share no state, so a    *)
(* behaviour follows one of them and leaves the other as it was.                *)
EXTENDS Executor, Tiers

CONSTANTS a, b, setT0, waitT0, eisA, eisB, setT1, temp, eis

StepOf(c, what, attempts, window) == [ch |-> c, phase |-> what, tries |-> attempts, window |-> window]

\* Per batch: cast all, anneal the plate with purges beside it, measure all.
Deferred == <<
  StepOf(NoChannel, "flush", 1, FALSE),
  StepOf(a, "precondition", 1, FALSE), StepOf(a, "deposit", 1, FALSE),
  StepOf(b, "precondition", 1, FALSE), StepOf(b, "deposit", 1, FALSE),
  StepOf(NoChannel, "anneal", 1, TRUE),
  StepOf(a, "eis", 2, TRUE), StepOf(b, "eis", 2, TRUE)>>

\* Per sample (the pointwise default): a channel is cast and measured before the next.
Pointwise == <<
  StepOf(a, "deposit", 1, FALSE), StepOf(a, "eis", 2, TRUE),
  StepOf(b, "deposit", 1, FALSE), StepOf(b, "eis", 2, TRUE)>>

MCNeeds == [s \in {setT0, waitT0, eisA, eisB, setT1} |->
              CASE s = setT0 -> {}
                [] s = waitT0 -> {setT0}
                [] s = setT1 -> {eisA, eisB}
                [] OTHER -> {waitT0}]
MCOn == [s \in {setT0, waitT0, eisA, eisB, setT1} |-> IF s \in {eisA, eisB} THEN eis ELSE temp]
MCRetry == [s \in {setT0, waitT0, eisA, eisB, setT1} |-> IF s \in {eisA, eisB} THEN 1 ELSE 0]

VARIABLE followed

ExecutionInit == Init /\ TierInit /\ followed \in {"linear", "tiers"}

ExecutionNext ==
  /\ UNCHANGED followed
  /\ \/ followed = "linear" /\ Next /\ UNCHANGED tvars
     \/ followed = "tiers" /\ TierNext /\ UNCHANGED vars

ExecutionSpec == ExecutionInit /\ [][ExecutionNext]_<<vars, tvars, followed>>

FairExecutionSpec ==
  /\ ExecutionSpec
  /\ followed = "linear" => Fairness
  /\ followed = "tiers" => TierFairness

================================================================================
