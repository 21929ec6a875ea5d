------------------------------- MODULE WorkflowRun -------------------------------
(***************************************************************************)
(* What a campaign relies on of WorkflowExecutor.run: steps begin one at a *)
(* time and only while the run is running; Pause, Resume and Abort change  *)
(* its state at any moment and take effect when the step in hand is over;  *)
(* an aborted run begins nothing more; the run ends once, with its         *)
(* results, with the exception of the step in hand, or aborted.            *)
(*                                                                         *)
(* Executor.tla implements this (KeepsContract), and CampaignLoop.tla      *)
(* builds its trials from these actions, so that what one proves of the    *)
(* executor is what the other assumes of it.                               *)
(***************************************************************************)
CONSTANTS Step,     \* what can be in flight: records of a kind and a channel
          Causes    \* what a step can end the run with

VARIABLES ex,       \* "none" before run() and after it, then its ExecutorState,
                    \* and "over" from its end on until run() has returned
          doing,    \* the step in flight
          ending    \* how the run ends, once its steps are over

trial == <<ex, doing, ending>>

Nothing == [kind |-> "none", ch |-> 0]
Asking  == [kind |-> "hold", ch |-> 0]   \* the hold at the channel ceiling

Init == ex = "none" /\ doing = Nothing /\ ending = "none"

\* run() gets past its arming check and its rig lock.
Begin == ex = "none" /\ ex' = "running" /\ UNCHANGED <<doing, ending>>

Going == ex # "none" /\ ending = "none"

StartStep(s) ==
  /\ Going /\ ex = "running" /\ doing = Nothing
  /\ doing' = s /\ UNCHANGED <<ex, ending>>

\* The step was done, or its channel will be replayed or skipped.  What runs at its end,
\* a callback or the hold, may have paused the run or aborted it.
EndStep ==
  /\ Going /\ doing # Nothing
  /\ doing' = Nothing
  /\ ex' \in {ex} \cup (IF ex = "running" THEN {"paused"} ELSE {})
                  \cup (IF ex \in {"running", "paused"} THEN {"aborted"} ELSE {})
  /\ UNCHANGED ending

\* Too many channels were lost in a row, and the operator is asked; still no other step.
AskOperator ==
  /\ Going /\ doing \in Step
  /\ doing' = Asking /\ UNCHANGED <<ex, ending>>

Over(how) == ending' = how /\ doing' = Nothing /\ ex' = "over"

\* The last step there was is over, whatever was pressed during it.
Finish == Going /\ doing # Nothing /\ Over("results")

Raise(cause) == Going /\ doing \in Step /\ Over(cause)

SeeAbort == Going /\ doing = Nothing /\ ex = "aborted" /\ Over("aborted")

Return == ending # "none" /\ ex' = "none" /\ ending' = "none" /\ UNCHANGED doing

\* pause(), resume() and abort() look at the state first, and do nothing otherwise.
Pause  == ex' = (IF ex = "running" THEN "paused" ELSE ex) /\ UNCHANGED <<doing, ending>>
Resume == ex' = (IF ex = "paused" THEN "running" ELSE ex) /\ UNCHANGED <<doing, ending>>
Abort  == /\ ex' = (IF ex \in {"running", "paused"} THEN "aborted" ELSE ex)
          /\ UNCHANGED <<doing, ending>>

Next ==
  \/ Begin \/ EndStep \/ AskOperator \/ Finish \/ SeeAbort \/ Return
  \/ \E s \in Step : StartStep(s)
  \/ \E cause \in Causes : Raise(cause)
  \/ Pause \/ Resume \/ Abort

Spec == Init /\ [][Next]_trial
================================================================================
