----------------------------- MODULE ExecutorProofs -----------------------------
(***************************************************************************)
(* What the executor's safety rests on, whatever the workflow, the faults, *)
(* the bounds, and the thread the buttons are pressed from: the lock is    *)
(* around everything between the arming check and the end, a purge window  *)
(* is open only beside the first attempt of a step, and the operator has   *)
(* the rig only while run() waits.  What the operator's calls decide holds *)
(* when each is one step with its check, as on one event loop.             *)
(***************************************************************************)
EXTENDS Executor, WellFoundedInduction, TLAPS

\* Where run() is when the rig may move, and where it may have been handed over.
Inside  == {"boundary", "waiting", "step", "joining", "pausing", "setting", "asking",
            "holding", "parking", "teardown"}
Waiting == {"waiting", "holding"}

LockAround  == pc \in Inside => lock # "none"
WindowOpen  == purge # "none" => pc \in {"step", "joining"} /\ attempt = 1
HandedOver  == held => pc \in Waiting

IInv == LockAround /\ WindowOpen /\ HandedOver

\* run() starts outside the lock, with no window open and nothing handed over.
LEMMA IInvInit == Init => IInv
BY DEF Init, IInv, LockAround, WindowOpen, HandedOver, Inside

\* No step of run(), of the purge loop or of the operator breaks the three parts.
LEMMA IInvStep == IInv /\ [Next]_vars => IInv'
<1> SUFFICES ASSUME IInv, [Next]_vars PROVE IInv'
  OBVIOUS
<1> USE DEF IInv, LockAround, WindowOpen, HandedOver, Inside, Waiting
<1>1. CASE Run
  BY <1>1 DEF Run
<1>2. CASE Boundary
  BY <1>2 DEF Boundary, Proceed, RaiseAborted, StartStep, StartAttempt, run
<1>3. CASE StopWaiting
  BY <1>3 DEF StopWaiting, Proceed, RaiseAborted, StartStep, StartAttempt
<1>4. CASE Complete
  BY <1>4 DEF Complete, run
<1>5. CASE Elute
  BY <1>5 DEF Elute
<1>6. CASE EndStep
  BY <1>6 DEF EndStep
<1>7. CASE Succeed
  BY <1>7 DEF Succeed, Ended, JoinPurge
<1>8. CASE RetryStep
  BY <1>8 DEF RetryStep, StartAttempt
<1>9. CASE Fail
  BY <1>9 DEF Fail, Exhausted, Ended, JoinPurge, run
<1>10. CASE Replay
  BY <1>10 DEF Replay, Exhausted, Ended, JoinPurge
<1>11. CASE SkipChannel
  BY <1>11 DEF SkipChannel, Exhausted, Ended, JoinPurge
<1>12. CASE CheckBeforeHold \/ PauseForHold
  BY <1>12 DEF CheckBeforeHold, PauseForHold, Unchanged
<1>13. CASE Ask \/ Answered \/ Unanswered \/ ParkUnattended
  BY <1>13 DEF Ask, Answered, Unanswered, ParkUnattended, Unchanged
<1>14. CASE TearDown
  BY <1>14 DEF TearDown, TearDownAndRelease, run
<1>15. CASE OfferPurge \/ EndPurge
  BY <1>15 DEF OfferPurge, EndPurge, run
<1>16. CASE Land \/ \E c \in {"pause", "resume", "abort"} : Press(c)
  BY <1>16 DEF Land, Press, run
<1>17. CASE UNCHANGED vars
  BY <1>17 DEF vars, run
<1> QED
  BY <1>1, <1>2, <1>3, <1>4, <1>5, <1>6, <1>7, <1>8, <1>9, <1>10, <1>11, <1>12, <1>13,
     <1>14, <1>15, <1>16, <1>17 DEF Next, Advance

\* The three parts hold throughout every run.
LEMMA IInvHolds == Spec => []IInv
BY IInvInit, IInvStep, PTL DEF Spec

\* The rig is driven only under the rig lock, teardown and unattended park included.
THEOREM LockCovers == Spec => []LockCoversDriving
<1>1. IInv => LockCoversDriving
  BY DEF IInv, LockAround, WindowOpen, Inside, LockCoversDriving, Driving
<1> QED
  BY <1>1, IInvHolds, PTL

\* Nothing moves while on_pause_hold has handed the rig to the operator, even when
\* the buttons are pressed from another thread.
THEOREM HeldRigIsQuiet == Spec => []HeldIsQuiet
<1>1. IInv => HeldIsQuiet
  BY DEF IInv, WindowOpen, HandedOver, Waiting, HeldIsQuiet, Driving
<1> QED
  BY <1>1, IInvHolds, PTL

\* No purge is still dispensing when the next step or a retry begins.
THEOREM PurgeIsJoined == Spec => []PurgeJoined
<1>1. IInv => PurgeJoined
  BY DEF IInv, WindowOpen, PurgeJoined
<1> QED
  BY <1>1, IInvHolds, PTL

--------------------------------------------------------------------------------
(* Abort and the ceiling, on one event loop.                               *)

\* A control that was checked finds the state it was checked against.
PressKnown ==
  /\ press \in Controls
  /\ press = "pause"  => state = "running"
  /\ press = "resume" => state = "paused"
  /\ press = "abort"  => state \in {"running", "paused"}
  /\ pc = "idle"      => state = "idle"
  /\ pc = "setting"   => press = "none" /\ state = "running"

\* An accepted abort stays until the run is over.
AbortKnown ==
  accepted => \/ pc \in {"teardown", "done"}
              \/ pc # "idle" /\ state = "aborted"

\* At the ceiling the run is in the hold, or was parked by it.
CeilingKnown ==
  /\ streak \in Nat
  /\ Ceiling # 0 /\ streak >= Ceiling =>
       \/ pc \in {"pausing", "setting", "asking", "holding", "parking", "teardown", "done"}
       \/ pc = "boundary" /\ state = "aborted"

\* A run that goes on runs, is paused or is aborted, and attempts count from one.
RunKnown ==
  /\ pc \in Inside \ {"teardown"} => state \in {"running", "paused", "aborted"}
  /\ pc \in {"step", "joining"} => attempt \in Nat \ {0}

ControlInv == PressKnown /\ AbortKnown /\ CeilingKnown /\ RunKnown

\* Nothing is pressed, aborted or counted before the run.
LEMMA ControlInit == Init => ControlInv
BY BoundsAssumption
   DEF Init, ControlInv, PressKnown, AbortKnown, CeilingKnown, RunKnown, Controls, Inside

\* run() keeps ControlInv, as it does not move between a check and its assignment.
LEMMA AdvanceKeepsControl ==
  ASSUME ~Threaded, ControlInv, Advance
  PROVE  ControlInv'
<1> USE BoundsAssumption
    DEF ControlInv, PressKnown, AbortKnown, CeilingKnown, RunKnown, Controls, Inside, Free
<1>1. CASE Run
  BY <1>1 DEF Run
<1>2. CASE Boundary
  BY <1>2 DEF Boundary, Proceed, RaiseAborted, StartStep, StartAttempt, run
<1>3. CASE StopWaiting
  BY <1>3 DEF StopWaiting, Proceed, RaiseAborted, StartStep, StartAttempt
<1>4. CASE Complete
  BY <1>4 DEF Complete, run
<1>5. CASE Elute
  BY <1>5 DEF Elute
<1>6. CASE EndStep
  BY <1>6 DEF EndStep
<1>7. CASE Succeed
  BY <1>7 DEF Succeed, Ended
<1>8. CASE RetryStep
  BY <1>8 DEF RetryStep, StartAttempt
<1>9. CASE Fail
  BY <1>9 DEF Fail, Exhausted, Ended, run
<1>10. CASE Replay
  BY <1>10 DEF Replay, Exhausted, Ended
<1>11. CASE SkipChannel
  BY <1>11 DEF SkipChannel, Exhausted, Ended, AtCeiling
<1>12. CASE CheckBeforeHold \/ PauseForHold
  BY <1>12 DEF CheckBeforeHold, PauseForHold, Unchanged
<1>13. CASE Ask \/ Answered
  BY <1>13 DEF Ask, Answered, Unchanged
<1>14. CASE Unanswered \/ ParkUnattended
  BY <1>14 DEF Unanswered, ParkUnattended, Unchanged
<1>15. CASE TearDown
  BY <1>15 DEF TearDown, TearDownAndRelease, run
<1> QED
  BY <1>1, <1>2, <1>3, <1>4, <1>5, <1>6, <1>7, <1>8, <1>9, <1>10, <1>11, <1>12, <1>13,
     <1>14, <1>15 DEF Advance

\* So do the purge loop and the operator.
LEMMA ControlStep ==
  ASSUME ~Threaded, ControlInv, [Next]_vars
  PROVE  ControlInv'
<1> USE DEF ControlInv, PressKnown, AbortKnown, CeilingKnown, RunKnown, Controls, Inside
<1>1. CASE OfferPurge \/ EndPurge \/ UNCHANGED vars
  BY <1>1 DEF OfferPurge, EndPurge, vars, run
<1>2. CASE \E c \in {"pause", "resume", "abort"} : Press(c)
  BY <1>2 DEF Press, run
<1>3. CASE Land
  <2>1. /\ press = "pause" => state' = "paused"
        /\ press = "resume" => state' = "running"
        /\ press = "abort" => state' = "aborted"
        /\ press \in {"pause", "resume", "abort"}
    BY <1>3, Zenon DEF Land
  <2>2. /\ accepted' => accepted \/ press = "abort"
        /\ press' = "none" /\ UNCHANGED <<pc, attempt, streak>>
    BY <1>3 DEF Land, run
  <2> QED
    BY <2>1, <2>2
<1> QED
  BY <1>1, <1>2, <1>3, AdvanceKeepsControl DEF Next

\* It holds throughout every run on one event loop.
LEMMA ControlHolds ==
  ASSUME ~Threaded
  PROVE  Spec => []ControlInv
BY ControlInit, ControlStep, PTL DEF Spec

\* After Ceiling channels abandoned in a row nothing is tried until the operator has
\* answered: an unanswered hold parks, and no press in between lets a step through.
THEOREM CeilingKept ==
  ASSUME ~Threaded
  PROVE  Spec => []CeilingHolds
<1>1. ControlInv => CeilingHolds
  BY DEF ControlInv, CeilingKnown, CeilingHolds
<1> QED
  BY <1>1, ControlHolds, PTL

\* A run that accepted an abort begins no step after it, wherever the abort landed: at
\* a boundary, in a hold, during the step or the recovery that follows it.
THEOREM NoStepOnceAborted ==
  ASSUME ~Threaded
  PROVE  Spec => NoStepAfterAbort
<1>1. ControlInv /\ [Next]_vars =>
        [(pc # "step" /\ pc' = "step" /\ attempt' = 1) => ~accepted]_vars
  <2> SUFFICES ASSUME ControlInv, Next, pc # "step", pc' = "step", attempt' = 1, accepted
               PROVE  FALSE
    OBVIOUS
  <2>1. Boundary \/ StopWaiting \/ RetryStep
    BY DEF Next, Advance, Run, Complete, Elute, EndStep, Succeed, Fail, Replay, SkipChannel,
           CheckBeforeHold, PauseForHold, Ask, Answered, Unanswered, ParkUnattended,
           TearDown, TearDownAndRelease, OfferPurge, EndPurge, Press, Land
  <2>2. CASE Boundary \/ StopWaiting
    BY <2>2 DEF Boundary, StopWaiting, Proceed, RaiseAborted, ControlInv, AbortKnown
  <2>3. CASE RetryStep
    BY <2>3 DEF RetryStep, StartAttempt, ControlInv, RunKnown
  <2> QED
    BY <2>1, <2>2, <2>3
<1> QED
  BY <1>1, ControlHolds, PTL DEF Spec, NoStepAfterAbort

--------------------------------------------------------------------------------
(* The blocks of a plan.                                                   *)

Index == 1 .. Len(Plan)

\* A non-empty set of naturals has a least element.
LEMMA Least ==
  ASSUME NEW S \in SUBSET Nat, S # {}
  PROVE  \E x \in S : \A y \in S : x <= y
<1>1. \E x \in S : \A y \in S : ~ (<<y, x>> \in OpToRel(<, Nat))
  BY WFMin, NatLessThanWellFounded, Zenon
<1>2. PICK x \in S : \A y \in S : <<y, x>> \notin OpToRel(<, Nat)
  BY <1>1
<1>3. \A y \in S : y < x => <<y, x>> \in OpToRel(<, Nat)
  BY Zenon DEF OpToRel
<1>4. \A y \in S : ~ (y < x)
  BY <1>2, <1>3, Zenon
<1> QED BY <1>4

\* A block begins at or before each of its steps, and belongs to one channel.
LEMMA BlockBegins ==
  ASSUME NEW k \in Index
  PROVE  BlockStart(k) \in 1 .. k /\ SameBlock(BlockStart(k), k)
<1> DEFINE S == {j \in 1 .. k : SameBlock(j, k)}
<1>1. k \in S /\ S \in SUBSET Nat
  BY DEF Index, SameBlock
<1>2. PICK j \in S : \A m \in S : j <= m
  BY <1>1, Least
<1>3. j = 1 \/ Plan[j - 1].ch # Plan[k].ch
  <2> SUFFICES ASSUME j # 1, Plan[j - 1].ch = Plan[k].ch PROVE FALSE
    OBVIOUS
  <2>1. j - 1 \in S
    BY <1>2 DEF SameBlock, Index
  <2> QED BY <1>2, <2>1
<1> QED BY <1>2, <1>3 DEF BlockStart

\* It ends at or after each of its steps.
LEMMA BlockEnds ==
  ASSUME NEW k \in Index
  PROVE  BlockEnd(k) \in k .. Len(Plan) /\ \A m \in k .. BlockEnd(k) : Plan[m].ch = Plan[k].ch
<1> DEFINE T == {j \in k .. Len(Plan) : \A m \in k .. j : Plan[m].ch = Plan[k].ch}
           S == {d \in Nat : Len(Plan) - d \in T}
<1>1. Len(Plan) \in Nat
  BY PlanAssumption
<1>2. k \in T /\ Len(Plan) - k \in S
  BY <1>1 DEF Index
<1>3. PICK d \in S : \A e \in S : d <= e
  BY <1>2, Least
<1> DEFINE j == Len(Plan) - d
<1>4. j \in k .. Len(Plan) /\ \A m \in k .. j : Plan[m].ch = Plan[k].ch
  BY <1>3
<1>5. j = Len(Plan) \/ Plan[j + 1].ch # Plan[j].ch
  <2> SUFFICES ASSUME j # Len(Plan), Plan[j + 1].ch = Plan[j].ch PROVE FALSE
    OBVIOUS
  <2>1. j + 1 \in T
    BY <1>1, <1>4 DEF Index
  <2>2. d \in Nat /\ d - 1 \in S
    BY <1>1, <1>3, <1>4, <2>1 DEF Index
  <2>3. ~ (d <= d - 1)
    BY <2>2
  <2> QED BY <1>3, <2>2, <2>3, Zenon
<1>6. SameBlock(k, j)
  BY <1>4 DEF SameBlock, Index
<1>7. BlockEnd(k) \in k .. Len(Plan) /\ SameBlock(k, BlockEnd(k))
  BY <1>4, <1>5, <1>6 DEF BlockEnd
<1> QED BY <1>7 DEF SameBlock, Index

--------------------------------------------------------------------------------
(* Where a run is in its plan, and what it has made of the steps before.   *)

\* The step at hand is one of the plan's, up to the one after the last.
InPlan ==
  /\ pc \in Inside \cup {"idle", "done"}
  /\ Begun => i \in 1 .. Len(Plan) + 1
  /\ pc \in {"waiting", "step", "joining"} => i <= Len(Plan)
  /\ pc \in {"idle", "boundary", "waiting", "step", "joining"} \/ InHold => outcome = "none"
  /\ outcome = "refused" => pc = "done"

\* A step that the run has passed was done, or its channel is given up.
PassedKnown ==
  /\ pc = "joining" => result \in {"ok"} \cup Faults
  /\ pc = "joining" /\ result = "ok" => i \in finished
  /\ Begun => \A k \in Index : k < i => k \in finished \/ Plan[k].ch \in skipped
  /\ outcome = "completed" => i > Len(Plan)

PlaceInv == InPlan /\ PassedKnown

\* A run that has not begun has passed nothing.
LEMMA PlaceInit == Init => PlaceInv
BY DEF Init, PlaceInv, InPlan, PassedKnown, Begun, InHold, Inside

\* A run gets on by one step, back to the start of the block, or past its end.
LEMMA PlaceStep == PlaceInv /\ [Next]_vars => PlaceInv'
<1> SUFFICES ASSUME PlaceInv, [Next]_vars PROVE PlaceInv'
  OBVIOUS
<1> USE PlanAssumption, SwitchesAssumption
    DEF PlaceInv, InPlan, PassedKnown, Begun, InHold, Index, Inside
<1>1. CASE Run
  BY <1>1 DEF Run
<1>2. CASE Boundary
  BY <1>2 DEF Boundary, Proceed, RaiseAborted, StartStep, StartAttempt, run
<1>3. CASE StopWaiting
  BY <1>3 DEF StopWaiting, Proceed, RaiseAborted, StartStep, StartAttempt
<1>4. CASE Complete
  BY <1>4 DEF Complete, run
<1>5. CASE Elute
  BY <1>5 DEF Elute
<1>6. CASE EndStep
  BY <1>6 DEF EndStep
<1>7. CASE Succeed
  BY <1>7 DEF Succeed, Ended
<1>8. CASE RetryStep
  BY <1>8 DEF RetryStep, StartAttempt
<1>9. CASE Fail
  BY <1>9 DEF Fail, Exhausted, Ended, run
<1>10. CASE Replay
  <2>1. /\ i \in Index /\ i' = BlockStart(i) /\ pc' = "boundary" /\ outcome = "none"
        /\ UNCHANGED <<outcome, finished, skipped>>
    BY <1>10 DEF Replay, Exhausted, Ended, ChannelRunStart
  <2>2. i' \in 1 .. i /\ i' \in Index
    BY <2>1, BlockBegins
  <2>3. \A k \in Index : k < i' => k < i
    BY <2>1, <2>2
  <2>4. \A k \in Index : k < i' => k \in finished' \/ Plan[k].ch \in skipped'
    BY <1>10, <2>1, <2>3, Zenon DEF Replay, Exhausted, Ended
  <2> QED
    <3> HIDE DEF Index
    <3>1. i' \in 1 .. Len(Plan) + 1
      BY <2>2 DEF Index
    <3> QED BY <2>1, <2>4, <3>1
<1>11. CASE SkipChannel
  <2>1. /\ i \in Index /\ i' = BlockEnd(i) + 1 /\ pc' \in {"boundary", "pausing"}
        /\ skipped' = skipped \cup {Plan[i].ch} /\ outcome = "none"
        /\ UNCHANGED <<outcome, finished>>
    BY <1>11 DEF SkipChannel, Exhausted, Ended, RecordSkip
  <2>2. BlockEnd(i) \in i .. Len(Plan) /\ \A m \in i .. BlockEnd(i) : Plan[m].ch = Plan[i].ch
    BY <2>1, BlockEnds
  <2>3. \A k \in Index : k < i' => k < i \/ k \in i .. BlockEnd(i)
    BY <2>1, <2>2
  <2>4. \A k \in Index : k < i => k \in finished \/ Plan[k].ch \in skipped
    BY <1>11 DEF SkipChannel, Exhausted, Ended
  <2>5. \A k \in Index : k < i' => k \in finished' \/ Plan[k].ch \in skipped'
    <3> HIDE DEF Index
    <3> SUFFICES ASSUME NEW k \in Index, k < i' PROVE k \in finished' \/ Plan[k].ch \in skipped'
      OBVIOUS
    <3>1. CASE k < i
      BY <2>1, <2>4, <3>1
    <3>2. CASE k \in i .. BlockEnd(i)
      <4>1. Plan[k].ch = Plan[i].ch
        BY <2>2, <3>2
      <4> QED BY <2>1, <4>1
    <3> QED BY <2>3, <3>1, <3>2
  <2> QED
    <3> HIDE DEF Index
    <3>1. i' \in 1 .. Len(Plan) + 1
      BY <2>1, <2>2 DEF Index
    <3> QED BY <2>1, <2>5, <3>1
<1>12. CASE CheckBeforeHold \/ PauseForHold \/ Ask
  BY <1>12 DEF CheckBeforeHold, PauseForHold, Ask, Unchanged
<1>13. CASE Answered \/ Unanswered \/ ParkUnattended
  BY <1>13 DEF Answered, Unanswered, ParkUnattended, Unchanged
<1>14. CASE TearDown
  BY <1>14 DEF TearDown, TearDownAndRelease, run
<1>15. CASE \/ OfferPurge \/ EndPurge \/ Land \/ UNCHANGED vars
            \/ \E c \in {"pause", "resume", "abort"} : Press(c)
  <2>1. UNCHANGED <<pc, run, outcome>>
    BY <1>15 DEF OfferPurge, EndPurge, Land, Press, vars
  <2> QED BY <2>1 DEF run
<1> QED
  BY <1>1, <1>2, <1>3, <1>4, <1>5, <1>6, <1>7, <1>8, <1>9, <1>10, <1>11, <1>12, <1>13,
     <1>14, <1>15 DEF Next, Advance

\* What was passed is known throughout every run.
LEMMA PlaceHolds == Spec => []PlaceInv
BY PlaceInit, PlaceStep, PTL DEF Spec

\* For any plan, and whatever was retried, replayed and skipped: a run that reports
\* itself completed did every step or names its channel among the skipped (skipped_channels).
THEOREM CompletedAccountsHolds == Spec => []CompletedAccounts
<1>1. PlaceInv => CompletedAccounts
  BY PlanAssumption DEF PlaceInv, InPlan, PassedKnown, CompletedAccounts, Begun, Index
<1> QED BY <1>1, PlaceHolds, PTL

--------------------------------------------------------------------------------
(* The types, and the bounds of the counters.                              *)

Flat ==
  /\ state \in States
  /\ pc \in {"idle", "boundary", "waiting", "step", "joining", "pausing", "setting", "asking",
             "holding", "parking", "teardown", "done"}
  /\ attempt \in Nat
  /\ result \in {"none", "ok"} \cup Faults
  /\ streak \in Nat /\ finished \subseteq 1 .. Len(Plan)
  /\ purge \in {"none", "queued", "busy", "resting"}
  /\ lock \in {"none", "taken", "shared", "exempt"}
  /\ outcome \in {"none", "refused", "completed", "aborted", "error"}
  /\ press \in Controls

Flags ==
  eluted \in BOOLEAN /\ tagged \in BOOLEAN /\ held \in BOOLEAN /\ accepted \in BOOLEAN

Unbegun == ~Begun => i = 0

Charged ==
  /\ used \in [Channel -> 0 .. MaxChannelRetries]
  /\ skipped \subseteq Channel
  /\ drops \in [Channel -> Nat]

Tried == pc \in {"step", "joining"} => attempt \in 1 .. Plan[i].tries

\* A step of the plan is a channel's or the campaign's, and may be tried at least once.
LEMMA StepTyped ==
  ASSUME NEW k \in Index
  PROVE  Plan[k].ch \in Channel \cup {NoChannel} /\ Plan[k].tries \in Nat \ {0}
<1> DEFINE PlanStep == [ch : Channel \cup {NoChannel}, phase : STRING,
                        tries : Nat \ {0}, window : BOOLEAN]
<1>1. \A S : Plan \in Seq(S) => \A j \in 1 .. Len(Plan) : Plan[j] \in S
  OBVIOUS
<1>2. Plan[k] \in PlanStep
  BY <1>1, PlanAssumption DEF Index
<1> QED BY <1>2

\* Where run() is on a step, the step is one of the plan.
LEMMA OnStep == PlaceInv /\ pc \in {"step", "joining"} => i \in Index
BY DEF PlaceInv, InPlan, Begun, Index

\* Every step keeps the types of what no channel indexes.
LEMMA FlatStep == Flat /\ PlaceInv /\ [Next]_vars => Flat'
<1> SUFFICES ASSUME Flat, PlaceInv, [Next]_vars PROVE Flat'
  OBVIOUS
<1> USE DEF Flat, States, Controls
<1>1. CASE Run
  BY <1>1 DEF Run
<1>2. CASE Boundary \/ StopWaiting
  <2>1. CASE Boundary /\ state = "paused"
    BY <2>1 DEF Boundary, run
  <2>2. CASE Proceed
    BY <2>2 DEF Proceed, RaiseAborted, StartStep, StartAttempt
  <2> QED BY <1>2, <2>1, <2>2 DEF Boundary, StopWaiting
<1>3. CASE Complete \/ TearDown
  BY <1>3 DEF Complete, TearDown, TearDownAndRelease, run
<1>4. CASE Elute
  BY <1>4 DEF Elute
<1>5. CASE EndStep
  <2>1. i \in 1 .. Len(Plan)
    BY <1>5, OnStep DEF EndStep, Index
  <2>2. finished' \subseteq 1 .. Len(Plan)
    BY <1>5, <2>1 DEF EndStep
  <2> QED BY <1>5, <2>2 DEF EndStep
<1>6. CASE Succeed
  BY <1>6 DEF Succeed, Ended, JoinPurge
<1>7. CASE RetryStep
  BY <1>7 DEF RetryStep, StartAttempt
<1>8. CASE Fail
  BY <1>8 DEF Fail, Exhausted, Ended, JoinPurge, run
<1>9. CASE Replay
  BY <1>9 DEF Replay, Exhausted, Ended, JoinPurge
<1>10. CASE SkipChannel
  BY <1>10 DEF SkipChannel, Exhausted, Ended, JoinPurge
<1>11. CASE CheckBeforeHold \/ PauseForHold \/ Ask
  <2>1. CASE CheckBeforeHold
    BY <2>1 DEF CheckBeforeHold, Unchanged
  <2>2. CASE PauseForHold
    BY <2>2 DEF PauseForHold, Unchanged
  <2>3. CASE Ask
    BY <2>3 DEF Ask, Unchanged
  <2> QED BY <1>11, <2>1, <2>2, <2>3
<1>12. CASE Answered \/ Unanswered \/ ParkUnattended
  <2>1. CASE Answered
    BY <2>1 DEF Answered, Unchanged
  <2>2. CASE Unanswered
    BY <2>2 DEF Unanswered, Unchanged
  <2>3. CASE ParkUnattended
    BY <2>3 DEF ParkUnattended, Unchanged
  <2> QED BY <1>12, <2>1, <2>2, <2>3
<1>13. CASE OfferPurge \/ EndPurge
  BY <1>13 DEF OfferPurge, EndPurge, run
<1>14. CASE Land
  BY <1>14 DEF Land, run
<1>15. ASSUME NEW c \in {"pause", "resume", "abort"}, Press(c) PROVE Flat'
  BY <1>15 DEF Press, run
<1>16. CASE UNCHANGED vars
  BY <1>16 DEF vars, run
<1> QED
  BY <1>1, <1>2, <1>3, <1>4, <1>5, <1>6, <1>7, <1>8, <1>9, <1>10, <1>11, <1>12, <1>13,
     <1>14, <1>15, <1>16 DEF Next, Advance

\* Every step keeps the flags.
LEMMA FlagStep == Flags /\ [Next]_vars => Flags'
<1> SUFFICES ASSUME Flags, [Next]_vars PROVE Flags'
  OBVIOUS
<1>1. eluted' = eluted \/ eluted' = TRUE \/ eluted' = FALSE
  BY DEF Next, Advance, vars, run, Run, Boundary, Proceed, RaiseAborted, StartStep,
     StartAttempt, StopWaiting, Complete, Elute, EndStep, Succeed, RetryStep, Fail, Replay,
     SkipChannel, CheckBeforeHold, PauseForHold, Ask, Answered, Unanswered, ParkUnattended,
     Unchanged, TearDown, OfferPurge, EndPurge, Press, Land
<1>2. tagged' = tagged \/ tagged' = FALSE \/ tagged' = Tag(result')
  BY DEF Next, Advance, vars, run, Run, Boundary, Proceed, RaiseAborted, StartStep,
     StartAttempt, StopWaiting, Complete, Elute, EndStep, Succeed, RetryStep, Fail, Replay,
     SkipChannel, CheckBeforeHold, PauseForHold, Ask, Answered, Unanswered, ParkUnattended,
     Unchanged, TearDown, OfferPurge, EndPurge, Press, Land
<1>3. held' = held \/ held' = TRUE \/ held' = FALSE
  BY DEF Next, Advance, vars, run, Run, Boundary, StopWaiting, Complete, Elute, EndStep,
     Succeed, RetryStep, Fail, Replay, SkipChannel, CheckBeforeHold, PauseForHold, Ask,
     Answered, Unanswered, ParkUnattended, TearDown, OfferPurge, EndPurge, Press, Land
<1>4. accepted' = accepted \/ accepted' = TRUE \/ accepted' = (accepted \/ press = "abort")
  BY DEF Next, Advance, vars, run, Run, Boundary, Proceed, StopWaiting, Complete, Elute,
     EndStep, Succeed, RetryStep, Fail, Replay, SkipChannel, CheckBeforeHold, PauseForHold,
     Ask, Answered, Unanswered, ParkUnattended, TearDown, OfferPurge, EndPurge, Press, Land
<1>5. Tag(result') \in BOOLEAN
  BY DEF Tag
<1> QED BY <1>1, <1>2, <1>3, <1>4, <1>5 DEF Flags

\* A run that has not begun is at no step.
LEMMA UnbegunStep == Unbegun /\ PlaceInv /\ [Next]_vars => Unbegun'
<1> SUFFICES ASSUME Unbegun, PlaceInv, [Next]_vars, ~Begun' PROVE i' = 0
  BY DEF Unbegun
<1>1. ~Begun
  BY DEF Begun, PlaceInv, InPlan, InHold, Next, Advance, vars, run, Run, Boundary, Proceed,
     RaiseAborted, StartStep, StartAttempt, StopWaiting, Complete, Elute, EndStep, Succeed,
     Ended, RetryStep, Fail, Exhausted, Replay, SkipChannel, CheckBeforeHold, PauseForHold,
     Ask, Answered, Unanswered, ParkUnattended, Unchanged, TearDown, TearDownAndRelease,
     OfferPurge, EndPurge, Press, Land
<1>2. i' = i
  BY <1>1 DEF Begun, PlaceInv, InPlan, InHold, Next, Advance, vars, run, Run, Boundary,
     Proceed, RaiseAborted, StartStep, StartAttempt, StopWaiting, Complete, Elute, EndStep,
     Succeed, Ended, RetryStep, Fail, Exhausted, Replay, SkipChannel, CheckBeforeHold,
     PauseForHold, Ask, Answered, Unanswered, ParkUnattended, Unchanged, TearDown,
     TearDownAndRelease, OfferPurge, EndPurge, Press, Land
<1> QED BY <1>1, <1>2 DEF Unbegun

\* Casting one more drop on any electrode leaves every electrode a number of drops.
LEMMA OneMoreDrop ==
  ASSUME NEW f \in [Channel -> Nat], NEW ch
  PROVE  [f EXCEPT ![ch] = @ + 1] \in [Channel -> Nat]
<1>1. CASE ch \in Channel
  <2>1. f[ch] + 1 \in Nat
    BY <1>1
  <2> QED BY <1>1, <2>1
<1>2. CASE ch \notin Channel
  BY <1>2
<1> QED BY <1>1, <1>2

\* Only a replay charges a channel, and only below the bound (_channel_retries).
LEMMA ChargedStep == Charged /\ PlaceInv /\ [Next]_vars => Charged'
<1> SUFFICES ASSUME Charged, PlaceInv, [Next]_vars PROVE Charged'
  OBVIOUS
<1> USE DEF Charged
<1>1. CASE Elute
  <2> DEFINE ch == Plan[i].ch
  <2>1. drops \in [Channel -> Nat] /\ drops' = [drops EXCEPT ![ch] = @ + 1]
    BY <1>1 DEF Elute
  <2> HIDE DEF ch
  <2>2. drops' \in [Channel -> Nat]
    BY <2>1, OneMoreDrop
  <2> QED BY <1>1, <2>2 DEF Elute
<1>2. CASE Replay \/ SkipChannel
  <2>1. i \in Index /\ Plan[i].ch # NoChannel
    BY <1>2, OnStep DEF Replay, SkipChannel, Exhausted, Ended, Recoverable
  <2>2. Plan[i].ch \in Channel
    BY <2>1, StepTyped
  <2>3. used' \in [Channel -> 0 .. MaxChannelRetries]
    BY <1>2, <2>2, BoundsAssumption DEF Replay, SkipChannel
  <2>4. skipped' \subseteq Channel /\ UNCHANGED drops
    BY <1>2, <2>2 DEF Replay, SkipChannel, RecordSkip
  <2> QED BY <2>3, <2>4
<1>3. CASE UNCHANGED <<used, skipped, drops>>
  BY <1>3
<1>4. Elute \/ Replay \/ SkipChannel \/ UNCHANGED <<used, skipped, drops>>
  BY DEF Next, Advance, vars, run, Run, Boundary, Proceed, StopWaiting, Complete, EndStep,
     Succeed, RetryStep, Fail, CheckBeforeHold, PauseForHold, Ask, Answered, Unanswered,
     ParkUnattended, Unchanged, TearDown, OfferPurge, EndPurge, Press, Land
<1> QED BY <1>1, <1>2, <1>3, <1>4

\* A step is attempted no more often than it may be (_run_step).
LEMMA TriedStep == Tried /\ PlaceInv /\ PlaceInv' /\ [Next]_vars => Tried'
<1> SUFFICES ASSUME Tried, PlaceInv, PlaceInv', [Next]_vars, pc' \in {"step", "joining"}
             PROVE  attempt' \in 1 .. Plan[i'].tries
  BY DEF Tried
<1>1. i' \in Index
  BY DEF PlaceInv, InPlan, Begun, Index
<1>2. Plan[i'].tries \in Nat \ {0}
  BY <1>1, StepTyped
<1>3. CASE Boundary \/ StopWaiting
  <2>1. attempt' = 1
    BY <1>3 DEF Boundary, StopWaiting, Proceed, RaiseAborted, StartStep, StartAttempt
  <2> QED BY <1>2, <2>1
<1>4. CASE RetryStep
  <2>1. attempt' = attempt + 1 /\ attempt < Plan[i].tries /\ i' = i /\ pc = "joining"
    BY <1>4 DEF RetryStep, StartAttempt
  <2> QED BY <1>2, <2>1 DEF Tried
<1>5. CASE UNCHANGED <<i, attempt>> /\ pc \in {"step", "joining"}
  BY <1>5 DEF Tried
<1>6. Boundary \/ StopWaiting \/ RetryStep
      \/ (UNCHANGED <<i, attempt>> /\ pc \in {"step", "joining"})
  BY DEF Next, Advance, vars, run, Run, Complete, Elute, EndStep, Succeed, Fail, Replay,
     SkipChannel, CheckBeforeHold, PauseForHold, Ask, Answered, Unanswered, ParkUnattended,
     Unchanged, TearDown, TearDownAndRelease, OfferPurge, EndPurge, Press, Land
<1> QED BY <1>3, <1>4, <1>5, <1>6

\* run() starts idle, with nothing tried and nothing charged.
LEMMA TypesInit == Init => Flat /\ Flags /\ Unbegun /\ Charged /\ Tried
<1> SUFFICES ASSUME Init PROVE Flat /\ Flags /\ Unbegun /\ Charged /\ Tried
  OBVIOUS
<1>1. Flat
  BY DEF Init, Flat, States, Controls
<1>2. Charged
  BY BoundsAssumption DEF Init, Charged
<1>3. Tried
  BY DEF Init, Tried
<1>4. Flags
  BY DEF Init, Flags
<1>5. Unbegun
  BY DEF Init, Unbegun
<1> QED BY <1>1, <1>2, <1>3, <1>4, <1>5

\* The executor keeps its types and its bounds, for any workflow and faults and buttons
\* pressed from any thread: it is never past the plan's end, no step is tried more often
\* than it may be, and no channel replayed more often (_run_step, _channel_retries).
THEOREM ExecutorTyped == Spec => []TypeOK
<1>1. PlaceInv /\ Unbegun => i \in 0 .. Len(Plan) + 1
  BY PlanAssumption DEF PlaceInv, InPlan, Unbegun
<1>2. PlaceInv /\ Unbegun /\ Flat /\ Flags /\ Charged /\ Tried => TypeOK
  BY <1>1 DEF Flat, Flags, Charged, Tried, TypeOK
<1> QED
  BY <1>2, TypesInit, FlatStep, FlagStep, UnbegunStep, ChargedStep, TriedStep, PlaceHolds,
     PTL DEF Spec

--------------------------------------------------------------------------------
(* No circles.                                                             *)

\* A replay is charged to its channel.
LEMMA ReplaySpends ==
  ASSUME Charged, PlaceInv, Replay
  PROVE  Onward
<1>1. Plan[i].ch \in Channel
  <2>1. i \in Index /\ Plan[i].ch # NoChannel
    BY OnStep DEF Replay, Exhausted, Ended, Recoverable
  <2> QED BY <2>1, StepTyped
<1>2. used' = [used EXCEPT ![Plan[i].ch] = @ + 1] /\ used \in [Channel -> Nat]
  BY BoundsAssumption DEF Replay, Charged
<1>3. \A c \in Channel : used'[c] >= used[c]
  BY <1>1, <1>2
<1>4. used'[Plan[i].ch] > used[Plan[i].ch]
  BY <1>1, <1>2
<1> QED BY <1>1, <1>3, <1>4 DEF Onward

\* Everything else leaves the charges, and goes on.
LEMMA MoveGoesOn ==
  ASSUME PlaceInv, Unbegun, Flat, Advance, ~Replay
  PROVE  Onward
<1> USE DEF Rank
<1>1. CASE Run
  BY <1>1 DEF Run, Unbegun, Begun, Onward, Flat
<1>2. CASE Boundary \/ StopWaiting
  BY <1>2 DEF Boundary, StopWaiting, Proceed, RaiseAborted, StartStep, StartAttempt, run, Onward
<1>3. CASE Complete \/ TearDown
  BY <1>3 DEF Complete, TearDown, TearDownAndRelease, run, Onward
<1>4. CASE Elute \/ EndStep
  <2>1. Stage'[1] = Stage[1] /\ Stage'[2] > Stage[2]
    <3>1. CASE Elute
      <4>1. Stage = <<attempt, 0>> /\ Stage' = <<attempt, 1>>
        BY <3>1 DEF Elute, Stage
      <4> QED BY <4>1
    <3>2. CASE EndStep
      <4>1. Stage \in {<<attempt, 0>>, <<attempt, 1>>} /\ Stage' = <<attempt, 2>>
        BY <3>2 DEF EndStep, Stage
      <4> QED BY <4>1
    <3> QED BY <1>4, <3>1, <3>2
  <2> QED BY <1>4, <2>1 DEF Elute, EndStep, Onward
<1>5. CASE RetryStep
  <2>1. Stage'[1] > Stage[1]
    BY <1>5 DEF RetryStep, StartAttempt, Stage, Flat
  <2> QED BY <1>5, <2>1 DEF RetryStep, StartAttempt, Onward
<1>6. CASE Succeed
  <2>1. i \in Nat
    BY <1>6, OnStep DEF Succeed, Ended, Index
  <2> QED BY <1>6, <2>1 DEF Succeed, Onward
<1>7. CASE SkipChannel
  <2>1. i \in Index
    BY <1>7, OnStep DEF SkipChannel, Exhausted, Ended
  <2>2. BlockEnd(i) \in i .. Len(Plan)
    BY <2>1, BlockEnds
  <2>3. i \in Nat /\ Len(Plan) \in Nat
    BY <2>1, PlanAssumption DEF Index
  <2> QED BY <1>7, <2>2, <2>3 DEF SkipChannel, Onward
<1>8. CASE Fail
  BY <1>8 DEF Fail, Exhausted, Ended, run, Onward
<1>9. CASE CheckBeforeHold \/ PauseForHold \/ Ask \/ Answered \/ Unanswered \/ ParkUnattended
  BY <1>9 DEF CheckBeforeHold, PauseForHold, Ask, Answered, Unanswered, ParkUnattended,
     Unchanged, Onward
<1> QED
  BY <1>1, <1>2, <1>3, <1>4, <1>5, <1>6, <1>7, <1>8, <1>9 DEF Advance

\* For any plan, faults, bounds and buttons from any thread: the moves of run() spend what
\* there is a bounded store of, or go on.
THEOREM RunsOnwardHolds == Spec => RunsOnward
<1>1. /\ PlaceInv /\ Unbegun /\ Flat /\ Charged /\ [Next]_vars
      => [Onward]_<<pc, run>>
  <2> SUFFICES ASSUME PlaceInv, Unbegun, Flat, Charged, [Next]_vars PROVE [Onward]_<<pc, run>>
    OBVIOUS
  <2>1. CASE Advance
    BY <2>1, ReplaySpends, MoveGoesOn
  <2>2. CASE \/ OfferPurge \/ EndPurge \/ Land \/ UNCHANGED vars
             \/ \E c \in {"pause", "resume", "abort"} : Press(c)
    BY <2>2 DEF OfferPurge, EndPurge, Land, Press, vars
  <2> QED BY <2>1, <2>2 DEF Next
<1> QED
  BY <1>1, TypesInit, FlatStep, FlagStep, UnbegunStep, ChargedStep, PlaceHolds,
     PTL DEF Spec, RunsOnward

--------------------------------------------------------------------------------
(* The run as its host sees it, on one event loop.                         *)

\* What the host sees in flight is one of the plan's steps.
LEMMA StepSeen ==
  ASSUME i \in Index, pc \in {"step", "joining"}
  PROVE  SeenStep \in SeenSteps /\ SeenStep # Contract!Nothing
<1>1. Plan[i].ch \in Channel \cup {NoChannel}
  BY StepTyped
<1>2. SeenStep = [kind |-> IF Plan[i].phase = "deposit" THEN "cast" ELSE "step",
                  ch |-> Plan[i].ch]
  BY DEF SeenStep
<1>3. SeenStep.kind \in {"cast", "step"}
  BY <1>2
<1> QED BY <1>1, <1>2, <1>3 DEF SeenSteps, Contract!Nothing

\* Every move of the run is one of the contract's, or nothing to its host.
LEMMA ContractStep ==
  ASSUME ~Threaded, Plan # <<>>, ControlInv, PlaceInv, PlaceInv', [Next]_vars
  PROVE  [Contract!Next]_(Contract!trial)
<1>1. Len(Plan) \in Nat \ {0}
  BY PlanAssumption
<1> USE <1>1 DEF Contract!trial, SeenState, SeenEnding, Begun, StepsOver, InHold, Inside
<1>2. CASE Run
  BY <1>2 DEF Run, SeenStep, Contract!Next, Contract!Begin, Inside, PlaceInv, InPlan
<1>3. CASE Boundary \/ StopWaiting
  <2>1. CASE pc' = "waiting"
    BY <1>3, <2>1 DEF Boundary, StopWaiting, Proceed, RaiseAborted, StartStep, StartAttempt,
       run, SeenStep, PlaceInv, InPlan
  <2>2. CASE pc' = "teardown"
    <3>1. Contract!SeeAbort
      BY <1>3, <2>2 DEF Boundary, StopWaiting, Proceed, RaiseAborted, StartStep, StartAttempt,
         run, SeenStep, PlaceInv, InPlan,
        Contract!SeeAbort, Contract!Over, Contract!Going, Contract!Nothing
    <3> QED BY <3>1 DEF Contract!Next
  <2>3. CASE pc' = "step"
    <3>1. SeenStep' \in SeenSteps
      <4>1. i \in Index /\ i' = i
        BY <1>3, <2>3 DEF Boundary, StopWaiting, Proceed, RaiseAborted, run, PlaceInv, InPlan,
           Index
      <4>2. SeenStep' = [kind |-> IF Plan[i].phase = "deposit" THEN "cast" ELSE "step",
                         ch |-> Plan[i].ch]
        BY <2>3, <4>1 DEF SeenStep
      <4>3. SeenStep'.kind \in {"cast", "step"}
        BY <4>2
      <4>4. Plan[i].ch \in Channel \cup {NoChannel}
        BY <4>1, StepTyped
      <4> QED BY <4>2, <4>3, <4>4 DEF SeenSteps
    <3>2. Contract!StartStep(SeenStep')
      BY <1>3, <2>3 DEF Boundary, StopWaiting, Proceed, RaiseAborted, StartStep, StartAttempt,
         run, SeenStep, PlaceInv, InPlan, ControlInv, RunKnown,
        Contract!StartStep, Contract!Going, Contract!Nothing
    <3> QED BY <3>1, <3>2 DEF Contract!Next
  <2> QED
    BY <1>3, <2>1, <2>2, <2>3 DEF Boundary, StopWaiting, Proceed, RaiseAborted, StartStep,
       StartAttempt
<1>4. CASE Complete \/ TearDown
  BY <1>4 DEF Complete, TearDown, TearDownAndRelease, run, SeenStep, PlaceInv, InPlan
<1>5. CASE Elute \/ EndStep \/ RetryStep
  BY <1>5 DEF Elute, EndStep, RetryStep, StartAttempt, SeenStep, PlaceInv, InPlan
<1>6. CASE Fail
  <2>1. Contract!Raise(result)
    <3>1. SeenStep \in SeenSteps
      BY <1>6, StepSeen DEF Fail, Exhausted, Ended, PlaceInv, InPlan, Index
    <3> QED BY <1>6, <3>1 DEF Fail, Exhausted, Ended, run, SeenStep, PlaceInv, InPlan,
       ControlInv, RunKnown,
      Contract!Raise, Contract!Over, Contract!Going, Contract!Nothing
  <2> QED BY <1>6, <2>1 DEF Contract!Next, Fail, Exhausted
<1>7. CASE Succeed \/ Replay \/ SkipChannel
  <2>1. /\ pc = "joining" /\ i \in Index /\ pc' \in {"boundary", "pausing"}
        /\ UNCHANGED <<state, outcome>> /\ outcome = "none"
        /\ state \in {"running", "paused", "aborted"}
    BY <1>7 DEF Succeed, Replay, SkipChannel, Exhausted, Ended, AtCeiling, PlaceInv, InPlan,
       Index, ControlInv, RunKnown
  <2>2. SeenStep \in SeenSteps /\ SeenStep # Contract!Nothing
    BY <2>1, StepSeen
  <2>3. CASE pc' = "pausing"
    <3>1. Contract!AskOperator
      BY <2>1, <2>2, <2>3 DEF SeenStep, Contract!AskOperator, Contract!Going, Contract!Asking
    <3> QED BY <3>1 DEF Contract!Next
  <2>4. CASE pc' = "boundary" /\ ~ (i' > Len(Plan))
    <3>1. Contract!EndStep
      BY <2>1, <2>2, <2>4 DEF SeenStep, Contract!EndStep, Contract!Going, Contract!Nothing
    <3> QED BY <3>1 DEF Contract!Next
  <2>5. CASE pc' = "boundary" /\ i' > Len(Plan)
    <3>1. Contract!Finish
      BY <2>1, <2>2, <2>5 DEF SeenStep, Contract!Finish, Contract!Over, Contract!Going,
         Contract!Nothing
    <3> QED BY <3>1 DEF Contract!Next
  <2> QED BY <2>1, <2>3, <2>4, <2>5
<1>8. CASE CheckBeforeHold \/ Unanswered
  BY <1>8 DEF CheckBeforeHold, Unanswered, Unchanged, SeenStep, PlaceInv, InPlan
<1>9. CASE PauseForHold
  <2>1. Contract!Pause
    BY <1>9 DEF PauseForHold, Unchanged, SeenStep, PlaceInv, InPlan, ControlInv, PressKnown,
       Contract!Pause
  <2> QED BY <2>1 DEF Contract!Next
<1>10. CASE Ask \/ Answered \/ ParkUnattended
  <2>1. /\ pc \in {"asking", "holding", "parking"} /\ pc' \in {"boundary", "holding"}
        /\ UNCHANGED <<i, outcome>> /\ outcome = "none"
        /\ state \in {"running", "paused", "aborted"}
        /\ state' = state \/ (state' = "aborted" /\ state # "aborted")
        /\ pc' = "holding" => state' = state
    BY <1>10 DEF Ask, Answered, ParkUnattended, Unchanged, PlaceInv, InPlan, ControlInv,
       RunKnown
  <2>2. SeenStep = Contract!Asking /\ SeenStep # Contract!Nothing
    BY <2>1 DEF SeenStep, Contract!Asking, Contract!Nothing
  <2>3. CASE pc' = "holding"
    BY <2>1, <2>3 DEF SeenStep
  <2>4. CASE pc' = "boundary" /\ ~ (i' > Len(Plan))
    <3>1. Contract!EndStep
      BY <2>1, <2>2, <2>4 DEF SeenStep, Contract!EndStep, Contract!Going, Contract!Nothing
    <3> QED BY <3>1 DEF Contract!Next
  <2>5. CASE pc' = "boundary" /\ i' > Len(Plan)
    <3>1. Contract!Finish
      BY <2>1, <2>2, <2>5 DEF SeenStep, Contract!Finish, Contract!Over, Contract!Going,
         Contract!Nothing
    <3> QED BY <3>1 DEF Contract!Next
  <2> QED BY <2>1, <2>3, <2>4, <2>5
<1>11. CASE Land
  <2>1. UNCHANGED <<pc, i, outcome, result, SeenStep>>
    BY <1>11 DEF Land, run, SeenStep
  <2>2. CASE ~Begun \/ StepsOver
    BY <2>1, <2>2
  <2>3. CASE Begun /\ ~StepsOver
    <3>1. state \in {"running", "paused", "aborted"}
      BY <2>3 DEF ControlInv, RunKnown, PlaceInv, InPlan
    <3>2. \/ state = "running" /\ state' = "paused"
          \/ state = "paused" /\ state' = "running"
          \/ state \in {"running", "paused"} /\ state' = "aborted"
      <4>1. CASE press = "pause"
        BY <1>11, <4>1 DEF Land, ControlInv, PressKnown
      <4>2. CASE press = "resume"
        BY <1>11, <4>2 DEF Land, ControlInv, PressKnown
      <4>3. CASE press = "abort"
        BY <1>11, <4>3 DEF Land, ControlInv, PressKnown
      <4> QED BY <1>11, <4>1, <4>2, <4>3 DEF Land, ControlInv, PressKnown, Controls
    <3>3. Contract!Pause \/ Contract!Resume \/ Contract!Abort
      BY <2>1, <2>3, <3>2 DEF Contract!Pause, Contract!Resume, Contract!Abort
    <3> QED BY <3>3 DEF Contract!Next
  <2> QED BY <2>2, <2>3
<1>12. CASE OfferPurge \/ EndPurge \/ UNCHANGED vars \/ \E c \in {"pause", "resume",
   "abort"} : Press(c)
  BY <1>12 DEF OfferPurge, EndPurge, Press, run, vars, SeenStep
<1> QED
  BY <1>2, <1>3, <1>4, <1>5, <1>6, <1>7, <1>8, <1>9, <1>10, <1>11, <1>12 DEF Next, Advance

\* For any plan with steps, on one event loop: whatever is retried, replayed, skipped,
\* purged and pressed, the run keeps the contract that campaigns are built on.
THEOREM KeepsContractHolds ==
  ASSUME ~Threaded, Plan # <<>>
  PROVE  Spec => KeepsContract
<1>1. Init => Contract!Init
  BY DEF Init, Contract!Init, Contract!Nothing, SeenState, SeenStep, SeenEnding, Begun, InHold
<1>2. ControlInv /\ PlaceInv /\ PlaceInv' /\ [Next]_vars => [Contract!Next]_(Contract!trial)
  BY ContractStep
<1> QED
  BY <1>1, <1>2, ControlHolds, PlaceHolds, PTL
     DEF Spec, KeepsContract, Contract!Spec

--------------------------------------------------------------------------------
(* One drop an electrode.                                                  *)

Deposit(k) == Plan[k].phase = "deposit"

\* As the deferred recipes lay a batch out: a channel is cast on by one step, the last of
\* its block, and that step is not retried in place.
DepositsApart ==
  \A k \in Index : Deposit(k) =>
    /\ Plan[k].ch \in Channel /\ Plan[k].tries = 1
    /\ k + 1 \in Index => Plan[k + 1].ch # Plan[k].ch
    /\ \A j \in Index : Deposit(j) /\ Plan[j].ch = Plan[k].ch => j = k

\* The step that cast is behind the run, or is the one it is at or ended with.
CastBehind(k) ==
  \/ k < i
  \/ k = i /\ (pc \in {"teardown", "done"} \/ (pc \in {"step", "joining"} /\ eluted))

CastBy(c) == \E k \in Index : Deposit(k) /\ Plan[k].ch = c /\ CastBehind(k)

\* A drop on an electrode was cast by a step the run does not come back to.
CastKnown ==
  /\ drops \in [Channel -> {0, 1}]
  /\ pc = "idle" => i = 0
  /\ \A c \in Channel : drops[c] = 1 => CastBy(c)
  /\ pc \in {"step", "joining"} => attempt \in Nat \ {0}
  /\ pc = "joining" /\ result \in {"comm", "other"} => (tagged <=> Deposit(i) /\ eluted)

\* Nothing is cast before the run.
LEMMA CastInit == Init => CastKnown
BY DEF Init, CastKnown

\* A replay does not go back over a deposit.
LEMMA ReplayStaysAfter ==
  ASSUME DepositsApart, NEW k \in Index, Deposit(k), NEW n \in Index, k < n
  PROVE  k < BlockStart(n)
<1> SUFFICES ASSUME ~ (k < BlockStart(n)) PROVE FALSE
  OBVIOUS
<1>1. BlockStart(n) \in 1 .. n /\ SameBlock(BlockStart(n), n)
  BY BlockBegins
<1>2. k \in BlockStart(n) .. n /\ k + 1 \in BlockStart(n) .. n /\ k + 1 \in Index
  BY <1>1 DEF Index
<1>3. Plan[k].ch = Plan[n].ch /\ Plan[k + 1].ch = Plan[n].ch
  BY <1>1, <1>2 DEF SameBlock
<1> QED BY <1>2, <1>3 DEF DepositsApart

\* No step casts where a drop is, or comes back to where it cast one.
LEMMA CastStep ==
  ASSUME "timeout" \notin Faults, DepositsApart, CastKnown, PlaceInv, PlaceInv', [Next]_vars
  PROVE  CastKnown'
<1>0. /\ PlaceInv => (pc \in {"boundary", "waiting", "step", "joining"} => i \in Nat)
      /\ Faults \subseteq {"comm", "other"}
  BY SwitchesAssumption, PlanAssumption DEF PlaceInv, InPlan, Begun
<1>1. CASE Elute
  <2>1. /\ pc = "step" /\ ~eluted /\ i \in Index /\ Deposit(i)
        /\ drops' = [drops EXCEPT ![Plan[i].ch] = @ + 1] /\ eluted'
        /\ UNCHANGED <<pc, i, attempt, result, tagged>>
    BY <1>1 DEF Elute, Casts, Deposit, PlaceInv, InPlan, Begun, Index
  <2>2. Plan[i].ch \in Channel
    BY <2>1 DEF DepositsApart
  <2>3. drops[Plan[i].ch] # 1
    <3> SUFFICES ASSUME drops[Plan[i].ch] = 1 PROVE FALSE
      OBVIOUS
    <3>1. PICK k \in Index : Deposit(k) /\ Plan[k].ch = Plan[i].ch /\ CastBehind(k)
      BY <2>2 DEF CastKnown, CastBy
    <3>2. k = i
      BY <2>1, <3>1 DEF DepositsApart
    <3> QED BY <2>1, <3>1, <3>2 DEF CastBehind, Index
  <2>4. drops' \in [Channel -> {0, 1}]
    BY <2>1, <2>2, <2>3 DEF CastKnown
  <2>5. CastBehind(i)'
    BY <2>1 DEF CastBehind
  <2>6. \A c \in Channel : drops'[c] = 1 => CastBy(c)'
    <3> SUFFICES ASSUME NEW c \in Channel, drops'[c] = 1 PROVE CastBy(c)'
      OBVIOUS
    <3>0. CASE c = Plan[i].ch
      BY <2>1, <2>5, <3>0 DEF CastBy, Deposit
    <3>1. CASE c # Plan[i].ch
      <4>1. drops[c] = 1
        BY <2>1, <2>2, <3>1 DEF CastKnown
      <4>2. PICK k \in Index : Deposit(k) /\ Plan[k].ch = c /\ CastBehind(k)
        BY <4>1 DEF CastKnown, CastBy
      <4>3. CastBehind(k)'
        BY <2>1, <4>2 DEF CastBehind
      <4> QED BY <4>2, <4>3 DEF CastBy, Deposit
    <3> QED BY <3>0, <3>1
  <2> QED BY <2>1, <2>4, <2>6 DEF CastKnown
<1>2. CASE Replay
  <2>1. /\ pc = "joining" /\ i \in Index /\ i' = BlockStart(i) /\ pc' = "boundary"
        /\ result \in Faults /\ result \in {"comm", "timeout"} /\ Retriable /\ UNCHANGED drops
    BY <1>2 DEF Replay, Exhausted, Ended, Recoverable, ChannelRunStart, PlaceInv, InPlan,
       Begun, Index
  <2>2. ~ (Deposit(i) /\ eluted)
    BY <1>0, <2>1 DEF Retriable, Deposit, CastKnown
  <2>3. \A k \in Index : Deposit(k) /\ CastBehind(k) => k < i'
    BY <2>1, <2>2, ReplayStaysAfter DEF CastBehind, Deposit
  <2> QED BY <2>1, <2>3 DEF CastKnown, CastBy, CastBehind, Deposit
<1>3. CASE UNCHANGED drops /\ ~Replay
  <2>1. \A k \in Index : Deposit(k) /\ CastBehind(k) => CastBehind(k)'
    <3> USE <1>0, <1>3 DEF CastBehind, PlaceInv, InPlan, Begun, Inside
    <3>1. CASE Run
      <4>1. pc = "idle" /\ i = 0
        BY <3>1 DEF Run, CastKnown
      <4> QED BY <4>1 DEF Index
    <3>2. CASE Boundary \/ StopWaiting \/ Complete \/ TearDown
      BY <3>2 DEF Boundary, StopWaiting, Proceed, RaiseAborted, StartStep, StartAttempt,
                  Complete, TearDown, TearDownAndRelease, run
    <3>3. CASE Elute \/ EndStep \/ Succeed \/ Fail
      BY <3>3 DEF Elute, EndStep, Succeed, Fail, Exhausted, Ended, run, Index
    <3>4. CASE RetryStep
      <4>1. ~ Deposit(i)
        BY <3>4 DEF RetryStep, CastKnown, DepositsApart, Index
      <4> QED BY <3>4, <4>1 DEF RetryStep, StartAttempt
    <3>5. CASE SkipChannel
      <4>1. i \in Index /\ i' = BlockEnd(i) + 1
        BY <3>5, <1>0 DEF SkipChannel, Exhausted, Ended, Index
      <4>2. BlockEnd(i) \in i .. Len(Plan)
        BY <4>1, BlockEnds
      <4>3. i \in Nat /\ i' \in Nat /\ i < i' /\ Index \subseteq Nat
        BY <4>1, <4>2 DEF Index
      <4>4. \A k \in Index : k < i \/ k = i => k < i'
        BY <4>3
      <4> QED BY <4>4
    <3>6. CASE CheckBeforeHold \/ PauseForHold \/ Ask \/ Answered \/ Unanswered \/ ParkUnattended
      BY <3>6 DEF CheckBeforeHold, PauseForHold, Ask, Answered, Unanswered, ParkUnattended,
         Unchanged
    <3>7. CASE OfferPurge \/ EndPurge \/ Land \/ UNCHANGED vars
               \/ \E c \in {"pause", "resume", "abort"} : Press(c)
      <4>1. UNCHANGED <<pc, i, eluted>>
        BY <3>7 DEF OfferPurge, EndPurge, Land, Press, vars, run
      <4> QED BY <4>1
    <3> QED
      BY <3>1, <3>2, <3>3, <3>4, <3>5, <3>6, <3>7 DEF Next, Advance
  <2>2. \A c \in Channel : drops'[c] = 1 => CastBy(c)'
    BY <1>3, <2>1 DEF CastKnown, CastBy, Deposit
  <2>3. /\ pc' = "idle" => i' = 0
        /\ pc' \in {"step", "joining"} => attempt' \in Nat \ {0}
        /\ pc' = "joining" /\ result' \in {"comm",
           "other"} => (tagged' <=> (Deposit(i) /\ eluted)')
    <3> USE <1>3 DEF CastKnown, Deposit
    <3>1. CASE Run \/ Boundary \/ StopWaiting \/ Complete \/ TearDown
      BY <3>1 DEF Run, Boundary, StopWaiting, Proceed, RaiseAborted, StartStep, StartAttempt,
                  Complete, TearDown, TearDownAndRelease, run
    <3>2. CASE EndStep
      BY <3>2 DEF EndStep, Tag, Casts
    <3>3. CASE Elute \/ Succeed \/ Fail \/ RetryStep
      BY <3>3 DEF Elute, Succeed, Fail, RetryStep, StartAttempt, Exhausted, Ended, run
    <3>4. CASE SkipChannel
      BY <3>4 DEF SkipChannel
    <3>5. CASE CheckBeforeHold \/ PauseForHold \/ Ask \/ Answered \/ Unanswered \/ ParkUnattended
      BY <3>5 DEF CheckBeforeHold, PauseForHold, Ask, Answered, Unanswered, ParkUnattended,
         Unchanged
    <3>6. CASE OfferPurge \/ EndPurge \/ Land \/ UNCHANGED vars
               \/ \E c \in {"pause", "resume", "abort"} : Press(c)
      <4>1. UNCHANGED <<pc, i, eluted, attempt, result, tagged>>
        BY <3>6 DEF OfferPurge, EndPurge, Land, Press, vars, run
      <4> QED BY <4>1
    <3> QED
      BY <3>1, <3>2, <3>3, <3>4, <3>5, <3>6 DEF Next, Advance
  <2> QED BY <1>3, <2>2, <2>3 DEF CastKnown
<1>4. Elute \/ UNCHANGED drops
  <2>1. CASE Elute
    BY <2>1
  <2>2. CASE \/ OfferPurge \/ EndPurge \/ Land \/ UNCHANGED vars \/ SkipChannel
             \/ \E c \in {"pause", "resume", "abort"} : Press(c)
    BY <2>2 DEF OfferPurge, EndPurge, Land, Press, SkipChannel, vars, run
  <2> QED
    BY <2>1, <2>2 DEF Next, Advance, Run, Boundary, StopWaiting, Proceed, Complete, EndStep,
       Succeed, RetryStep, Fail, Replay, CheckBeforeHold, PauseForHold, Ask, Answered,
       Unanswered, ParkUnattended, Unchanged, TearDown, TearDownAndRelease, run
<1> QED BY <1>1, <1>2, <1>3, <1>4

\* Where a timed-out deposition is not among the faults, no electrode gets a second drop,
\* whatever is retried, replayed and skipped in plans that cast last on each channel.
THEOREM CastOnceHolds ==
  ASSUME "timeout" \notin Faults, DepositsApart
  PROVE  Spec => []CastOnce
<1>1. CastKnown => CastOnce
  BY DEF CastKnown, CastOnce
<1>2. CastKnown /\ PlaceInv /\ PlaceInv' /\ [Next]_vars => CastKnown'
  BY CastStep
<1> QED BY <1>1, <1>2, CastInit, PlaceHolds, PTL DEF Spec

================================================================================
