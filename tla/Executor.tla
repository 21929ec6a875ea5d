-------------------------------- MODULE Executor --------------------------------
(***************************************************************************)
(* WorkflowExecutor of workflows/workflow_executor.py running one linear   *)
(* workflow: the steps, their attempts and purge windows, the channel      *)
(* replay and skip that follow a recoverable failure, the ceiling on       *)
(* consecutive abandoned channels, the rig lock around all of it, and the  *)
(* operator, who pauses, resumes and aborts from another task (a campaign) *)
(* or another thread (the HT tab).                                         *)
(*                                                                         *)
(* pc is where run() is suspended or about to be:                          *)
(*   boundary -> (waiting) -> step -> joining -> boundary ...              *)
(*   joining -> pausing -> holding -> (parking)   at the channel ceiling   *)
(*   teardown -> done                                                      *)
(***************************************************************************)
EXTENDS Naturals, Sequences, FiniteSets

CONSTANTS
  Channel,            \* the electrodes the workflow works on
  NoChannel,          \* the tag of a campaign-level step
  Plan,               \* the steps: a sequence of [ch, phase, tries, window]
  Faults,             \* how a step can fail: "comm", "timeout", "other"
  ContinueOnError,    \* continue_on_error
  MaxChannelRetries,  \* max_channel_retries
  Ceiling,            \* max_consecutive_channel_failures; 0 switches it off
  Threaded            \* TRUE: the operator's calls come from another thread

ASSUME PlanAssumption ==
  Plan \in Seq([ch : Channel \cup {NoChannel}, phase : STRING,
                tries : Nat \ {0}, window : BOOLEAN])
ASSUME NoChannelAssumption == NoChannel \notin Channel
ASSUME BoundsAssumption == MaxChannelRetries \in Nat /\ Ceiling \in Nat
ASSUME SwitchesAssumption ==
  Threaded \in BOOLEAN /\ ContinueOnError \in BOOLEAN
  /\ Faults \subseteq {"comm", "timeout", "other"}

VARIABLES
  state,     \* ExecutorState
  pc,        \* where run() is
  i,         \* the step it is at
  attempt,   \* the attempt of _run_step
  eluted,    \* this attempt has commanded a pump to elute
  result,    \* how the attempt ended
  tagged,    \* its exception carries dispense_committed
  used,      \* channel_retries
  streak,    \* _consecutive_channel_failures
  skipped,   \* skipped_channels
  finished,  \* the steps that completed
  drops,     \* how often a drop was cast on each channel's electrode
  held,      \* what on_pause_hold last told the host
  purge,     \* the purge loop beside the step
  lock,      \* run()'s relation to the rig lock
  outcome,   \* how run() ended
  accepted,  \* an abort changed the state
  press      \* a control call between its state check and its assignment

run  == <<i, attempt, eluted, result, tagged, used, streak, skipped, finished, drops>>
vars == <<state, pc, run, held, purge, lock, outcome, accepted, press>>

States   == {"idle", "running", "paused", "aborted", "completed", "error"}
Controls == {"none", "pause", "resume", "abort"}

\* The variables keep their types, and the counters their bounds: a channel is
\* replayed at most MaxChannelRetries times and a step tried at most tries times.
TypeOK ==
  /\ state \in States
  /\ pc \in {"idle", "boundary", "waiting", "step", "joining", "pausing", "setting", "asking",
             "holding", "parking", "teardown", "done"}
  /\ i \in 0 .. Len(Plan) + 1
  /\ attempt \in Nat /\ (pc \in {"step", "joining"} => attempt \in 1 .. Plan[i].tries)
  /\ eluted \in BOOLEAN /\ tagged \in BOOLEAN
  /\ result \in {"none", "ok"} \cup Faults
  /\ used \in [Channel -> 0 .. MaxChannelRetries]
  /\ streak \in Nat
  /\ skipped \subseteq Channel
  /\ finished \subseteq 1 .. Len(Plan)
  /\ drops \in [Channel -> Nat]
  /\ held \in BOOLEAN
  /\ purge \in {"none", "queued", "busy", "resting"}
  /\ lock \in {"none", "taken", "shared", "exempt"}
  /\ outcome \in {"none", "refused", "completed", "aborted", "error"}
  /\ accepted \in BOOLEAN
  /\ press \in Controls

Init ==
  /\ state = "idle" /\ pc = "idle"
  /\ i = 0 /\ attempt = 0 /\ eluted = FALSE /\ result = "none" /\ tagged = FALSE
  /\ used = [c \in Channel |-> 0]
  /\ streak = 0 /\ skipped = {} /\ finished = {}
  /\ drops = [c \in Channel |-> 0]
  /\ held = FALSE /\ purge = "none"
  /\ lock = "none" /\ outcome = "none"
  /\ accepted = FALSE /\ press = "none"

\* On one event loop a control call is atomic; from another thread it is not.
Free == Threaded \/ press = "none"

--------------------------------------------------------------------------------
(* The plan: a channel's contiguous blocks.                                *)

SameBlock(j, k) == \A m \in j .. k : Plan[m].ch = Plan[k].ch

BlockStart(k) == CHOOSE j \in 1 .. k :
  SameBlock(j, k) /\ (j = 1 \/ Plan[j - 1].ch # Plan[k].ch)

BlockEnd(k) == CHOOSE j \in k .. Len(Plan) :
  SameBlock(k, j) /\ (j = Len(Plan) \/ Plan[j + 1].ch # Plan[j].ch)

\* Mutant: replay from the channel's first step anywhere in the plan.
GlobalStart(k) == CHOOSE j \in 1 .. k :
  Plan[j].ch = Plan[k].ch /\ \A m \in 1 .. j - 1 : Plan[m].ch # Plan[k].ch

ChannelRunStart(k) == BlockStart(k)

ChannelEndsHere(k) == Plan[k].ch # NoChannel /\ BlockEnd(k) = k

--------------------------------------------------------------------------------
(* run(): the arming check and the rig lock come before everything else.   *)

Run ==
  /\ pc = "idle" /\ Free
  /\ \/ /\ outcome' = "refused" /\ pc' = "done"    \* not armed, or another's rig
        /\ UNCHANGED <<state, i, lock>>
     \/ /\ lock' \in {"taken", "shared", "exempt"}
        /\ state' = "running" /\ i' = 1 /\ pc' = "boundary"
        /\ UNCHANGED outcome
  /\ UNCHANGED <<attempt, eluted, result, tagged, used, streak, skipped, finished,
                 drops, held, purge, accepted, press>>

(* A step boundary: a paused run waits, an aborted one raises, and nothing *)
(* is awaited between the two looks.                                       *)

StartAttempt(n, window) ==
  /\ pc' = "step" /\ attempt' = n
  /\ eluted' = FALSE /\ result' = "none" /\ tagged' = FALSE
  /\ purge' = IF window THEN "queued" ELSE "none"

RaiseAborted ==
  /\ outcome' = "aborted" /\ pc' = "teardown"
  /\ UNCHANGED <<attempt, eluted, result, tagged, purge>>

StartStep == StartAttempt(1, Plan[i].window) /\ UNCHANGED outcome

Proceed ==
  /\ IF state = "aborted" THEN RaiseAborted ELSE StartStep
  /\ UNCHANGED <<state, i, used, streak, skipped, finished, drops, lock, accepted, press>>

Boundary ==
  /\ pc = "boundary" /\ i <= Len(Plan) /\ Free
  /\ IF state = "paused"
     THEN pc' = "waiting" /\ held' = TRUE
          /\ UNCHANGED <<state, run, purge, lock, outcome, accepted, press>>
     ELSE Proceed /\ UNCHANGED held

\* Mutant: abort was looked at before the wait, and is not looked at after it.
StopWaitingBlindly ==
  /\ pc = "waiting" /\ state # "paused" /\ Free
  /\ held' = FALSE /\ StartStep
  /\ UNCHANGED <<state, i, used, streak, skipped, finished, drops, lock, accepted, press>>

StopWaiting ==
  /\ pc = "waiting" /\ state # "paused" /\ Free
  /\ held' = FALSE /\ Proceed

Complete ==
  /\ pc = "boundary" /\ i > Len(Plan) /\ Free
  /\ state' = "completed" /\ outcome' = "completed" /\ pc' = "teardown"
  /\ UNCHANGED <<run, held, purge, lock, accepted, press>>

--------------------------------------------------------------------------------
(* An attempt of a step and the purge loop beside it.                      *)

Casts == Plan[i].phase = "deposit"

\* single_drop_simul commands the first pump.
Elute ==
  /\ pc = "step" /\ Casts /\ ~eluted /\ Free
  /\ eluted' = TRUE
  /\ drops' = [drops EXCEPT ![Plan[i].ch] = @ + 1]
  /\ UNCHANGED <<state, pc, i, attempt, result, tagged, used, streak, skipped, finished,
                 held, purge, lock, outcome, accepted, press>>

\* The driver tags what it raises; a cancelled call (wait_for's timeout) raises
\* CancelledError past its except clause and the StepTimeoutError carries no tag.
Tag(r) == Casts /\ eluted /\ r \in {"comm", "other"}

EndStep ==
  /\ pc = "step" /\ Free
  /\ \/ result' = "ok" /\ (Casts => eluted) /\ finished' = finished \cup {i}
     \/ result' \in Faults /\ UNCHANGED finished
  /\ tagged' = Tag(result')
  /\ pc' = "joining"
  /\ UNCHANGED <<state, i, attempt, eluted, used, streak, skipped, drops, held, purge,
                 lock, outcome, accepted, press>>

\* The loop offers before it looks at the stop flag.
OfferPurge ==
  /\ purge = "queued" \/ (purge = "resting" /\ pc = "step")
  /\ purge' = "busy"
  /\ UNCHANGED <<state, pc, run, held, lock, outcome, accepted, press>>

EndPurge ==
  /\ purge = "busy" /\ purge' = "resting"
  /\ UNCHANGED <<state, pc, run, held, lock, outcome, accepted, press>>

\* Mutant: the purge loop is told to stop and not waited for.
JoinNothing == purge' \in {purge, "none"}

\* _close_purge_window waits out a purge in flight.
JoinPurge == purge \in {"none", "resting"} /\ purge' = "none"

--------------------------------------------------------------------------------
(* After the attempt: next step, retry, replay, skip, or the run's error.  *)

Ended == pc = "joining" /\ Free /\ JoinPurge

Succeed ==
  /\ Ended /\ result = "ok"
  /\ streak' = IF ChannelEndsHere(i) THEN 0 ELSE streak
  /\ i' = i + 1 /\ pc' = "boundary"
  /\ UNCHANGED <<state, attempt, eluted, result, tagged, used, skipped, finished, drops,
                 held, lock, outcome, accepted, press>>

RetryStep ==
  /\ pc = "joining" /\ Free /\ purge \in {"none", "resting"}
  /\ result \in Faults /\ attempt < Plan[i].tries
  /\ StartAttempt(attempt + 1, FALSE)
  /\ UNCHANGED <<state, i, used, streak, skipped, finished, drops, held, lock, outcome,
                 accepted, press>>

Exhausted == Ended /\ result \in Faults /\ attempt = Plan[i].tries

Recoverable == ContinueOnError /\ Plan[i].ch # NoChannel /\ result \in {"comm", "timeout"}

Fail ==
  /\ Exhausted /\ ~Recoverable
  /\ state' = "error" /\ outcome' = "error" /\ pc' = "teardown"
  /\ UNCHANGED <<run, held, lock, accepted, press>>

Retriable == Plan[i].phase # "deposit" \/ ~tagged

\* Mutant: a replay is not charged to the channel.
ReplayUncharged ==
  /\ Exhausted /\ Recoverable /\ Retriable
  /\ used[Plan[i].ch] < MaxChannelRetries
  /\ i' = ChannelRunStart(i) /\ pc' = "boundary"
  /\ UNCHANGED <<state, attempt, eluted, result, tagged, used, streak, skipped, finished,
                 drops, held, lock, outcome, accepted, press>>

Replay ==
  /\ Exhausted /\ Recoverable /\ Retriable
  /\ used[Plan[i].ch] < MaxChannelRetries
  /\ used' = [used EXCEPT ![Plan[i].ch] = @ + 1]
  /\ i' = ChannelRunStart(i) /\ pc' = "boundary"
  /\ UNCHANGED <<state, attempt, eluted, result, tagged, streak, skipped, finished, drops,
                 held, lock, outcome, accepted, press>>

\* Mutant: the channel is recorded only when it has steps left to skip.
RecordSkipIfTrailing == IF BlockEnd(i) > i THEN skipped \cup {Plan[i].ch} ELSE skipped

RecordSkip == skipped \cup {Plan[i].ch}

\* Mutant: the streak has to exceed the ceiling.
PastCeiling(n) == Ceiling # 0 /\ n > Ceiling

AtCeiling(n) == Ceiling # 0 /\ n >= Ceiling

SkipChannel ==
  /\ Exhausted /\ Recoverable
  /\ ~(Retriable /\ used[Plan[i].ch] < MaxChannelRetries)
  /\ skipped' = RecordSkip
  /\ i' = BlockEnd(i) + 1
  /\ streak' = streak + 1
  /\ pc' = IF AtCeiling(streak + 1) THEN "pausing" ELSE "boundary"
  /\ UNCHANGED <<state, attempt, eluted, result, tagged, used, finished, drops, held,
                 lock, outcome, accepted, press>>

--------------------------------------------------------------------------------
(* _hold_for_operator.  pause() is a check and an assignment; the prompt   *)
(* comes after it, so a host may answer before the hold begins.            *)

Unchanged == UNCHANGED <<i, attempt, eluted, result, tagged, used, skipped, finished,
                         drops, purge, lock, outcome, press>>

CheckBeforeHold ==
  /\ pc = "pausing" /\ Free
  /\ pc' = IF state = "running" THEN "setting" ELSE "asking"
  /\ Unchanged /\ UNCHANGED <<state, streak, held, accepted>>

PauseForHold ==
  /\ pc = "setting"
  /\ state' = "paused" /\ pc' = "asking"
  /\ Unchanged /\ UNCHANGED <<streak, held, accepted>>

Ask ==
  /\ pc = "asking" /\ Free
  /\ IF state = "paused"
     THEN pc' = "holding" /\ held' = TRUE /\ UNCHANGED streak
     ELSE pc' = "boundary" /\ streak' = 0 /\ UNCHANGED held
  /\ Unchanged /\ UNCHANGED <<state, accepted>>

Answered ==
  /\ pc = "holding" /\ state # "paused" /\ Free
  /\ held' = FALSE /\ streak' = 0 /\ pc' = "boundary"
  /\ Unchanged /\ UNCHANGED <<state, accepted>>

\* Mutant: the park runs while the hold is still announced.
UnansweredHeld ==
  /\ pc = "holding" /\ state = "paused" /\ Free
  /\ pc' = "parking"
  /\ Unchanged /\ UNCHANGED <<state, streak, held, accepted>>

Unanswered ==
  /\ pc = "holding" /\ state = "paused" /\ Free
  /\ held' = FALSE /\ pc' = "parking"
  /\ Unchanged /\ UNCHANGED <<state, streak, accepted>>

ParkUnattended ==
  /\ pc = "parking" /\ Free
  /\ IF state \in {"running", "paused"}
     THEN state' = "aborted" /\ accepted' = TRUE
     ELSE UNCHANGED <<state, accepted>>
  /\ pc' = "boundary"
  /\ Unchanged /\ UNCHANGED <<streak, held>>

--------------------------------------------------------------------------------

\* The teardown steps, then the release of a lock this run took.
TearDownAndRelease == pc = "teardown" /\ Free /\ lock' = "none" /\ pc' = "done"

TearDown ==
  /\ TearDownAndRelease
  /\ UNCHANGED <<state, run, held, purge, outcome, accepted, press>>

--------------------------------------------------------------------------------
(* pause(), resume() and abort(): each looks at the state, then assigns it.*)

Press(c) ==
  /\ press = "none" /\ (Threaded \/ pc # "setting")
  /\ \/ c = "pause"  /\ state = "running"
     \/ c = "resume" /\ state = "paused"
     \/ c = "abort"  /\ state \in {"running", "paused"}
  /\ press' = c
  /\ UNCHANGED <<state, pc, run, held, purge, lock, outcome, accepted>>

Land ==
  /\ press # "none"
  /\ state' = CASE press = "pause" -> "paused"
                [] press = "resume" -> "running"
                [] press = "abort" -> "aborted"
  /\ accepted' = (accepted \/ press = "abort")
  /\ press' = "none"
  /\ UNCHANGED <<pc, run, held, purge, lock, outcome>>

Advance ==
  \/ Run \/ Boundary \/ StopWaiting \/ Complete
  \/ Elute \/ EndStep \/ Succeed \/ RetryStep \/ Fail \/ Replay \/ SkipChannel
  \/ CheckBeforeHold \/ PauseForHold \/ Ask \/ Answered \/ Unanswered \/ ParkUnattended
  \/ TearDown

Next ==
  \/ Advance
  \/ OfferPurge \/ EndPurge
  \/ \E c \in {"pause", "resume", "abort"} : Press(c)
  \/ Land

Spec == Init /\ [][Next]_vars

\* Every step ends (a step without a timeout of its own gets the default one), a
\* purge ends, a button that was pressed has its effect, and pressing buttons does not
\* keep the run from its turn.  Nobody has to press.
Fairness == SF_vars(Advance) /\ WF_vars(OfferPurge) /\ WF_vars(EndPurge) /\ WF_vars(Land)

FairSpec == Spec /\ Fairness

--------------------------------------------------------------------------------
(* What the host of a run sees of it (WorkflowRun.tla).                    *)

Begun == pc # "idle" /\ outcome # "refused"

\* The steps are over when the last one is; Complete and the teardown follow.
StepsOver == pc \in {"teardown", "done"} \/ (pc = "boundary" /\ i > Len(Plan))

InHold == pc \in {"pausing", "setting", "asking", "holding", "parking"}

SeenState ==
  IF ~Begun THEN "none" ELSE IF StepsOver THEN "over" ELSE state

SeenStep ==
  IF pc \in {"step", "joining"}
  THEN [kind |-> IF Plan[i].phase = "deposit" THEN "cast" ELSE "step", ch |-> Plan[i].ch]
  ELSE [kind |-> IF InHold THEN "hold" ELSE "none", ch |-> 0]

SeenEnding ==
  IF ~Begun \/ ~StepsOver THEN "none"
  ELSE IF outcome = "aborted" THEN "aborted"
  ELSE IF outcome = "error" THEN result
  ELSE "results"

SeenSteps == [kind : {"cast", "step"}, ch : Channel \cup {NoChannel}]

Contract == INSTANCE WorkflowRun
              WITH Step <- SeenSteps, Causes <- Faults,
                   ex <- SeenState, doing <- SeenStep, ending <- SeenEnding

--------------------------------------------------------------------------------
(* Properties.                                                             *)

\* What moves the rig: a step, a purge, the park and the teardown.
Driving == pc \in {"step", "joining", "parking", "teardown"} \/ purge = "busy"

\* on_pause_hold hands the instruments to the operator: nothing moves meanwhile
\* (_pause_hold, and the park kept outside the hold in _hold_for_operator).
HeldIsQuiet == held => ~Driving

\* An abort takes effect before the next step, whatever the run was doing: a paused
\* run that is aborted does not do one more step, nor does a replay or a skip.
NoStepAfterAbort ==
  [][(pc # "step" /\ pc' = "step" /\ attempt' = 1) => ~accepted]_vars

\* The next step never begins while a purge is still dispensing, and a retried
\* step has none beside it (_close_purge_window: "the join is the safety property").
PurgeJoined == purge # "none" => pc \in {"step", "joining"} /\ attempt = 1

\* The rig is driven only under the rig lock, teardown and park included.
LockCoversDriving == Driving => lock # "none"

\* After Ceiling channels abandoned in a row nothing is tried until the operator
\* has answered.
CeilingHolds == (Ceiling # 0 /\ streak >= Ceiling) => pc \notin {"step", "joining"}

\* A drop is cast once: no replay casts on an electrode that already has a drop
\* (async_liquid_handler.py:258-262).
CastOnce == \A c \in Channel : drops[c] <= 1

\* A run that reports itself completed accounts for every channel: all its steps
\* were done, or the channel is among the skipped ones ("is this well real?").
CompletedAccounts ==
  outcome = "completed" =>
    \A k \in 1 .. Len(Plan) : k \in finished \/ Plan[k].ch \in skipped

\* To its host the run keeps the contract of WorkflowRun: no step begins but from a run
\* that is running, a control that lands anywhere takes effect at the next boundary, and
\* there is one ending, which says what the steps came to (run(), _run_linear_with_recovery).
KeepsContract == Contract!Spec

\* How far a run is at one step of its plan, and how far an attempt of the step is.
Rank == [idle |-> 0, pausing |-> 1, setting |-> 2, asking |-> 3, holding |-> 4, parking |-> 5,
         boundary |-> 6, waiting |-> 7, step |-> 8, joining |-> 8, teardown |-> 9,
         done |-> 10][pc]
Stage == <<attempt, IF pc = "joining" THEN 2 ELSE IF eluted THEN 1 ELSE 0>>

Onward ==
  \/ (\E c \in Channel : used'[c] > used[c]) /\ \A c \in Channel : used'[c] >= used[c]
  \/ /\ used' = used
     /\ \/ i' > i
        \/ i' = i /\ Rank' > Rank
        \/ i' = i /\ Rank = 8 /\ Rank' = 8
           /\ (Stage'[1] > Stage[1] \/ (Stage'[1] = Stage[1] /\ Stage'[2] > Stage[2]))

\* Whatever the operator presses, run() never turns in a circle: a move of its own spends
\* a channel's replay, or else goes on in the plan, in the step, or in its attempt.  There
\* is an end to each of these, so a run has finitely many moves (channel_retries is what
\* bounds the one way back, _run_linear_with_recovery).
RunsOnward == [][Onward]_<<pc, run>>

\* Every run ends or waits for the operator: replays do not go on for ever, and no
\* purge or ceiling keeps a run from its teardown.
RunEnds == [](pc = "boundary" => <>(pc \in {"waiting", "done"}))
================================================================================
