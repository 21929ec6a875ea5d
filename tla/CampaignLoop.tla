------------------------------ MODULE CampaignLoop ------------------------------
(***************************************************************************)
(* One campaign of AutonomousLoop.run (core/autonomous_loop.py) with the   *)
(* electrode allocator: suggest, gate, place, run a workflow, settle, close*)
(* every well, around again.  It is one asyncio task.  The operator's      *)
(* controls (Pause, Resume, Abort, the answers to the two gates) come from *)
(* other tasks of the same event loop, so they land only where the loop    *)
(* awaits; at names the place in the code, and Awaits the places where a   *)
(* control can land.  The WorkflowExecutor of a trial, or of a plate's     *)
(* equilibration, is the one that WorkflowRun.tla describes: its actions   *)
(* are the steps the executor takes here, each with the loop's callback.   *)
(***************************************************************************)
EXTENDS Naturals, Sequences, FiniteSets, SequencesExt, FiniteSetsExt

CONSTANTS
  MaxIterations,    \* the trial budget
  BatchSize,        \* q
  Capacity,         \* electrodes on a plate
  Occupied,         \* electrodes of the first plate that were cast before
  FailureLimit,     \* park_after_failed_trials
  AutoApprove,      \* FALSE: every round waits for an approval
  GateTimeouts,     \* TRUE: the gates are bounded by gate_timeout_s
  StepFaults,       \* the exceptions a step may end the workflow with
  StoreFails,       \* TRUE: the store may refuse an occupancy row or the active board
  ExchangeControls, \* where in a plate exchange Pause and Abort may land
  LastBoard         \* bound: the last plate there is

ASSUME SizesAssumption ==
  /\ MaxIterations \in Nat /\ BatchSize \in Nat \ {0} /\ Capacity \in Nat \ {0}
  /\ FailureLimit \in Nat \ {0} /\ LastBoard \in Nat \ {0}
  /\ Occupied \subseteq 1..Capacity
ASSUME ChoicesAssumption ==
  /\ AutoApprove \in BOOLEAN /\ GateTimeouts \in BOOLEAN /\ StoreFails \in BOOLEAN
  /\ ExchangeControls \subseteq {"board", "equilibrate"}
  /\ StepFaults \subseteq {"safety", "other"}

VARIABLES
  st,         \* LoopState
  at,         \* where the task is
  iter,       \* _iteration: wells closed
  failures,   \* _consecutive_failures
  ckpt,       \* the checkpoint on disk; kept = FALSE once it is cleared
  pauseReq, paused, abortReq,    \* the control flags
  approved,   \* _approval_event
  stopWait,   \* the instruments' hold-abort flags
  reason, parks,  \* _park_reason, and how often on_park fired
  ex,         \* the executor the loop holds: its state, or "none"
  doing,      \* the step in flight: its kind, and the electrode it casts onto or 0
  ending,     \* how the executor's run ends, once its steps are over
  board, free,    \* the allocator: its plate, and the electrodes it can still grant
  installed, pointer,  \* the plate in the rig, and the data store's active board
  stale,      \* the store refused to name the plate in the rig
  ask,        \* suggestions in the round
  batch,      \* electrodes allocated and not closed yet, in placement order
  due, conv,  \* _close_round's latches: a park is due, the history converged
  spent,      \* electrodes allocated so far
  wet, rows,  \* wells with material in them, and wells with an occupancy row
  lost        \* wells whose row the store refused

round    == <<ask, batch, due, conv, spent>>
controls == <<pauseReq, paused, abortReq, approved, stopWait>>
outcome  == <<reason, parks>>
counts   == <<iter, failures, ckpt>>
plates   == <<board, free, installed, pointer, stale>>
wells    == <<wet, rows, lost>>
trial    == <<ex, doing, ending>>
vars == <<st, at, counts, controls, outcome, trial, plates, round, wells>>

Terminal == {"STOPPED", "CONVERGED", "ERROR"}
States   == Terminal \cup {"IDLE", "SUGGESTING", "AWAITING_APPROVAL", "EXECUTING",
                           "ANALYZING", "AWAITING_BOARD"}
Awaits   == {"held", "board", "equilibrate", "approval", "trial", "settle"}
Places   == Awaits \cup {"idle", "gate", "cycle", "suggest", "place", "build", "closing",
                         "leaving", "ended"}
Exchange == {"board", "equilibrate"}
Electrode == 1..Capacity
Casts   == [kind : {"cast"}, ch : Electrode]
Others  == [kind : {"step"}, ch : {0}]

\* A campaign's executor is built without a channel ceiling, so nobody is ever asked.
Workflow == INSTANCE WorkflowRun WITH Step <- Casts \cup Others, Causes <- StepFaults
Nothing == Workflow!Nothing

Well == (1..LastBoard) \X Electrode

TypeOK ==
  /\ st \in States /\ at \in Places
  /\ iter \in 0..MaxIterations /\ failures \in 0..MaxIterations
  /\ ckpt \in [kept : BOOLEAN, iter : 0..MaxIterations, failures : 0..MaxIterations]
  /\ pauseReq \in BOOLEAN /\ paused \in BOOLEAN /\ abortReq \in BOOLEAN
  /\ approved \in BOOLEAN /\ stopWait \in BOOLEAN
  /\ reason \in {"none", "gate", "fault", "streak", "abort"} /\ parks \in 0..2
  /\ ex \in {"none", "running", "paused", "aborted", "over"}
  /\ doing \in Casts \cup Others \cup {Nothing}
  /\ ending \in {"none", "results", "aborted"} \cup StepFaults
  /\ board \in 1..LastBoard /\ installed \in 1..LastBoard /\ pointer \in 1..LastBoard
  /\ free \in SUBSET Electrode
  /\ ask \in 0..BatchSize /\ batch \in Seq(Electrode) /\ Len(batch) <= BatchSize
  /\ due \in BOOLEAN /\ conv \in BOOLEAN /\ spent \in 0..MaxIterations
  /\ stale \in BOOLEAN
  /\ wet \in SUBSET Well /\ rows \in SUBSET Well /\ lost \in SUBSET Well
  /\ ex = "none" <=> at \notin {"trial", "equilibrate"}

Init ==
  /\ st = "IDLE" /\ at = "idle"
  /\ iter = 0 /\ failures = 0 /\ ckpt = [kept |-> FALSE, iter |-> 0, failures |-> 0]
  /\ pauseReq = FALSE /\ paused = FALSE /\ abortReq = FALSE
  /\ approved = FALSE /\ stopWait = FALSE
  /\ reason = "none" /\ parks = 0
  /\ ex = "none" /\ doing = Nothing /\ ending = "none"
  /\ board = 1 /\ free = Electrode \ Occupied /\ installed = 1 /\ pointer = 1
  /\ stale = FALSE
  /\ ask = 0 /\ batch = <<>> /\ due = FALSE /\ conv = FALSE /\ spent = 0
  /\ wet = {1} \X Occupied /\ rows = {1} \X Occupied /\ lost = {}

--------------------------------------------------------------------------------
(* Helpers of the loop.                                                    *)

Goto(place) == at' = place

\* A terminal state is a latch.
SetState(new) == st' = IF st \in Terminal THEN st ELSE new

Park(why) ==
  /\ reason' = why /\ parks' = parks + 1
  /\ SetState("STOPPED")

\* _advance_iteration, once per well, each followed by a checkpoint.
Advance(n, streak) ==
  /\ iter' = iter + n /\ failures' = streak
  /\ ckpt' = [kept |-> TRUE, iter |-> iter + n, failures |-> streak]

WellsOf(channels) == {board} \X ToSet(channels)

--------------------------------------------------------------------------------
(* Failures.  The executor wraps whatever a step raised in a WorkflowError *)
(* (Executor, _run_step); a builder's exception arrives as it is.          *)

Wrapped(cause) == "workflow"

\* _is_hard_fault: the classes that park at once.
IsHardFault(exc) == exc \in {"safety", "notarmed", "plan"}

\* Mutant: the whole round is closed as one well.
NoteTrialFailureOnce ==
  /\ Advance(1, failures + 1)
  /\ batch' = <<>>
  /\ IF failures + 1 >= FailureLimit
     THEN Park("streak") /\ Goto("leaving")
     ELSE Goto("gate") /\ UNCHANGED <<st, outcome>>

\* _note_trial_failure: count once, close and checkpoint every well of the round,
\* park last.
NoteTrialFailure ==
  /\ Advance(Len(batch), failures + 1)
  /\ batch' = <<>>
  /\ IF failures + 1 >= FailureLimit
     THEN Park("streak") /\ Goto("leaving")
     ELSE Goto("gate") /\ UNCHANGED <<st, outcome>>

HandleFailure(exc) ==
  \/ IsHardFault(exc) /\ Park("fault") /\ Goto("leaving") /\ UNCHANGED <<counts, batch>>
  \/ ~IsHardFault(exc) /\ NoteTrialFailure

--------------------------------------------------------------------------------
(* The top of a cycle.                                                     *)

Run ==
  /\ at = "idle"
  /\ SetState("SUGGESTING") /\ Goto("gate")
  /\ UNCHANGED <<counts, controls, outcome, trial, plates, round, wells>>

\* Mutant: a pause the trial did not take is forgotten between cycles.
PauseForgotten ==
  /\ at = "gate"
  /\ Goto("cycle")
  /\ UNCHANGED <<st, counts, controls, outcome, trial, plates, round, wells>>

\* _pause_gate.
PauseGate ==
  /\ at = "gate"
  /\ IF pauseReq /\ ~abortReq /\ st \notin Terminal
     THEN paused' = TRUE /\ Goto("held")
     ELSE paused' = (paused \/ pauseReq) /\ Goto("cycle")
  /\ UNCHANGED <<st, counts, pauseReq, abortReq, approved, stopWait, outcome, trial,
                 plates, round, wells>>

\* Mutant: only Resume wakes a loop that holds.
ReleasedByResume ==
  /\ at = "held" /\ ~pauseReq
  /\ Goto("cycle")
  /\ UNCHANGED <<st, counts, controls, outcome, trial, plates, round, wells>>

Released ==
  /\ at = "held" /\ (~pauseReq \/ abortReq)
  /\ Goto("cycle")
  /\ UNCHANGED <<st, counts, controls, outcome, trial, plates, round, wells>>

\* swap_board: the allocator moves first, and the operator is asked.
SwapBoard ==
  /\ board < LastBoard
  /\ board' = board + 1 /\ free' = Electrode
  /\ SetState("AWAITING_BOARD") /\ Goto("board")

\* Abort, then the budget, then a full plate.
Cycle ==
  /\ at = "cycle"
  /\ IF abortReq \/ iter >= MaxIterations
     THEN Goto("leaving") /\ UNCHANGED <<st, board, free>>
     ELSE IF free = {} THEN SwapBoard
     ELSE Goto("suggest") /\ UNCHANGED <<st, board, free>>
  /\ UNCHANGED <<counts, controls, outcome, trial, installed, pointer, stale, round, wells>>

--------------------------------------------------------------------------------
(* The plate exchange.                                                     *)

\* CANCEL: the operator declines, or there is no handler.
BoardCancelled ==
  /\ at = "board"
  /\ SetState("STOPPED") /\ Goto("leaving")
  /\ UNCHANGED <<counts, controls, outcome, trial, plates, round, wells>>

BoardTimesOut ==
  /\ at = "board" /\ GateTimeouts
  /\ Park("gate") /\ Goto("leaving")
  /\ UNCHANGED <<counts, controls, trial, plates, round, wells>>

\* set_active_board: a failure is logged and swallowed.
PersistBoard ==
  \/ pointer' = board /\ stale' = FALSE
  \/ StoreFails /\ stale' = TRUE /\ UNCHANGED pointer

\* PROCEED: the plate is in, its number is persisted if the store takes it, the chamber
\* equilibrates in a workflow of its own.
BoardInstalled ==
  /\ at = "board"
  /\ installed' = board /\ PersistBoard
  /\ SetState("EXECUTING") /\ Goto("equilibrate")
  /\ Workflow!Begin
  /\ UNCHANGED <<counts, controls, outcome, board, free, round, wells>>

\* Whatever became of the equilibration, an abort included, the round goes on.
EquilibrationOver ==
  /\ at = "equilibrate" /\ Workflow!Return
  /\ Goto("suggest")
  /\ UNCHANGED <<st, counts, controls, outcome, plates, round, wells>>

--------------------------------------------------------------------------------
(* Suggest, approve, place.                                                *)

\* _round_q and the plate: what the budget leaves, and what still fits.
RoundSize == Min({BatchSize, MaxIterations - iter, Cardinality(free)})

\* The optimizer may be exhausted, or short of a batch.
Suggest(n) ==
  /\ at = "suggest" /\ n \in 0..RoundSize
  /\ ask' = n
  /\ approved' = (approved /\ (n = 0 \/ AutoApprove))
  /\ IF n = 0 THEN SetState("SUGGESTING") /\ Goto("leaving")
     ELSE IF AutoApprove THEN SetState("SUGGESTING") /\ Goto("place")
     ELSE SetState("AWAITING_APPROVAL") /\ Goto("approval")
  /\ UNCHANGED <<counts, pauseReq, paused, abortReq, stopWait, outcome, trial, plates,
                 batch, due, conv, spent, wells>>

\* Mutant: a released gate is an approved gate.
GateOpensBlindly ==
  /\ at = "approval" /\ approved
  /\ Goto("place")
  /\ UNCHANGED <<st, counts, controls, outcome, trial, plates, round, wells>>

\* _await_gate: an abort opens the gate without approving, and a decline stops first.
GateOpens ==
  /\ at = "approval" /\ approved
  /\ Goto(IF abortReq \/ st = "STOPPED" THEN "leaving" ELSE "place")
  /\ UNCHANGED <<st, counts, controls, outcome, trial, plates, round, wells>>

GateTimesOut ==
  /\ at = "approval" /\ ~approved /\ GateTimeouts
  /\ Park("gate") /\ Goto("leaving")
  /\ UNCHANGED <<counts, controls, trial, plates, round, wells>>

\* The first n electrodes of a plate that are in S, in order.
FirstIn(S, n, s) ==
  /\ \A j, k \in 1..n : j < k => s[j] < s[k]
  /\ \A e \in S \ ToSet(s), k \in 1..n : s[k] < e

\* The next n electrodes of the plate in order, the occupied ones skipped.
NextElectrodes(n) == CHOOSE s \in [1..n -> free] : FirstIn(free, n, s)

\* Mutant: the cursor moves on by the wells granted, and not past those it skipped.
AllocateUnskipped(n) ==
  /\ batch' = NextElectrodes(n)
  /\ free' = {e \in free : e > n}

Allocate(n) ==
  /\ batch' = NextElectrodes(n)
  /\ free' = free \ ToSet(batch')

\* The wells are spent before the workflow is built: a builder that raises has
\* used them.
Place ==
  /\ at = "place"
  /\ Allocate(ask) /\ spent' = spent + ask
  /\ SetState("EXECUTING") /\ Goto("build")
  /\ UNCHANGED <<counts, controls, outcome, trial, board, installed, pointer, stale, ask,
                 due, conv, wells>>

BuildFails(exc) ==
  /\ at = "build"
  /\ HandleFailure(exc)
  /\ UNCHANGED <<controls, trial, plates, ask, due, conv, spent, wells>>

\* executor.abort() on an executor that does not run yet changes nothing.
StartTrial ==
  /\ at = "build"
  /\ Goto("trial") /\ Workflow!Begin
  /\ UNCHANGED <<st, counts, controls, outcome, plates, round, wells>>

--------------------------------------------------------------------------------
(* The trial, as its executor's callbacks show it to the loop.             *)

\* The equilibration of a plate is a workflow of one step.
StartStep(s) ==
  /\ Workflow!StartStep(s)
  /\ at = "equilibrate" => s \in Others
  /\ s \in Casts => s.ch \in ToSet(batch)
  /\ wet' = IF s \in Casts THEN wet \cup {<<board, s.ch>>} ELSE wet
  /\ UNCHANGED <<st, at, counts, controls, outcome, plates, round, rows,
                 lost>>

\* _record_cast of each well of S: it never raises, so the row may be missing.
Write(S) ==
  /\ \E kept \in SUBSET S : (StoreFails \/ kept = S) /\ rows' = rows \cup kept
  /\ lost' = (lost \cup S) \ rows'

\* Mutant: only a completed deposit is written down.
RecordIfConfirmed(s, done) ==
  IF s \in Casts /\ done THEN Write({<<board, s.ch>>}) ELSE UNCHANGED <<rows, lost>>

\* on_cast: the occupancy row is written when the deposit ends, well or badly.  A repeat
\* tries again for a row that was refused only if it is the first to be confirmed.
RecordCast(s, done) ==
  IF s \in Casts /\ (<<board, s.ch>> \notin lost \/ done)
  THEN Write({<<board, s.ch>>})
  ELSE UNCHANGED <<rows, lost>>

\* _hold_executor_if_quiescent: at a step's end, if the pose allows it.
HoldIfQuiescent ==
  \/ /\ pauseReq /\ ~paused
     /\ paused' = TRUE /\ ex' = IF ex = "running" THEN "paused" ELSE ex
  \/ UNCHANGED <<paused, ex>>

EndStep ==
  /\ at = "trial" /\ HoldIfQuiescent /\ Workflow!EndStep
  /\ RecordCast(doing, TRUE)
  /\ UNCHANGED <<st, at, counts, pauseReq, abortReq, approved, stopWait, outcome, plates,
                 round, wet>>

\* The step failed and the executor replays or skips its channel.
LoseStep ==
  /\ at = "trial" /\ UNCHANGED ex /\ Workflow!EndStep
  /\ RecordCast(doing, FALSE)
  /\ UNCHANGED <<st, at, counts, controls, outcome, plates, round, wet>>

\* The last step ends, or the last channel is skipped.
LastStepEnds ==
  /\ Workflow!Finish
  /\ RecordCast(doing, TRUE)
  /\ paused' \in {paused, pauseReq}
  /\ UNCHANGED <<st, at, counts, pauseReq, abortReq, approved, stopWait, outcome, plates,
                 round, wet>>

StepRaises(cause) ==
  /\ cause \in StepFaults /\ Workflow!Raise(cause)
  /\ RecordCast(doing, FALSE)
  /\ UNCHANGED <<st, at, counts, controls, outcome, plates, round, wet>>

AbortSeen ==
  /\ Workflow!SeeAbort
  /\ UNCHANGED <<st, at, counts, controls, outcome, plates, round, wells>>

TrialReturns ==
  /\ at = "trial" /\ ending = "results"
  /\ Goto("settle")
  /\ Workflow!Return
  /\ UNCHANGED <<st, counts, controls, outcome, plates, round, wells>>

TrialAborted ==
  /\ at = "trial" /\ ending = "aborted"
  /\ SetState("STOPPED") /\ Goto("leaving")
  /\ Workflow!Return
  /\ UNCHANGED <<counts, controls, outcome, plates, round, wells>>

TrialRaises ==
  /\ at = "trial" /\ ending \in StepFaults
  /\ HandleFailure(Wrapped(ending))
  /\ Workflow!Return
  /\ UNCHANGED <<controls, plates, ask, due, conv, spent, wells>>

--------------------------------------------------------------------------------
(* Settle and close.                                                       *)

\* on_trial_measured has returned; wells no deposit step named are recorded now.  Those
\* whose row was refused are not asked for again.
Settled ==
  /\ at = "settle"
  /\ Write(WellsOf(batch) \ (rows \cup lost))
  /\ SetState("ANALYZING") /\ Goto("closing")
  /\ UNCHANGED <<counts, controls, outcome, trial, plates, round, wet>>

\* Mutant: the checkpoint is written before the failure is counted.
CloseCountingLate(failed) ==
  /\ iter' = iter + 1 /\ failures' = IF failed THEN failures + 1 ELSE 0
  /\ ckpt' = [kept |-> TRUE, iter |-> iter + 1, failures |-> IF failed THEN failures ELSE 0]

\* _close_well's book-keeping: a told or measured-untold well resets the streak.
CloseCounting(failed) == Advance(1, IF failed THEN failures + 1 ELSE 0)

\* One well of _close_round.  Only a told well is asked for convergence.
CloseWell(how) ==
  /\ at = "closing" /\ batch # <<>>
  /\ how \in {"told", "converged", "untold", "failed"}
  /\ CloseCounting(how = "failed")
  /\ due' = (due \/ (how = "failed" /\ failures + 1 >= FailureLimit))
  /\ conv' = (conv \/ how = "converged")
  /\ batch' = Tail(batch)
  /\ UNCHANGED <<st, at, controls, outcome, trial, plates, ask, spent, wells>>

\* Only then the round acts, and a park outranks a convergence.
RoundClosed ==
  /\ at = "closing" /\ batch = <<>>
  /\ due' = FALSE /\ conv' = FALSE
  /\ \/ due /\ Park("streak") /\ Goto("leaving")
     \/ ~due /\ conv /\ SetState("CONVERGED") /\ Goto("leaving") /\ UNCHANGED outcome
     \/ ~due /\ ~conv /\ Goto("gate") /\ UNCHANGED <<st, outcome>>
  /\ UNCHANGED <<counts, controls, trial, plates, ask, batch, spent, wells>>

--------------------------------------------------------------------------------
(* The end of the run.                                                     *)

\* Mutant: a loop that has stopped is not parked.
ParkIfAbortedMidway ==
  IF abortReq /\ reason = "none" /\ st \notin Terminal
  THEN stopWait' = FALSE /\ Park("abort")
  ELSE SetState("STOPPED") /\ UNCHANGED <<stopWait, outcome>>

\* The park half of Abort: the hold flags are released first.
ParkIfAborted ==
  IF abortReq /\ reason = "none"
  THEN stopWait' = FALSE /\ Park("abort")
  ELSE SetState("STOPPED") /\ UNCHANGED <<stopWait, outcome>>

\* run() returns, and run_autonomous_campaign drops the resume point of a campaign
\* that ended on purpose.
Leave ==
  /\ at = "leaving"
  /\ ParkIfAborted /\ Goto("ended")
  /\ ckpt' = [ckpt EXCEPT !.kept = @ /\ reason' # "none"]
  /\ UNCHANGED <<iter, failures, pauseReq, paused, abortReq, approved, trial, plates,
                 round, wells>>

--------------------------------------------------------------------------------
(* The operator, from other tasks.                                         *)

\* Where a control can land: at an await of a loop that runs.
Reachable == at \in Awaits \ (Exchange \ ExchangeControls)

Pause ==
  /\ Reachable /\ ~abortReq /\ st \notin Terminal /\ ~pauseReq
  /\ pauseReq' = TRUE /\ paused' = FALSE
  /\ UNCHANGED <<st, at, counts, abortReq, approved, stopWait, outcome, trial, plates,
                 round, wells>>

Resume ==
  /\ Reachable /\ pauseReq
  /\ pauseReq' = FALSE /\ paused' = FALSE
  /\ Workflow!Resume
  /\ UNCHANGED <<st, at, counts, abortReq, approved, stopWait, outcome, plates, round,
                 wells>>

Abort ==
  /\ Reachable /\ ~abortReq /\ st \notin Terminal
  /\ abortReq' = TRUE /\ stopWait' = TRUE /\ approved' = TRUE
  /\ Workflow!Abort
  /\ UNCHANGED <<st, at, counts, pauseReq, paused, outcome, plates, round, wells>>

Approve ==
  /\ at = "approval" /\ st = "AWAITING_APPROVAL"
  /\ approved' = TRUE
  /\ UNCHANGED <<st, at, counts, pauseReq, paused, abortReq, stopWait, outcome, trial,
                 plates, round, wells>>

\* A declined trial: stop(), and the gate released so that run() sees it.
Decline ==
  /\ at = "approval" /\ st = "AWAITING_APPROVAL"
  /\ SetState("STOPPED") /\ approved' = TRUE
  /\ UNCHANGED <<at, counts, pauseReq, paused, abortReq, stopWait, outcome, trial, plates,
                 round, wells>>

--------------------------------------------------------------------------------

\* The steps the program takes by itself.
Proceed ==
  \/ Run \/ PauseGate \/ Released \/ Cycle
  \/ BoardTimesOut \/ EquilibrationOver
  \/ \E n \in 0..BatchSize : Suggest(n)
  \/ GateOpens \/ GateTimesOut \/ Place \/ StartTrial
  \/ \E exc \in {"plan", "other"} : BuildFails(exc)
  \/ \E s \in Casts \cup Others : StartStep(s)
  \/ EndStep \/ LoseStep \/ LastStepEnds \/ AbortSeen
  \/ \E cause \in StepFaults : StepRaises(cause)
  \/ TrialReturns \/ TrialAborted \/ TrialRaises
  \/ Settled \/ RoundClosed \/ Leave
  \/ \E how \in {"told", "converged", "untold", "failed"} : CloseWell(how)

Operate ==
  \/ Pause \/ Resume \/ Abort \/ Approve \/ Decline
  \/ BoardCancelled \/ BoardInstalled

Next == Proceed \/ Operate

Spec == Init /\ [][Next]_vars

\* The event loop runs the task, a bounded gate times out, and a workflow is finite:
\* it gets to its last step.  The operator is never obliged to do anything.
Fairness == WF_vars(Proceed) /\ SF_vars(LastStepEnds)

FairSpec == Spec /\ Fairness

--------------------------------------------------------------------------------
(* The wells of the campaign, in hand and given up (WellLife.tla).         *)

Hand == WellsOf(batch)

Gone == {w \in Well : w[1] < board \/ (w[1] = board /\ w[2] \notin free \cup ToSet(batch))}

Life == INSTANCE WellLife WITH Used <- {1} \X Occupied, hand <- Hand, gone <- Gone

--------------------------------------------------------------------------------
(* Properties.                                                             *)

\* Every well lives once: a round takes wells that no earlier round and no earlier session
\* had, material goes only onto wells in hand, and before they are given up, or another is
\* cast, the store was asked for their row, over plates, failed rounds and refused writes
\* (electrode_allocator.py, "Drop-cast wells are single-use"; _record_cast, _on_cast).
OneLife == Life!Spec

\* Every electrode the allocator granted is either closed, and so in the iteration
\* count and the checkpoint, or in the round in hand: none is lost in between and none
\* is counted twice, whatever failed; and the operator's budget is never exceeded
\* (_advance_iteration, _close_round, _round_q).
WellsKept == spent = iter + Len(batch) /\ spent <= MaxIterations

\* What a next session starts from: current_board_id.
CurrentBoard == Max({pointer} \cup {w[1] : w \in rows})

\* A well that may hold material has an occupancy row or was refused one, the well being cast
\* excepted; material goes only onto the plate in the rig; and a next session starts from
\* that plate, unless its number was refused and so was every row on it: wherever the run
\* stops, the wells a later session can cast onto twice are those the store refused
\* (D5, _exchange_board, _record_cast).
PlateRecorded ==
  /\ \A w \in wet \ (rows \cup lost) : w = <<board, doing.ch>>
  /\ doing \in Casts => board = installed
  /\ CurrentBoard # installed => stale /\ \A w \in rows : w[1] # installed

\* While the loop says that it holds, no step is in flight (pause, rig_pose).
PausedIsQuiet == (pauseReq /\ paused /\ ~abortReq) => doing = Nothing

\* An aborted campaign ends parked, and no campaign parks twice.
ParkedOnce == parks <= 1 /\ (at = "ended" /\ abortReq => parks = 1)

\* The checkpoint carries the streak with the failure that is being counted in it,
\* and a parked campaign that closed a well still has it.
ResumePoint ==
  /\ ckpt.kept => ckpt.iter = iter /\ ckpt.failures = failures
  /\ at = "ended" /\ parks > 0 /\ iter > 0 => ckpt.kept

\* Once the campaign is aborted, declined, parked or converged, no workflow starts.
NoWorkflowAfterEnd ==
  [][(abortReq \/ st \in Terminal) => ~(ex = "none" /\ ex' = "running")]_vars

\* How far the task is on its way from a round's wells to the next round's.
Stage ==
  [idle |-> 0, build |-> 1, trial |-> 2, settle |-> 3, closing |-> 4, gate |-> 5, held |-> 6,
   cycle |-> 7, board |-> 8, equilibrate |-> 9, suggest |-> 10, approval |-> 11, place |-> 12,
   leaving |-> 13, ended |-> 14][at]

Onward ==
  \/ spent' > spent
  \/ spent' = spent /\ Stage' > Stage
  \/ spent' = spent /\ at = "closing" /\ at' = at /\ Len(batch') < Len(batch)

\* The loop comes round only by spending wells of the budget: between two placements it goes
\* one way, over every gate, exchange and failure, so a campaign has finitely many turns
\* (run, "max_iterations"; a round of no suggestions ends it).
RoundsOnward == [][Onward]_<<at, batch>>

\* An aborted campaign ends, whatever it was waiting for.
AbortEnds == abortReq ~> at = "ended"

\* A pause pressed during a trial takes effect at the latest at the top of the next
\* cycle, unless the trial itself parks the campaign or ends it converged (pause).
Holding == at = "held" \/ ex = "paused"
PauseLands ==
  pauseReq /\ at = "trial"
    ~> Holding \/ ~pauseReq \/ abortReq \/ parks > 0 \/ st = "CONVERGED"
================================================================================
