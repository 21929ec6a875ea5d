---------------------------- MODULE CampaignLifecycle ----------------------------
(***************************************************************************)
(* A campaign over several launches of `softae-campaign run` and `resume`  *)
(* (tools/campaign.py): what a killed, interrupted, crashed, parked or     *)
(* finished session leaves in the data store and on the rig, and what the  *)
(* next one makes of it.  The session is _cmd_run and the                  *)
(* run_autonomous_campaign inside it; core/shutdown.py is its signal       *)
(* handler and its recovery; core/data_store.py is what survives.  The     *)
(* loop's rounds are those of CampaignLoop with the operator's controls    *)
(* left out.  The answers of a hosting window's handlers (a fresh plate, a *)
(* cancel, an exchange) are included; the command line passes no handler,  *)
(* which leaves the other alternatives.  at names the place in the code; a *)
(* signal or an exception leaves a place along Unwind, a kill leaves it    *)
(* for "off".                                                              *)
(***************************************************************************)
EXTENDS Naturals, Sequences, FiniteSets, FiniteSetsExt

CONSTANTS
  Budget,         \* wells of the whole campaign
  BatchSize,      \* wells of a round
  Capacity,       \* electrodes of a plate
  FailureLimit,   \* park_after_failed_trials
  ParkLeaves,     \* what a park of a connected rig may leave: FALSE, all is off
  EventsRaise,    \* TRUE: on_event may raise, and take the loop's park with it
  PlateChanged,   \* TRUE: nobody relaunches onto a full plate without changing it
  LastPlate,      \* bound: plates at hand
  MaxSessions,    \* bound: runs started
  MaxFaults       \* bound: kills, signals, exceptions and refused writes

ASSUME SizesAssumption ==
  /\ Budget \in Nat /\ BatchSize \in Nat \ {0} /\ Capacity \in Nat \ {0}
  /\ FailureLimit \in Nat \ {0} /\ LastPlate \in Nat \ {0}
  /\ MaxSessions \in Nat /\ MaxFaults \in Nat
ASSUME ChoicesAssumption ==
  /\ ParkLeaves \subseteq BOOLEAN /\ PlateChanged \in BOOLEAN /\ EventsRaise \in BOOLEAN

VARIABLES
  runs,        \* the run rows, by session: their status
  ckpt,        \* the checkpoint row; kept = FALSE: there is none
  occ,         \* the occupancy rows: board number and electrode
  pointer,     \* the active board
  plate,       \* the plate in the rig
  drops,       \* on each well of each plate: the trials that cast onto it
  hot,         \* the rig is driven by a trial, or was given up on in one
  connected,   \* the instruments' sessions are open
  at,          \* where the process is; "off": there is none
  armed,       \* the signal handlers are installed
  claimed,     \* the ParkGuard's one park is taken
  owed,        \* the unfinished rows this launch found
  resume,      \* --resume
  exc,         \* an exception is on its way out
  iter, streak,        \* the loop's _iteration and _consecutive_failures
  board, free,         \* the allocator
  todo, casting, left, \* the round: wells to cast, the one being cast or 0, wells to close
  due,         \* the round closes with a park
  loopParked,  \* loop_parked
  status,      \* how the loop ended; "none" while it has not
  finalized,   \* run_finalized
  told,        \* an alert was recorded since the rig was last driven
  unrecorded,  \* wells whose deposit was cut short with no row yet, or whose row was refused
  inRow,       \* wells failed in a row with nobody told, over all sessions
  cut,         \* a session ended between the last failure allowed and its report
  faults       \* kills, signals, exceptions and refused writes so far

store   == <<runs, ckpt, occ, pointer>>
rig     == <<plate, drops, hot, connected>>
session == <<armed, claimed, owed, resume, exc>>
round   == <<todo, casting, left, due>>
loop    == <<iter, streak, board, free, round>>
ending  == <<loopParked, status, finalized>>
history == <<told, unrecorded, inRow, cut, faults>>
vars == <<store, rig, at, session, loop, ending, history>>

Electrode == 1..Capacity
Well == (1..LastPlate) \X Electrode
Closed == {"stopped", "converged", "error", "interrupted"}

\* The places of run_autonomous_campaign, and of its caller before and after it.
Running == {"resuming", "boarding", "round", "fitted", "trial", "closing", "failing",
            "advancing", "parking", "announcing", "finalizing", "clearing"}
Before  == {"connecting", "alerting", "marking", "recovering", "starting"}
Raised  == {"raised", "reporting", "failed", "teardown", "unwinding", "disconnecting"}
Places  == {"off"} \cup Before \cup Running \cup Raised

StoreOK ==
  /\ runs \in Seq({"running"} \cup Closed)
  /\ ckpt \in [kept : BOOLEAN, iter : Nat, streak : Nat, run : Nat]
  /\ occ \in SUBSET (Nat \X Electrode) /\ pointer \in Nat
RigOK ==
  /\ plate \in 1..LastPlate /\ drops \in [Well -> Nat]
  /\ hot \in BOOLEAN /\ connected \in BOOLEAN
SessionOK ==
  /\ armed \in BOOLEAN /\ claimed \in BOOLEAN /\ owed \in SUBSET Nat
  /\ resume \in BOOLEAN /\ exc \in BOOLEAN
LoopOK ==
  /\ iter \in Nat /\ streak \in Nat /\ board \in Nat /\ free \in SUBSET Electrode
  /\ todo \in SUBSET Electrode /\ casting \in Electrode \cup {0} /\ left \in Nat
  /\ due \in BOOLEAN
EndingOK ==
  /\ loopParked \in BOOLEAN /\ finalized \in BOOLEAN
  /\ status \in {"none", "stopped", "converged"}
HistoryOK ==
  /\ told \in BOOLEAN /\ unrecorded \in SUBSET Well /\ inRow \in Nat /\ cut \in BOOLEAN
  /\ faults \in Nat
TypeOK ==
  at \in Places /\ StoreOK /\ RigOK /\ SessionOK /\ LoopOK /\ EndingOK /\ HistoryOK

Init ==
  /\ runs = <<>> /\ ckpt = [kept |-> FALSE, iter |-> 0, streak |-> 0, run |-> 0]
  /\ occ = {} /\ pointer = 0
  /\ plate = 1 /\ drops = [w \in Well |-> 0] /\ hot = FALSE /\ connected = FALSE
  /\ at = "off"
  /\ armed = FALSE /\ claimed = FALSE /\ owed = {} /\ resume = FALSE /\ exc = FALSE
  /\ iter = 0 /\ streak = 0 /\ board = 0 /\ free = {}
  /\ todo = {} /\ casting = 0 /\ left = 0 /\ due = FALSE
  /\ loopParked = FALSE /\ status = "none" /\ finalized = FALSE
  /\ told = FALSE /\ unrecorded = {} /\ inRow = 0 /\ cut = FALSE /\ faults = 0

--------------------------------------------------------------------------------
(* Helpers.                                                                *)

Goto(place) == at' = place

\* unfinished_runs: rows never closed, whose owner is gone.
Unfinished == {i \in DOMAIN runs : runs[i] = "running"}

\* safe_park skips what is not connected.
SafePark == IF connected THEN hot' \in {hot /\ on : on \in ParkLeaves} ELSE UNCHANGED hot

\* _finalize_run: once, and never over an earlier status.
Finalize(s) ==
  /\ finalized' = TRUE
  /\ runs' = IF finalized THEN runs ELSE [runs EXCEPT ![Len(runs)] = s]

CurrentBoard == Max({pointer} \cup {w[1] : w \in occ})

\* Mutant: any row that was closed counts as a stop somebody was told about.
AcknowledgedIfClosed == runs[ckpt.run] # "running"

\* _previous_exit_was_acknowledged, of the run that wrote the checkpoint.
Acknowledged == runs[ckpt.run] \in {"stopped", "converged"}

Fresh(p) == \A e \in Electrode : drops[<<p, e>>] = 0

--------------------------------------------------------------------------------
(* Between the launches.                                                   *)

\* Somebody changes a used plate.
ReplacePlate ==
  /\ at = "off" /\ ~Fresh(plate) /\ plate < LastPlate
  /\ plate' = plate + 1
  /\ UNCHANGED <<store, drops, hot, connected, at, session, loop, ending, history>>

\* _cmd_run up to connect_all: the rig is claimed (RunLock), unfinished rows are read,
\* the handlers installed.  Without --resume the search starts over.
Launch(r) ==
  /\ at = "off" /\ Len(runs) < MaxSessions
  /\ Goto("connecting")
  /\ armed' = TRUE /\ claimed' = FALSE /\ owed' = Unfinished /\ resume' = r /\ exc' = FALSE
  /\ loopParked' = FALSE /\ status' = "none" /\ finalized' = FALSE
  /\ inRow' = (IF r THEN inRow ELSE 0) /\ cut' = (r /\ cut)
  /\ UNCHANGED <<store, rig, loop, told, unrecorded, faults>>

--------------------------------------------------------------------------------
(* Connecting, and recovery from a session that did not unwind.            *)

ConnectAll ==
  /\ at = "connecting"
  /\ connected' = TRUE
  /\ Goto(IF owed = {} THEN "starting" ELSE "alerting")
  /\ UNCHANGED <<store, plate, drops, hot, session, loop, ending, history>>

\* record_unclean_shutdown: the alert first, for it is what outlives the session.
RecordAlert ==
  /\ at = "alerting"
  /\ told' = TRUE
  /\ Goto("marking")
  /\ UNCHANGED <<store, rig, session, loop, ending, unrecorded, inRow, cut, faults>>

MarkInterrupted ==
  /\ at = "marking"
  /\ runs' = [i \in DOMAIN runs |-> IF i \in owed THEN "interrupted" ELSE runs[i]]
  /\ Goto("recovering")
  /\ UNCHANGED <<ckpt, occ, pointer, rig, session, loop, ending, history>>

\* Mutant: the recovery park takes the session's one park.
RecoveryParkGuarded ==
  /\ at = "recovering"
  /\ SafePark /\ claimed' = TRUE
  /\ Goto("starting")
  /\ UNCHANGED <<store, plate, drops, connected, armed, owed, resume, exc, loop, ending,
                 history>>

\* Not through the guard: the session about to start keeps its own park.
RecoveryPark ==
  /\ at = "recovering"
  /\ SafePark
  /\ Goto("starting")
  /\ UNCHANGED <<store, plate, drops, connected, session, loop, ending, history>>

--------------------------------------------------------------------------------
(* The start of a run.                                                     *)

StartRun ==
  /\ at = "starting"
  /\ runs' = Append(runs, "running")
  /\ Goto("resuming")
  /\ UNCHANGED <<ckpt, occ, pointer, rig, session, loop, ending, history>>

\* load_resume_plan, and the streak: cleared only if somebody was told of the stop.
LoadResumePlan ==
  /\ at = "resuming"
  /\ IF resume /\ ckpt.kept
     THEN iter' = ckpt.iter /\ streak' = (IF Acknowledged THEN 0 ELSE ckpt.streak)
     ELSE iter' = 0 /\ streak' = 0
  /\ todo' = {} /\ casting' = 0 /\ left' = 0 /\ due' = FALSE
  /\ Goto("boarding")
  /\ UNCHANGED <<store, rig, session, board, free, ending, history>>

UsedHere == {e \in Electrode : <<CurrentBoard, e>> \in occ}

OnBoard(b, used) == board' = b /\ free' = Electrode \ used

\* _prepare_electrode_allocator.  An unused board is not asked about.
SameBoard ==
  /\ UsedHere # Electrode
  /\ OnBoard(CurrentBoard, UsedHere) /\ UNCHANGED pointer

\* FRESH from an operator who looked, or a full board, which is taken for changed.
NewBoard ==
  /\ UsedHere # {}
  /\ UsedHere # Electrode \/ PlateChanged => Fresh(plate)
  /\ OnBoard(CurrentBoard + 1, {}) /\ pointer' = CurrentBoard + 1

PrepareAllocator ==
  /\ at = "boarding"
  /\ SameBoard \/ NewBoard
  /\ Goto("round")
  /\ UNCHANGED <<runs, ckpt, occ, rig, session, iter, streak, round, ending, history>>

\* CANCEL: run_autonomous_campaign returns, and its finally closes the row.
BoardCheckCancelled ==
  /\ at = "boarding" /\ UsedHere # {}
  /\ Goto("teardown")
  /\ UNCHANGED <<store, rig, session, loop, ending, history>>

--------------------------------------------------------------------------------
(* The rounds.                                                             *)

\* The budget is met, the optimizer is exhausted, or the history has converged.
LoopEnds(s) ==
  /\ at = "round"
  /\ s = "stopped" \/ (s = "converged" /\ 0 < iter)
  /\ status' = s /\ Goto("finalizing")
  /\ UNCHANGED <<store, rig, session, loop, loopParked, finalized, history>>

\* A full plate: the operator declines as LoopEnds, or fits the next one.
FitPlate ==
  /\ at = "round" /\ iter < Budget /\ free = {} /\ plate < LastPlate
  /\ plate' = plate + 1
  /\ Goto("fitted")
  /\ UNCHANGED <<store, drops, hot, connected, session, loop, ending, history>>

\* A write of the store that fails is logged and swallowed.
StoreRefuses == faults < MaxFaults /\ faults' = faults + 1

\* set_active_board, the moment the operator has answered.
PersistBoard ==
  /\ at = "fitted"
  /\ OnBoard(board + 1, {})
  /\ \/ pointer' = Max({CurrentBoard, board + 1}) /\ UNCHANGED faults
     \/ StoreRefuses /\ UNCHANGED pointer
  /\ Goto("round")
  /\ UNCHANGED <<runs, ckpt, occ, rig, session, iter, streak, round, ending, told,
                 unrecorded, inRow, cut>>

RoundSize == Min({BatchSize, Budget - iter, Cardinality(free)})

\* allocate, then the workflow.
StartTrial ==
  /\ at = "round" /\ iter < Budget /\ free # {}
  /\ todo' \in {s \in SUBSET free :
       /\ Cardinality(s) = RoundSize
       /\ \A e \in s, f \in free \ s : e < f}
  /\ free' = free \ todo' /\ left' = RoundSize
  /\ hot' = TRUE /\ told' = FALSE
  /\ Goto("trial")
  /\ UNCHANGED <<store, plate, drops, connected, session, iter, streak, board, casting,
                 due, ending, unrecorded, inRow, cut, faults>>

BeginCast(e) ==
  /\ at = "trial" /\ casting = 0 /\ e \in todo /\ \A f \in todo : e <= f
  /\ casting' = e /\ todo' = todo \ {e}
  /\ drops' = [drops EXCEPT ![<<plate, e>>] = @ + 1]
  /\ UNCHANGED <<store, plate, hot, connected, at, session, iter, streak, board, free,
                 left, due, ending, history>>

\* Mutant: the wells are written down with the last of the round.
EndCastLate ==
  /\ at = "trial" /\ casting # 0
  /\ occ' = IF todo = {} THEN occ \cup ({board} \X (1..casting)) ELSE occ
  /\ casting' = 0
  /\ UNCHANGED <<runs, ckpt, pointer, rig, at, session, iter, streak, board, free, todo,
                 left, due, ending, history>>

\* The row of a well is written when its own deposit step ends, well or badly, unless the
\* store refuses it; the executor may replay the well's channel, deposit included.
EndCast ==
  /\ at = "trial" /\ casting # 0
  /\ casting' \in {0, casting}
  /\ \/ occ' = occ \cup {<<board, casting>>} /\ UNCHANGED <<unrecorded, faults>>
     \/ /\ <<board, casting>> \notin occ /\ StoreRefuses /\ UNCHANGED occ
        /\ unrecorded' = unrecorded \cup {<<plate, casting>>}
  /\ UNCHANGED <<runs, ckpt, pointer, rig, at, session, iter, streak, board, free, todo,
                 left, due, ending, told, inRow, cut>>

\* The workflow and its teardown are over: with results, with an exception that counts
\* as a failure, or with a hard fault or an abort, after which the loop parks.
TrialOver(place) ==
  /\ at = "trial" /\ casting = 0
  /\ \/ place = "closing" /\ todo = {}
     \/ place \in {"failing", "parking"}
  /\ todo' = {} /\ hot' = (place = "parking")
  /\ loopParked' = (place = "parking")
  /\ Goto(place)
  /\ UNCHANGED <<store, plate, drops, connected, session, iter, streak, board, free,
                 casting, left, due, status, finalized, history>>

\* _advance_iteration and the checkpoint it writes.
Advance ==
  /\ iter' = iter + 1 /\ left' = left - 1
  /\ ckpt' = [kept |-> TRUE, iter |-> iter + 1, streak |-> streak', run |-> Len(runs)]

Count(failed) ==
  /\ streak' = IF failed THEN streak + 1 ELSE 0
  /\ inRow' = IF failed THEN inRow + 1 ELSE 0
  /\ due' = (due \/ (failed /\ streak + 1 >= FailureLimit))

\* A measured round closes its wells one by one.
CloseWell(failed) ==
  /\ at = "closing" /\ left > 0
  /\ Count(failed) /\ Advance
  /\ UNCHANGED <<runs, occ, pointer, rig, at, session, board, free, todo, casting,
                 ending, told, unrecorded, cut, faults>>

\* A failed round counts one failure, and then advances past its other wells.
CloseFailedRound ==
  /\ at = "failing" /\ left > 0
  /\ Count(TRUE) /\ Advance
  /\ Goto("advancing")
  /\ UNCHANGED <<runs, occ, pointer, rig, session, board, free, todo, casting,
                 ending, told, unrecorded, cut, faults>>

AdvancePastRest ==
  /\ at = "advancing" /\ left > 0
  /\ UNCHANGED <<streak, due, inRow>> /\ Advance
  /\ UNCHANGED <<runs, occ, pointer, rig, at, session, board, free, todo, casting,
                 ending, told, unrecorded, cut, faults>>

\* The park comes after every well of the round is in the checkpoint.
RoundClosed ==
  /\ at \in {"closing", "advancing"} /\ left = 0
  /\ Goto(IF due THEN "parking" ELSE "round")
  /\ loopParked' = due /\ hot' = due
  /\ UNCHANGED <<store, plate, drops, connected, session, loop, status, finalized,
                 history>>

--------------------------------------------------------------------------------
(* The end of a run.                                                       *)

\* _on_park, not through the guard; what on_event raises, _park swallows.
LoopPark ==
  /\ at = "parking"
  /\ \E raises \in {FALSE} \cup {EventsRaise} :
       IF raises
       THEN Goto("finalizing") /\ status' = "stopped" /\ UNCHANGED hot
       ELSE Goto("announcing") /\ SafePark /\ UNCHANGED status
  /\ UNCHANGED <<store, plate, drops, connected, session, loop, loopParked, finalized,
                 history>>

AnnouncePark ==
  /\ at = "announcing"
  /\ told' = TRUE /\ inRow' = 0
  /\ status' = "stopped" /\ Goto("finalizing")
  /\ UNCHANGED <<store, rig, session, loop, loopParked, finalized, unrecorded, cut, faults>>

FinalizeRun ==
  /\ at = "finalizing"
  /\ Finalize(status) /\ inRow' = 0
  /\ Goto("clearing")
  /\ UNCHANGED <<ckpt, occ, pointer, rig, session, loop, loopParked, status, told, unrecorded,
                 cut, faults>>

\* The resume point of a campaign that ended on purpose.
ClearCheckpoint ==
  /\ at = "clearing"
  /\ ckpt' = [ckpt EXCEPT !.kept = @ /\ loopParked]
  /\ Goto("teardown")
  /\ UNCHANGED <<runs, occ, pointer, rig, session, loop, ending, history>>

\* The catch-all: a park, unless the loop or the guard had it, and its alert.
CatchAll ==
  /\ at = "raised"
  /\ IF loopParked \/ claimed
     THEN Goto("failed") /\ UNCHANGED <<hot, claimed>>
     ELSE Goto("reporting") /\ SafePark /\ claimed' = TRUE
  /\ UNCHANGED <<store, plate, drops, connected, armed, owed, resume, exc, loop, ending,
                 history>>

ReportPark ==
  /\ at = "reporting"
  /\ told' = TRUE
  /\ Goto("failed")
  /\ UNCHANGED <<store, rig, session, loop, ending, unrecorded, inRow, cut, faults>>

FinalizeFailed ==
  /\ at = "failed"
  /\ Finalize("error")
  /\ Goto("teardown")
  /\ UNCHANGED <<ckpt, occ, pointer, rig, session, loop, loopParked, status, history>>

\* The finally of run_autonomous_campaign; the store and the manager are the caller's.
TearDown ==
  /\ at = "teardown"
  /\ Finalize("error")
  /\ Goto(IF exc THEN "unwinding" ELSE "disconnecting")
  /\ UNCHANGED <<ckpt, occ, pointer, rig, session, loop, loopParked, status, history>>

\* The caller's own except: for what never reached the campaign.
UnwindCaller ==
  /\ at = "unwinding"
  /\ IF claimed THEN UNCHANGED <<hot, claimed>> ELSE SafePark /\ claimed' = TRUE
  /\ Goto("disconnecting")
  /\ UNCHANGED <<store, plate, drops, connected, armed, owed, resume, exc, loop, ending,
                 history>>

\* disconnect_all, the store's close, the rig claim's.
Disconnect ==
  /\ at = "disconnecting"
  /\ connected' = FALSE
  /\ Goto("off")
  /\ UNCHANGED <<store, plate, drops, hot, session, loop, ending, history>>

--------------------------------------------------------------------------------
(* Faults.                                                                 *)

\* Where an exception raised at a place is caught next.  connect_all is outside _go's
\* try: nothing parks and nothing disconnects.
Unwind(place) ==
  CASE place = "connecting"         -> "off"
    [] place \in Before \ {"connecting"} -> "unwinding"
    [] place \in Running           -> "raised"
    [] place \in {"raised", "reporting"} -> "failed"
    [] place = "failed"            -> "teardown"
    [] place = "teardown"          -> "unwinding"
    [] OTHER                       -> "disconnecting"

\* What a session that ends here leaves behind, besides what is stored.
Leaves ==
  /\ faults < MaxFaults /\ faults' = faults + 1
  /\ casting' = 0
  /\ unrecorded' = IF at = "trial" /\ casting # 0 /\ <<board, casting>> \notin occ
                   THEN unrecorded \cup {<<plate, casting>>} ELSE unrecorded
  /\ cut' = (cut \/ (at \in Running \cup Raised /\ inRow >= FailureLimit))

\* The process is killed.  Its claim on the rig is stale, its sessions are gone.
Kill ==
  /\ at # "off" /\ Leaves
  /\ Goto("off") /\ connected' = FALSE
  /\ UNCHANGED <<store, plate, drops, hot, session, iter, streak, board, free, todo, left,
                 due, ending, told, inRow>>

\* The handler parks unless the guard is claimed, uninstalls itself, and raises.
Handler ==
  /\ armed' = FALSE
  /\ IF armed /\ ~claimed
     THEN SafePark /\ claimed' = TRUE
     ELSE UNCHANGED <<hot, claimed>>

\* A signal; the second one finds the default handler.  _finalize_run may have set
\* its flag and not written the row.
Signal ==
  /\ at # "off" /\ Leaves
  /\ Handler
  /\ exc' = TRUE /\ Goto(Unwind(at))
  /\ finalized' \in {finalized, finalized \/ at \in {"finalizing", "failed", "teardown"}}
  /\ UNCHANGED <<store, plate, drops, connected, owed, resume, iter, streak, board, free,
                 todo, left, due, loopParked, status, told, inRow>>

\* An exception nothing here foresaw.
Raise ==
  /\ at \in {"connecting", "starting", "resuming", "boarding", "round", "trial", "closing"}
  /\ casting = 0 /\ Leaves
  /\ exc' = TRUE /\ Goto(Unwind(at))
  /\ UNCHANGED <<store, rig, armed, claimed, owed, resume, iter, streak, board, free,
                 todo, left, due, ending, told, inRow>>

--------------------------------------------------------------------------------

Start ==
  \/ \E r \in BOOLEAN : Launch(r)
  \/ ConnectAll \/ RecordAlert \/ MarkInterrupted \/ RecoveryPark
  \/ StartRun \/ LoadResumePlan \/ PrepareAllocator \/ BoardCheckCancelled

Loop ==
  \/ \E s \in {"stopped", "converged"} : LoopEnds(s)
  \/ FitPlate \/ PersistBoard \/ StartTrial
  \/ \E e \in Electrode : BeginCast(e)
  \/ EndCast
  \/ \E place \in {"closing", "failing", "parking"} : TrialOver(place)
  \/ \E failed \in BOOLEAN : CloseWell(failed)
  \/ CloseFailedRound \/ AdvancePastRest \/ RoundClosed

End ==
  \/ LoopPark \/ AnnouncePark \/ FinalizeRun \/ ClearCheckpoint
  \/ CatchAll \/ ReportPark \/ FinalizeFailed \/ TearDown \/ UnwindCaller \/ Disconnect

Next == ReplacePlate \/ Start \/ Loop \/ End \/ Kill \/ Signal \/ Raise

Spec == Init /\ [][Next]_vars

--------------------------------------------------------------------------------
(* Properties.                                                             *)

\* A rig that is left driven is never forgotten: once its instruments are out of
\* reach, a run row is still open, so that the next launch parks it, or an alert says
\* so - across kills, signals and exceptions at any moment, the recovery's own
\* included (park_on_shutdown, record_unclean_shutdown).
LeftDrivenIsOwed == hot /\ ~connected => Unfinished # {} \/ told

\* No trial casts onto a well that one before it has cast onto, in that session or another,
\* whatever kills it and though the store may not know the plate in the rig: only a well
\* whose first deposit was cut short, or whose own row the store refused, may be cast again
\* (D5, _prepare_electrode_allocator: "never silently re-cast"; _record_cast).
CastOnceEver == \A w \in Well : drops[w] > 1 => w \in unrecorded

\* A fault that fails every well is reported: across restarts, no trial starts after
\* FailureLimit wells failed in a row with nobody told, unless a session was cut short
\* exactly there (_previous_exit_was_acknowledged: "a crash-restart loop").
FaultEscalates == at = "trial" => inRow < FailureLimit \/ cut
================================================================================
