------------------------------ MODULE RigActivity -------------------------------
(***************************************************************************)
(* Who drives the rig inside one window: the claim registry                *)
(* (src/softae/core/rig_activity.py), the runs that claim it through       *)
(* rig_run (src/softae/gui/main_window.py), the anti-clog purge            *)
(* (src/softae/core/purge_runner.py) and manual control.                   *)
(*                                                                         *)
(* The registry blocks nobody.  The purge and manual control ask it first, *)
(* on the window's thread; a run only enters itself, on a thread of its    *)
(* own, and hands the rig back while it is held at a pause.  The pose      *)
(* (head, place) is read from the hardware and moved by all of them.       *)
(***************************************************************************)
EXTENDS Naturals, Sequences, FiniteSets

CONSTANTS
  Runs,      \* the runs this window can start: HT, Sandbox, Arrhenius
  Fluidic,   \* those that drive the syringe and the stage
  WholeRig,  \* those that claim the whole rig (instruments=None)
  Resting,   \* those that leave idle rest and return to it (manage_rest)
  Host,      \* the run whose executor opens purge windows beside its steps
  Lines,     \* the fluid lines the purge schedule watches
  Nobody     \* no actor: the guard refused nobody

ASSUME RunAssumption ==
  /\ Fluidic \subseteq Runs /\ WholeRig \subseteq Runs
  /\ Resting \subseteq Fluidic /\ Host \in Resting \cap WholeRig

ASSUME ActorAssumption ==
  /\ Runs \cap {"purge", "tick", "window", "manual", "fault"} = {}
  /\ Nobody \notin Runs \cup {"tick", "window", "manual", "fault"}

Instruments      == {"syringe", "stage", "eis"}
PurgeInstruments == {"syringe", "stage"}

Drives(r) == IF r \in Fluidic THEN Instruments ELSE {"eis"}

\* workflow_instruments: None widens to every instrument.
Scope(r) == IF r \in WholeRig THEN Instruments ELSE Drives(r)

\* The purge in the timer's tick, on the window's thread, and the one in a window
\* beside a step of the host run.  Both claim under the one name PURGE_OWNER.
Purges == {"tick", "window"}
Owners == Runs \cup {"purge"}
Actors == Runs \cup Purges

VARIABLES
  claims,     \* per owner, its stack of claimed instrument sets
  suspended,  \* the owners that hold their claim without driving
  pc,         \* per run and purge, where it is
  asked,      \* the runs whose executor was told to pause
  head,       \* the dispenser head, as is_head_up reports it
  place,      \* the stage: at the flush basin or elsewhere
  manual,     \* the instruments a manual command in flight drives
  latched,    \* a park reason is outstanding
  due,        \* the lines that are owed a purge
  todo,       \* per purge, the lines it has in hand
  moved,      \* the purges that had to travel to the basin
  actuate,    \* the [purge] actuate setting; FALSE reports and moves nothing
  late,       \* history: who came to the rig after the tick last looked
  mover,      \* history: who lowered the head, or "fault": a call then failed to lift it
  refused     \* history: per run in work whose step was just refused, who had lowered the head

registry == <<claims, suspended>>
pose     == <<head, place, mover>>
schedule == <<due, todo, moved, actuate>>
rigvars  == <<registry, pose, schedule, pc, asked, manual, latched, late, refused>>

Travelling == {"retract", "move", "descend"}
Stepping   == {"lifted", "over", "down", "measure"}
Begun      == {"running", "held"} \cup Stepping

\* The variables keep their types; an owner is suspended only while it has a claim,
\* and only the purges have lines in hand.
RigTypeOK ==
  /\ claims \in [Owners -> Seq(SUBSET Instruments)]
  /\ suspended \subseteq {o \in Owners : claims[o] # <<>>}
  /\ \A r \in Runs : pc[r] \in {"idle", "starting", "claimed", "release"} \cup Begun \cup Travelling
  /\ \A p \in Purges : pc[p] \in {"idle", "looked", "posed", "claimed", "dispense", "back",
                                  "release"} \cup Travelling
  /\ asked \subseteq Runs
  /\ head \in {"up", "down"} /\ place \in {"flush", "elsewhere"}
  /\ manual \subseteq Instruments /\ latched \in BOOLEAN /\ actuate \in BOOLEAN
  /\ due \subseteq Lines /\ todo \in [Purges -> SUBSET Lines] /\ moved \subseteq Purges
  /\ late \subseteq Runs \cup {"manual"}
  /\ \A p \in Purges : pc[p] = "idle" => todo[p] = {} /\ p \notin moved

RigInit ==
  /\ claims = [o \in Owners |-> <<>>] /\ suspended = {}
  /\ pc = [a \in Actors |-> "idle"] /\ asked = {}
  /\ head \in {"up", "down"} /\ place = "flush" /\ mover = Nobody
  /\ manual = {} /\ latched = FALSE
  /\ due = {} /\ todo = [p \in Purges |-> {}] /\ moved = {} /\ actuate \in BOOLEAN
  /\ late = {} /\ refused = [r \in Runs |-> Nobody]

--------------------------------------------------------------------------------
(* The registry.                                                           *)

Acquire(o, scope) ==
  /\ claims' = [claims EXCEPT ![o] = Append(@, scope)]
  /\ UNCHANGED suspended

\* The suspension goes with the last claim.
Release(o) ==
  LET left == SubSeq(claims[o], 1, Len(claims[o]) - 1) IN
  /\ claims' = [claims EXCEPT ![o] = left]
  /\ suspended' = IF left = <<>> THEN suspended \ {o} ELSE suspended

Suspend(o) ==
  /\ suspended' = IF claims[o] = <<>> THEN suspended ELSE suspended \cup {o}
  /\ UNCHANGED claims

Unsuspend(o) ==
  /\ suspended' = suspended \ {o}
  /\ UNCHANGED claims

\* Mutant: a claim wider than what is wanted does not count.
CoversWithin(o, want) == \E i \in DOMAIN claims[o] : claims[o][i] \subseteq want

Covers(o, want) == \E i \in DOMAIN claims[o] : claims[o][i] \cap want # {}

\* conflicts: the owners in the way of whoever wants these instruments.
Conflicts(want) == {o \in Owners \ suspended : Covers(o, want)}

--------------------------------------------------------------------------------
(* Moving the rig.                                                         *)

Goto(a, where) == pc' = [pc EXCEPT ![a] = where]

\* head_retract and head_descend flip the head only when it is not there already.
SetHead(a, h) ==
  /\ head' = h
  /\ mover' = IF h = "up" THEN Nobody ELSE IF head = "up" THEN a ELSE mover
  /\ UNCHANGED place

\* leave_idle_rest: a head that will not go up is logged, and its caller goes on.
RetractHead(a) ==
  \/ SetHead(a, "up")
  \/ head = "down" /\ mover' = "fault" /\ UNCHANGED <<head, place>>

\* enter_idle_rest: retract, travel, lower; the head guard refuses the stage while the
\* head is down, which then is somebody else's doing.
Travel(a, arrived, refusedAt) ==
  \/ pc[a] = "retract" /\ SetHead(a, "up") /\ Goto(a, "move")
  \/ /\ pc[a] = "move" /\ head = "up"
     /\ place' = "flush" /\ UNCHANGED <<head, mover>> /\ Goto(a, "descend")
  \/ /\ pc[a] = "move" /\ head = "down"
     /\ UNCHANGED pose /\ Goto(a, refusedAt)
  \/ pc[a] = "descend" /\ SetHead(a, "down") /\ Goto(a, arrived)

\* A park is read before anything moves.
EnterRest(refusedAt) == IF latched THEN refusedAt ELSE "retract"

--------------------------------------------------------------------------------
(* A run: rig_run around the executor, on the run's own thread.            *)

\* The window's thread is inside a purge until the tick returns: nothing the operator
\* presses meanwhile is seen.
WindowFree == pc["tick"] = "idle"

Comes(who) == late' = IF WindowFree THEN late ELSE late \cup {who}

Start(r) ==
  /\ WindowFree /\ pc[r] = "idle" /\ Goto(r, "starting")
  /\ UNCHANGED <<registry, pose, schedule, asked, manual, latched, late, refused>>

\* rig_run enters the claim and asks nobody.
Claim(r) ==
  /\ pc[r] = "starting" /\ Acquire(r, Scope(r)) /\ Goto(r, "claimed") /\ Comes(r)
  /\ UNCHANGED <<pose, schedule, asked, manual, latched, refused>>

LeaveRest(r) ==
  /\ pc[r] = "claimed" /\ Goto(r, "running")
  /\ IF r \in Resting THEN RetractHead(r) ELSE UNCHANGED pose
  /\ UNCHANGED <<registry, schedule, asked, manual, latched, late, refused>>

\* A step that casts opens with a bare move_to; the guard refuses it over a lowered head.
BeginCast(r) ==
  /\ pc[r] = "running" /\ r \notin asked /\ r \in Fluidic
  /\ IF head = "up"
     THEN /\ place' = "elsewhere" /\ Goto(r, "over")
          /\ refused' = [refused EXCEPT ![r] = Nobody]
     ELSE refused' = [refused EXCEPT ![r] = mover] /\ UNCHANGED <<pc, place>>
  /\ UNCHANGED <<registry, head, mover, schedule, asked, manual, latched, late>>

Lower(r) ==
  /\ pc[r] = "over" /\ SetHead(r, "down") /\ Goto(r, "down")
  /\ UNCHANGED <<registry, schedule, asked, manual, latched, late, refused>>

\* The lines a drop is made of have moved and are no longer owed.
Elute(r, used) ==
  /\ pc[r] = "down" /\ due' = due \ used
  /\ UNCHANGED <<registry, pose, todo, moved, actuate, pc, asked, manual, latched, late, refused>>

Lift(r) ==
  /\ pc[r] = "down" /\ SetHead(r, "up") /\ Goto(r, "running")
  /\ UNCHANGED <<registry, schedule, asked, manual, latched, late, refused>>

\* A step that raises leaves the head where it is; the executor goes on with the next
\* channel, or the run ends.
StepFails(r) ==
  /\ pc[r] \in {"over", "down"} /\ Goto(r, "running")
  /\ mover' = IF pc[r] = "down" THEN "fault" ELSE mover
  /\ UNCHANGED <<registry, head, place, schedule, asked, manual, latched, late, refused>>

\* A measurement: it drives neither head nor stage.
Measure(r) ==
  /\ pc[r] = "running" /\ r \notin asked /\ Goto(r, "measure")
  /\ UNCHANGED <<registry, pose, schedule, asked, manual, latched, late, refused>>

\* The purge window beside the step is joined before the step is over.
Measured(r) ==
  /\ pc[r] = "measure" /\ (r = Host => pc["window"] = "idle") /\ Goto(r, "running")
  /\ UNCHANGED <<registry, pose, schedule, asked, manual, latched, late, refused>>

\* Mutant: the rig is handed back when the pause is asked for.
AskPauseHandingBack(r) ==
  /\ pc[r] \in Begun \ {"held"} /\ r \notin asked
  /\ WindowFree \/ pc[r] = "running"
  /\ asked' = asked \cup {r} /\ Suspend(r)
  /\ UNCHANGED <<pose, schedule, pc, manual, latched, late, refused>>

\* The operator's Pause, or the executor's own at its ceiling: a request, not a hold.
AskPause(r) ==
  /\ pc[r] \in Begun \ {"held"} /\ r \notin asked
  /\ WindowFree \/ pc[r] = "running"
  /\ asked' = asked \cup {r}
  /\ UNCHANGED <<registry, pose, schedule, pc, manual, latched, late, refused>>

\* on_pause_hold(True): the executor has come to rest between two steps.
Hold(r) ==
  /\ pc[r] = "running" /\ r \in asked /\ Suspend(r) /\ Goto(r, "held")
  /\ UNCHANGED <<pose, schedule, asked, manual, latched, late, refused>>

\* The operator's Resume or Abort: the executor sees it when it next looks.
Answer(r) ==
  /\ WindowFree /\ r \in asked /\ asked' = asked \ {r}
  /\ UNCHANGED <<registry, pose, schedule, pc, manual, latched, late, refused>>

\* on_pause_hold(False): answered, or the ceiling's deadline has passed.
Unhold(r) ==
  /\ pc[r] = "held" /\ Unsuspend(r) /\ Goto(r, "running") /\ Comes(r)
  /\ asked' = asked \ {r}
  /\ UNCHANGED <<pose, schedule, manual, latched, refused>>

\* However a run ends, it is brought to rest and then gives the claim back.
End(r) ==
  /\ pc[r] = "running" /\ asked' = asked \ {r}
  /\ Goto(r, IF r \in Resting THEN EnterRest("release") ELSE "release")
  /\ UNCHANGED <<registry, pose, schedule, manual, latched, late, refused>>

Rest(r) ==
  /\ Travel(r, "release", "release")
  /\ UNCHANGED <<registry, schedule, asked, manual, latched, late, refused>>

GiveBack(r) ==
  /\ pc[r] = "release" /\ Release(r) /\ Goto(r, "idle")
  /\ refused' = [refused EXCEPT ![r] = Nobody]
  /\ UNCHANGED <<pose, schedule, asked, manual, latched, late>>

--------------------------------------------------------------------------------
(* A purge: the timer's tick, or the window beside a step of the host.     *)

\* A line has gone unpurged for its interval.
Stagnate(l) ==
  /\ l \notin due /\ due' = due \cup {l}
  /\ UNCHANGED <<registry, pose, todo, moved, actuate, pc, asked, manual, latched, late, refused>>

InBasin == head = "down" /\ place = "flush"

\* Mutant: the claim a purge takes is entered before it asks, and so is in its way.
BlockedByItself(p) == latched \/ p = "tick"

\* The tick asks the registry; a window runs inside its host's claim (owns_rig).
Blocked(p) == latched \/ (p = "tick" /\ Conflicts(PurgeInstruments) # {})

\* One line that is due has them all purged: an idle one would stagnate next.
Look(p) ==
  /\ pc[p] = "idle" /\ due # {} /\ (p = "window" => pc[Host] = "measure")
  /\ ~Blocked(p)
  /\ todo' = [todo EXCEPT ![p] = Lines] /\ Goto(p, "looked")
  /\ late' = IF p = "tick" /\ manual # {} THEN {"manual"} ELSE late
  /\ UNCHANGED <<registry, pose, due, moved, actuate, asked, manual, latched, refused>>

Forget(p) ==
  /\ todo' = [todo EXCEPT ![p] = {}] /\ moved' = moved \ {p}
  /\ late' = IF p = "tick" THEN {} ELSE late

\* Lowered anywhere but in the basin, the head is in a drop: deferred, and still owed.
PoseBlocks == head = "down" /\ ~InBasin

ReadPose(p) ==
  /\ pc[p] = "looked" /\ ~PoseBlocks /\ actuate /\ Goto(p, "posed")
  /\ UNCHANGED <<registry, pose, schedule, asked, manual, latched, late, refused>>

Defer(p) ==
  /\ pc[p] = "looked" /\ PoseBlocks /\ Forget(p) /\ Goto(p, "idle")
  /\ UNCHANGED <<registry, pose, due, actuate, asked, manual, latched, refused>>

\* Switched off, a due purge is reported and its timer is reset.
DryRun(p) ==
  /\ pc[p] = "looked" /\ ~PoseBlocks /\ ~actuate
  /\ due' = {} /\ Forget(p) /\ Goto(p, "idle")
  /\ UNCHANGED <<registry, pose, actuate, asked, manual, latched, refused>>

ClaimPurge(p) ==
  /\ pc[p] = "posed" /\ Acquire("purge", PurgeInstruments) /\ Goto(p, "claimed")
  /\ UNCHANGED <<pose, schedule, asked, manual, latched, late, refused>>

\* The pose is read once more: in the basin it dispenses where it is.
Approach(p) ==
  /\ pc[p] = "claimed"
  /\ IF InBasin THEN Goto(p, "dispense") /\ UNCHANGED moved
     ELSE Goto(p, EnterRest("release")) /\ moved' = moved \cup {p}
  /\ UNCHANGED <<registry, pose, due, todo, actuate, asked, manual, latched, late, refused>>

TravelPurge(p) ==
  /\ Travel(p, "dispense", "release")
  /\ UNCHANGED <<registry, schedule, asked, manual, latched, late, refused>>

\* Mutant: a purge in a window ends at rest as well.
AfterResting(p) == "release"

\* A purge in a window puts the head back up, a tick leaves it in the basin.
After(p) == IF p = "window" /\ p \in moved THEN "back" ELSE "release"

\* Each line's pump answers or does not; only what moved is no longer owed.
Dispense(p, out) ==
  /\ pc[p] = "dispense" /\ out \subseteq todo[p]
  /\ due' = due \ out /\ Goto(p, After(p))
  /\ UNCHANGED <<registry, pose, todo, moved, actuate, asked, manual, latched, late, refused>>

PutBack(p) ==
  /\ pc[p] = "back" /\ RetractHead(p) /\ Goto(p, "release")
  /\ UNCHANGED <<registry, schedule, asked, manual, latched, late, refused>>

EndPurge(p) ==
  /\ pc[p] = "release" /\ Release("purge") /\ Forget(p) /\ Goto(p, "idle")
  /\ UNCHANGED <<pose, due, actuate, asked, manual, latched, refused>>

--------------------------------------------------------------------------------
(* The operator: manual control, and the park latch.                       *)

\* The slot asks the registry and leaves the command to a worker, which claims nothing.
Command(want) ==
  /\ WindowFree /\ manual = {} /\ Conflicts(want) = {} /\ manual' = want
  /\ UNCHANGED <<registry, pose, schedule, pc, asked, latched, late, refused>>

\* The worker moves the stage, which the guard may refuse, or flips the head.
Commanded ==
  /\ manual # {} /\ manual' = {}
  /\ \/ "stage" \in manual /\ head = "up"
        /\ place' \in {"flush", "elsewhere"} /\ UNCHANGED <<head, mover>>
     \/ "syringe" \in manual /\ \E h \in {"up", "down"} : SetHead("manual", h)
     \/ UNCHANGED pose
  /\ UNCHANGED <<registry, schedule, pc, asked, latched, late, refused>>

Park ==
  /\ WindowFree /\ ~latched /\ latched' = TRUE
  /\ UNCHANGED <<registry, pose, schedule, pc, asked, manual, late, refused>>

ClearPark ==
  /\ WindowFree /\ latched /\ latched' = FALSE
  /\ UNCHANGED <<registry, pose, schedule, pc, asked, manual, late, refused>>

RunNext(r) ==
  \/ Start(r) \/ Claim(r) \/ LeaveRest(r) \/ BeginCast(r) \/ Lower(r)
  \/ \E used \in SUBSET Lines \ {{}} : Elute(r, used)
  \/ Lift(r) \/ StepFails(r) \/ Measure(r) \/ Measured(r) \/ AskPause(r) \/ Hold(r) \/ Answer(r)
  \/ Unhold(r) \/ End(r) \/ Rest(r) \/ GiveBack(r)

PurgeNext(p) ==
  \/ Look(p) \/ ReadPose(p) \/ Defer(p) \/ DryRun(p) \/ ClaimPurge(p) \/ Approach(p)
  \/ TravelPurge(p) \/ PutBack(p) \/ EndPurge(p)
  \/ \E out \in SUBSET todo[p] : Dispense(p, out)

RigNext ==
  \/ \E r \in Runs : RunNext(r)
  \/ \E p \in Purges : PurgeNext(p)
  \/ \E l \in Lines : Stagnate(l)
  \/ \E want \in {{"stage"}, {"syringe"}} : Command(want)
  \/ Commanded \/ Park \/ ClearPark

RigSpec == RigInit /\ [][RigNext]_rigvars

\* The window's timer keeps ticking, and a pump that is asked again and again answers.
RigFairness ==
  /\ WF_rigvars(PurgeNext("tick"))
  /\ SF_rigvars(Dispense("tick", todo["tick"]))

--------------------------------------------------------------------------------
(* What the registry is for.                                               *)

\* A run's claim, unsuspended and wide enough, covers all it drives, from before it
\* leaves rest until after it is back, and so do the nested claims of the two purges;
\* when nobody is at the rig nothing is left: a claim that leaks disables the purge for
\* the rest of the session (rig_run, _perform).
DrivingRun(r)   == pc[r] \in Stepping \cup Travelling \cup {"claimed", "running"}
DrivingPurge(p) == pc[p] \in Travelling \cup {"claimed", "dispense", "back"}
Away(a)         == pc[a] \in {"idle", "starting", "looked", "posed"}

ClaimCovers ==
  /\ \A r \in Runs : DrivingRun(r) =>
       r \notin suspended /\ \E i \in DOMAIN claims[r] : Drives(r) \subseteq claims[r][i]
  /\ Len(claims["purge"]) = Cardinality({p \in Purges : ~Away(p)})
  /\ \A r \in Runs : Away(r) => claims[r] = <<>> /\ r \notin suspended

\* The tick never meets a run at the syringe or the stage that was there when it looked,
\* and dispenses in the flush basin, head down, not into a sample: unless somebody came
\* to the rig, or back from a pause, after it looked (maybe_purge).
LateOnly ==
  /\ DrivingPurge("tick") => \A r \in Fluidic : DrivingRun(r) => r \in late
  /\ pc["tick"] = "dispense" => InBasin \/ late # {}

\* No step of a run is refused its first move because of where the run itself, its rest
\* at either end or a purge in its own window left the head: only a head that failed to
\* go up, and a visitor, are in its way (enter_idle_rest, _perform).
StepsMove == \A r \in Runs : refused[r] \notin {r, "window"}

\* A line that is owed a purge gets one, unless the rig keeps being in use, parked, or
\* with its head in a drop.
RigQuiet == actuate /\ ~latched /\ ~PoseBlocks /\ manual = {}
            /\ \A r \in Runs : pc[r] = "idle"
PurgeServed == \A l \in Lines : []<>(l \notin due \/ ~RigQuiet)

\* No step of a resumed run is refused its first move for what a purge did while the
\* run was held.
PauseLeavesHead == \A r \in Runs : refused[r] # "tick"

\* No step is refused its first move because an earlier one failed.
RecoveryMoves == \A r \in Runs : refused[r] # "fault"

================================================================================
