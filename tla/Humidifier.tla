------------------------------- MODULE Humidifier -------------------------------
(***************************************************************************)
(* The humidity controller (src/softae/drivers/async_rh_controller.py): a  *)
(* PID loop on a thread of its own, and the calls that start it, stop it   *)
(* and leave the chamber dry, each on its caller's thread with no lock     *)
(* around it.  Duty 0 shuts both valves ("off"), out_min is dry air, more  *)
(* is wet.                                                                 *)
(*                                                                         *)
(* A tick may be wedged, in a sensor read or in the port reopened for a    *)
(* write: a stop joins the loop for five seconds and then goes on.         *)
(***************************************************************************)
EXTENDS Naturals, FiniteSets

CONSTANTS
  Loops,     \* the PID threads that can exist at once (a bound)
  Callers,   \* the threads that call the controller
  Parker,    \* the one of them that parks, and disconnects after it; the others are hands
  NoLoop     \* _thread = None

ASSUME LoopAssumption == NoLoop \notin Loops /\ Parker \in Callers

VARIABLES
  target,    \* _setpoint: "none" (0 %RH) or "wet"
  running,   \* _running
  stopping,  \* _stop_event is set
  exitDuty,  \* _exit_duty
  handle,    \* _thread
  loop,      \* per PID thread, where it is
  duty,      \* per PID thread, the output it is about to send
  wedged,    \* the PID threads whose tick does not return
  wound,     \* the PID's integral still asks for humidity
  open,      \* the port is there (_serial is not None)
  wire,      \* the last duty the Trinket was given, or fell back to
  call,      \* per caller, the call it makes: what, and where in it
  parked,    \* safe_dry is at work, or has returned, and nobody set a target since
  excused    \* history: a start, or a loop that a stop gave up on, came in its way

loops == <<loop, duty, wedged, wound>>
flags == <<running, stopping, exitDuty, handle>>
hvars == <<target, flags, loops, open, wire, call, parked, excused>>

Alive == {l \in Loops : loop[l] # "none"}

AtRest == [what |-> "none", at |-> "return"]

HumidInit ==
  /\ target = "none" /\ running = FALSE /\ stopping = FALSE /\ exitDuty = "off"
  /\ handle = NoLoop /\ loop = [l \in Loops |-> "none"] /\ duty = [l \in Loops |-> "dry"]
  /\ wedged = {} /\ wound = FALSE /\ open = TRUE
  /\ wire = "off"
  /\ call = [c \in Callers |-> AtRest] /\ parked = "no" /\ excused = FALSE

--------------------------------------------------------------------------------
(* The loop.                                                               *)

Wake(l) ==
  /\ l \notin wedged /\ loop[l] = "top"
  /\ loop' = [loop EXCEPT ![l] = IF stopping THEN "exit" ELSE "read"]
  /\ UNCHANGED <<target, flags, duty, wedged, wound, open, wire, call, parked, excused>>

\* The setpoint is read after the sensor.  At 0 %RH the output is dry, once the
\* integral has unwound (one tick stands for the few it takes).
Compute(l) ==
  /\ l \notin wedged /\ loop[l] = "read"
  /\ loop' = [loop EXCEPT ![l] = "send"]
  /\ duty' = [duty EXCEPT ![l] = IF target = "wet" \/ wound THEN "wet" ELSE "dry"]
  /\ wound' = (target = "wet")
  /\ UNCHANGED <<target, flags, wedged, open, wire, call, parked, excused>>

\* A read that fails with no recent value to go on with sends nothing this tick.
SkipTick(l) ==
  /\ l \notin wedged /\ loop[l] = "read" /\ loop' = [loop EXCEPT ![l] = "top"]
  /\ UNCHANGED <<target, flags, duty, wedged, wound, open, wire, call, parked, excused>>

\* A write may be lost: the loop logs it and goes on.
Sent(d) == \/ open /\ wire' = d
           \/ UNCHANGED wire

Send(l) ==
  /\ l \notin wedged /\ loop[l] = "send" /\ Sent(duty[l])
  /\ loop' = [loop EXCEPT ![l] = "top"] /\ duty' = [duty EXCEPT ![l] = "dry"]
  /\ UNCHANGED <<target, flags, wedged, wound, open, call, parked, excused>>

LeaveLoop(l) ==
  /\ l \notin wedged /\ loop[l] = "exit" /\ Sent(exitDuty)
  /\ loop' = [loop EXCEPT ![l] = "none"]
  /\ UNCHANGED <<target, flags, duty, wedged, wound, open, call, parked, excused>>

Wedge(l) ==
  /\ loop[l] \in {"read", "send", "exit"} /\ wedged = {} /\ wedged' = {l}
  /\ UNCHANGED <<target, flags, loop, duty, wound, open, wire, call, parked, excused>>

Unwedge(l) ==
  /\ l \in wedged /\ wedged' = wedged \ {l}
  /\ UNCHANGED <<target, flags, loop, duty, wound, open, wire, call, parked, excused>>

\* The Trinket's own deadman shuts both valves some 25 s after the last command; a
\* loop that reaches it writes again within two.
Deadman ==
  /\ wire # "off" /\ wire' = "off"
  /\ UNCHANGED <<target, flags, loops, open, call, parked, excused>>

--------------------------------------------------------------------------------
(* The calls.                                                              *)

GoesOn(c, at) == call' = [call EXCEPT ![c].at = at]
Returns(c)  == call' = [call EXCEPT ![c] = AtRest]
Calling(c, at) == call[c].at = at

Starting == {c \in Callers : call[c].what = "start"}

\* A start comes with a target set before it, or bare: over the setpoint that is stored.
Begin(c, what, at) ==
  /\ call[c] = AtRest /\ open
  /\ call' = [call EXCEPT ![c] = [what |-> what, at |-> at]]
  /\ parked' = (IF what = "dry" THEN "parking" ELSE parked)
  /\ excused' = (IF what = "dry" THEN Starting # {} \/ Alive \ {handle} # {}
                 ELSE excused \/ (parked # "no" /\ at = "start"))
  /\ UNCHANGED <<target, flags, loops, open, wire>>

\* set_setpoint, one assignment under the lock: by itself, or ahead of a start.
SetTarget(c) ==
  /\ Calling(c, "set") /\ target' = "wet" /\ parked' = "no" /\ excused' = FALSE
  /\ IF call[c].what = "start" THEN GoesOn(c, "start") ELSE Returns(c)
  /\ UNCHANGED <<flags, loops, open, wire>>

\* _start_pid_loop: nothing keeps a stop out between its statements.
StartReturns(c) ==
  /\ Calling(c, "start") /\ running /\ Returns(c)
  /\ UNCHANGED <<target, flags, loops, open, wire, parked, excused>>

ClearStop(c) ==
  /\ Calling(c, "start") /\ ~running /\ stopping' = FALSE /\ GoesOn(c, "spawn")
  /\ UNCHANGED <<target, running, exitDuty, handle, loops, open, wire, parked, excused>>

Spawn(c) ==
  /\ Calling(c, "spawn") /\ GoesOn(c, "mark")
  /\ Loops # Alive
  /\ LET l == CHOOSE l \in Loops \ Alive : TRUE
     IN  loop' = [loop EXCEPT ![l] = "top"] /\ handle' = l
  /\ UNCHANGED <<target, running, stopping, exitDuty, duty, wedged, wound, open, wire,
                 parked, excused>>

Mark(c) ==
  /\ Calling(c, "mark") /\ running' = TRUE /\ Returns(c)
  /\ UNCHANGED <<target, stopping, exitDuty, handle, loops, open, wire, parked, excused>>

Stops == {"stop", "dry", "disconnect"}

AfterStop(c) == IF call[c].what = "dry" THEN GoesOn(c, "zero")
                ELSE IF call[c].what = "disconnect" THEN GoesOn(c, "close")
                ELSE Returns(c)

\* _stop_pid_loop of a loop that was never started, or not yet.
StopReturns(c) ==
  /\ call[c].at \in Stops /\ ~running /\ AfterStop(c)
  /\ UNCHANGED <<target, flags, loops, open, wire, parked, excused>>

\* The exit duty is stored before the event is set: the loop reads it after it saw it.
AskStop(c) ==
  /\ call[c].at \in Stops /\ running /\ GoesOn(c, "join")
  /\ exitDuty' = (IF call[c].what = "dry" THEN "dry" ELSE "off") /\ stopping' = TRUE
  /\ UNCHANGED <<target, running, handle, loops, open, wire, parked, excused>>

\* Mutant: the event is set and nobody waits for the loop.
JoinedEarly(c) ==
  /\ Calling(c, "join")
  /\ handle' = NoLoop /\ running' = FALSE /\ AfterStop(c)
  /\ excused' = (excused \/ handle \in wedged)
  /\ UNCHANGED <<target, stopping, exitDuty, loops, open, wire, parked>>

\* The join ends with the loop, or after five seconds of a wedged one: either way the
\* loop is taken for stopped.
Joined(c) ==
  /\ Calling(c, "join") /\ (handle # NoLoop => loop[handle] = "none" \/ handle \in wedged)
  /\ handle' = NoLoop /\ running' = FALSE /\ AfterStop(c)
  /\ excused' = (excused \/ handle \in wedged)
  /\ UNCHANGED <<target, stopping, exitDuty, loops, open, wire, parked>>

\* Mutant: the stored setpoint outlives the park.
KeepTarget(c) ==
  /\ Calling(c, "zero") /\ GoesOn(c, "dryDuty")
  /\ UNCHANGED <<target, flags, loops, open, wire, parked, excused>>

ZeroTarget(c) ==
  /\ Calling(c, "zero") /\ target' = "none" /\ GoesOn(c, "dryDuty")
  /\ UNCHANGED <<flags, loops, open, wire, parked, excused>>

\* A park whose write raised says so (last_safe_dry_error).
DryDuty(c) ==
  /\ Calling(c, "dryDuty") /\ Returns(c)
  /\ \/ open /\ wire' = "dry" /\ parked' = (IF parked = "parking" THEN "yes" ELSE parked)
     \/ UNCHANGED wire /\ parked' = "no"
  /\ excused' = (parked' = "yes" /\ excused)
  /\ UNCHANGED <<target, flags, loops, open>>

ClosePort(c) ==
  /\ Calling(c, "close") /\ open' = FALSE /\ Returns(c)
  /\ UNCHANGED <<target, flags, loops, wire, parked, excused>>

LoopStep(l) ==
  \/ Wake(l) \/ Compute(l) \/ SkipTick(l) \/ Send(l) \/ LeaveLoop(l)

CallStep(c) ==
  \/ SetTarget(c) \/ StartReturns(c) \/ ClearStop(c) \/ Spawn(c) \/ Mark(c) \/ StopReturns(c)
  \/ AskStop(c) \/ Joined(c) \/ ZeroTarget(c) \/ DryDuty(c) \/ ClosePort(c)

Device == \/ \E l \in Loops : LoopStep(l) \/ Wedge(l) \/ Unwedge(l)
          \/ Deadman
          \/ \E c \in Callers : CallStep(c)

\* The manual tab, or a sweep that finds the loop stopped, on the one hand; a park, and
\* the disconnecting after it, on the other.
Calls ==
  \/ \E c \in Callers \ {Parker} :
       \/ \E what \in {"set", "stop"} : Begin(c, what, what)
       \/ \E at \in {"set", "start"} : Begin(c, "start", at)
  \/ \E what \in {"dry", "disconnect"} : Begin(Parker, what, what)

HumidNext == Device \/ Calls

HumidSpec == HumidInit /\ [][HumidNext]_hvars

\* Threads are scheduled, a wedged tick need never come back.
HumidFairness ==
  /\ \A l \in Loops : WF_hvars(LoopStep(l))
  /\ WF_hvars(Deadman)
  /\ \A c \in Callers : WF_hvars(CallStep(c))

--------------------------------------------------------------------------------
(* What safe_dry is for.                                                   *)

\* Once safe_dry has returned, and until somebody asks for humidity again, nothing wet
\* reaches the chamber, unless a tick was wedged past a stop's join, or a start was between
\* two of its statements when the park came or came bare after it: the integral of the
\* controller, which no park resets, may ask once more (safe_dry: stop first, then write).
DryAfterPark == parked = "yes" /\ wire = "wet" => excused

\* Even then the chamber is dried in the end: by the loop, which a bare start has run at
\* 0 %RH, by its exit duty or by the deadman, and not by somebody who comes back.
ParkedDry == <>[](parked = "yes") => <>[](wire # "wet")

================================================================================
