---------------------------- MODULE Characterization ----------------------------
(***************************************************************************)
(* An equilibration run (EquilibrationRun of                               *)
(* src/softae/workflows/equilibration.py) under the command that hosts it  *)
(* (_cmd_run of src/softae/tools/equilibration.py): a night of setpoints,  *)
(* each heated to, waited for, and measured round by round; and what an    *)
(* interrupt, a failing driver and a failing teardown leave behind.        *)
(*                                                                         *)
(* The run awaits one call at a time, in a thread.  Ctrl-C takes the run    *)
(* out of the await; the thread goes on by itself.                          *)
(***************************************************************************)
EXTENDS Naturals

CONSTANTS
  Points,     \* setpoints of the run, over all legs
  Ceiling,    \* rounds_per_setpoint
  RoundFloor, \* rounds before a series may stop early (tau_floor_rounds)
  Presses,    \* bound: how often Ctrl-C is pressed
  Faults,     \* bound: how many calls fail
  Straddles   \* a press may come before a setpoint's thread has the driver's lock

ASSUME RunAssumption ==
  /\ Points \in Nat \ {0} /\ Ceiling \in Nat \ {0} /\ RoundFloor \in 1..Ceiling
  /\ Presses \in Nat /\ Faults \in Nat /\ Straddles \in BOOLEAN

VARIABLES
  doing,      \* the call the run awaits, or where the command is besides
  thread,     \* per call, how far its thread is
  chamber,    \* the heater's setpoint, as the number of the run's setpoint
  reached,    \* _setpoints_done
  rounds,     \* the rounds of the setpoint in hand
  humid,      \* _rh_started_by_run
  unrestored, \* restore_error is set
  problems,   \* the heater half of the restore failed, and the other is still tried
  told,       \* what the operator has read about the chamber
  raised,     \* the exception on its way out
  cut,        \* the teardown was interrupted
  presses, faults

chvars == <<doing, thread, chamber, reached, rounds, humid, unrestored, problems, told, raised, cut,
            presses, faults>>

Ambient == 0
Holds   == {"hold", "holdRH"}
Work    == {"heat", "approach", "humidify", "approachRH", "measure"} \cup Holds
Awaited == Work \cup {"restore", "dry"}
SetpointCalls == {"heat", "restore"}

ChTypeOK ==
  /\ doing \in Awaited \cup {"connect", "disconnect", "shutdown", "over"}
  /\ thread \in [Awaited -> {"idle", "asks", "runs", "done", "failed"}]
  /\ chamber \in 0..Points /\ reached \in 0..Points /\ rounds \in 0..Ceiling
  /\ humid \in BOOLEAN /\ unrestored \in BOOLEAN /\ problems \in BOOLEAN /\ cut \in BOOLEAN
  /\ told \subseteq {"restored", "check"}
  /\ raised \in {"none", "abort", "error", "interrupt"}
  /\ presses \in 0..Presses /\ faults \in 0..Faults

ChInit ==
  /\ doing = "connect" /\ thread = [c \in Awaited |-> "idle"] /\ chamber = Ambient
  /\ reached = 0 /\ rounds = 0 /\ humid = FALSE /\ unrestored = FALSE /\ problems = FALSE
  /\ told = {}
  /\ raised = "none" /\ cut = FALSE /\ presses = 0 /\ faults = 0

--------------------------------------------------------------------------------
(* The threads.                                                            *)

Turns(c, what) == thread' = [thread EXCEPT ![c] = what]

\* Nobody awaits a call that was cancelled: it is over when it ends.
Result(c, what) == Turns(c, IF doing = c THEN what ELSE "idle")

ThreadOnly == UNCHANGED <<doing, reached, rounds, humid, unrestored, problems, told, raised, cut, presses>>

Goal(c) == IF c = "heat" THEN reached + 1 ELSE Ambient

\* Mutant: a setpoint is written without the lock over reading and writing.
TakePortUnlocked(c) ==
  /\ c \in SetpointCalls /\ thread[c] = "asks" /\ Turns(c, "runs")
  /\ ThreadOnly /\ UNCHANGED <<chamber, faults>>

\* write_sp, under _sp_write_lock.
TakePort(c) ==
  /\ c \in SetpointCalls /\ thread[c] = "asks" /\ \A w \in SetpointCalls : thread[w] # "runs"
  /\ Turns(c, "runs")
  /\ ThreadOnly /\ UNCHANGED <<chamber, faults>>

\* Mutant: a hold that ends only when it is told to abort, which nobody does.
EndsButHolds(c) ==
  /\ c \in Awaited \ Holds /\ thread[c] = "runs" /\ Result(c, "done")
  /\ chamber' = IF c \in SetpointCalls THEN Goal(c) ELSE chamber
  /\ ThreadOnly /\ UNCHANGED faults

\* A watched wait has a deadline, a driver call its retries.
Ends(c) ==
  /\ thread[c] = "runs" /\ Result(c, "done")
  /\ chamber' = IF c \in SetpointCalls THEN Goal(c) ELSE chamber
  /\ ThreadOnly /\ UNCHANGED faults

\* An approach that does not arrive is a result; a write that fails may have landed.
CallFails(c) ==
  /\ thread[c] = "runs" /\ c \notin {"approach", "approachRH"} /\ faults < Faults
  /\ faults' = faults + 1 /\ Result(c, "failed")
  /\ chamber' \in IF c \in SetpointCalls THEN {chamber, Goal(c)} ELSE {chamber}
  /\ ThreadOnly

--------------------------------------------------------------------------------
(* run, _run_setpoint, _run_series.                                        *)

\* The run leaves the call it was awaiting; one that is not over goes on without it.
Left == [c \in Awaited |-> IF thread[c] \in {"done", "failed"} THEN "idle" ELSE thread[c]]

MovesOn(to) ==
  /\ doing' = to
  /\ thread' = IF to \notin Awaited THEN Left
               ELSE [Left EXCEPT ![to] = IF to \in SetpointCalls THEN "asks" ELSE "runs"]

Done(c) == doing = c /\ thread[c] = "done"

RunOnly == UNCHANGED <<chamber, unrestored, problems, told, raised, cut, presses, faults>>

\* connect_all: an instrument that does not answer is passed over.
Connect ==
  /\ doing = "connect" /\ MovesOn("heat") /\ RunOnly /\ UNCHANGED <<reached, rounds, humid>>

Follows(c) ==
  CASE c = "heat" -> "approach"       [] c = "approach" -> "humidify"
    [] c = "humidify" -> "approachRH" [] c = "approachRH" -> "measure"
    [] c = "hold" -> "holdRH"        [] c = "holdRH" -> "measure"

\* The humidifier's loop is started unless it runs already.
Proceed(c) ==
  /\ c \in Work \ {"measure"} /\ Done(c) /\ MovesOn(Follows(c))
  /\ humid' \in IF c = "humidify" THEN {humid, TRUE} ELSE {humid}
  /\ RunOnly /\ UNCHANGED <<reached, rounds>>

\* After a round: the gap, if another round is to follow.
Wait ==
  /\ Done("measure") /\ rounds + 1 < Ceiling
  /\ rounds' = rounds + 1 /\ MovesOn("hold")
  /\ RunOnly /\ UNCHANGED <<reached, humid>>

\* The series has settled, or is at its ceiling: the next setpoint, or the end.
Settle ==
  /\ Done("measure") /\ rounds + 1 >= RoundFloor
  /\ reached' = reached + 1 /\ rounds' = 0
  /\ MovesOn(IF reached' < Points THEN "heat" ELSE "restore")
  /\ RunOnly /\ UNCHANGED humid

\* Mutant: only the run's own abort is caught (`except EquilibrationAbort`).
RunRaisesUncaught(c) ==
  /\ c \in Work /\ doing = c /\ thread[c] = "failed"
  /\ raised' = IF c \in Holds THEN "abort" ELSE "error"
  /\ MovesOn(IF c \in Holds THEN "restore" ELSE "disconnect")
  /\ UNCHANGED <<chamber, reached, rounds, humid, unrestored, problems, told, cut, presses, faults>>

\* A hold that cannot read its sensor, or sees it run away, is the run's own abort.
RunRaises(c) ==
  /\ c \in Work /\ doing = c /\ thread[c] = "failed" /\ MovesOn("restore")
  /\ raised' = IF c \in Holds THEN "abort" ELSE "error"
  /\ UNCHANGED <<chamber, reached, rounds, humid, unrestored, problems, told, cut, presses, faults>>

--------------------------------------------------------------------------------
(* _teardown, and the command around the run.                              *)

Announced(bad) == IF bad THEN "check" ELSE "restored"

TeardownOnly == UNCHANGED <<chamber, reached, rounds, humid, raised, cut, presses, faults>>

\* Both halves of _restore_ambient are tried before restore_error says so, and the
\* outcome is said: an interrupt between them leaves it empty.
Concluded(bad) ==
  /\ unrestored' = bad /\ problems' = FALSE
  /\ MovesOn("disconnect") /\ told' = told \cup {Announced(bad)}

Restore ==
  /\ doing = "restore" /\ thread["restore"] \in {"done", "failed"}
  /\ IF humid THEN MovesOn("dry") /\ problems' = (thread["restore"] = "failed")
                   /\ UNCHANGED <<unrestored, told>>
     ELSE Concluded(thread["restore"] = "failed")
  /\ TeardownOnly

Dry ==
  /\ doing = "dry" /\ thread["dry"] \in {"done", "failed"}
  /\ Concluded(problems \/ thread["dry"] = "failed")
  /\ TeardownOnly

Disconnect ==
  /\ doing = "disconnect" /\ MovesOn("shutdown") /\ TeardownOnly /\ UNCHANGED <<unrestored, problems, told>>

\* The claim is given back and the command says what became of the chamber, if it was
\* the run's own abort or an interrupt (_print_teardown).
HandBack(exc) ==
  /\ MovesOn("over") /\ raised' = exc
  /\ told' = IF exc \in {"abort", "interrupt"} THEN told \cup {Announced(unrestored)} ELSE told
  /\ UNCHANGED <<chamber, reached, rounds, humid, unrestored, problems, faults>>

\* asyncio.run waits for the threads that go on.
ShutDown ==
  /\ doing = "shutdown" /\ \A c \in Awaited : thread[c] = "idle"
  /\ HandBack(raised) /\ UNCHANGED <<cut, presses>>

Pressed == presses < Presses /\ presses' = presses + 1

\* The run is torn down whatever takes it out of an await; nothing is while it connects.
Interrupt ==
  /\ Pressed /\ raised' = "interrupt"
  /\ \/ /\ doing \in Work /\ (Straddles \/ doing # "heat" \/ thread["heat"] # "asks")
        /\ MovesOn("restore") /\ UNCHANGED cut
     \/ doing = "connect" /\ MovesOn("shutdown") /\ UNCHANGED cut
     \/ doing \in {"restore", "dry"} /\ MovesOn("disconnect") /\ cut' = TRUE
     \/ doing = "disconnect" /\ presses < 2 /\ MovesOn("shutdown") /\ UNCHANGED cut
  /\ UNCHANGED <<chamber, reached, rounds, humid, unrestored, problems, told, faults>>

\* Pressed while asyncio.run puts the loop away, which it does once the run has returned
\* or Ctrl-C was pressed twice, it waits for no thread.
InterruptClosing ==
  /\ doing = "shutdown" \/ (doing = "disconnect" /\ presses >= 2)
  /\ Pressed /\ HandBack("interrupt") /\ UNCHANGED cut

RunStep ==
  \/ (\E c \in Work : Proceed(c) \/ RunRaises(c))
  \/ Wait \/ Settle \/ Restore \/ Dry \/ Disconnect \/ ShutDown

ThreadStep(c) == TakePort(c) \/ Ends(c) \/ CallFails(c)

ChNext ==
  \/ Connect \/ RunStep
  \/ \E c \in Awaited : ThreadStep(c)
  \/ Interrupt \/ InterruptClosing

ChSpec == ChInit /\ [][ChNext]_chvars

\* While the event loop or a thread can go on, one of them does; nobody has to press
\* anything.
ChFairness == WF_chvars(RunStep \/ \E c \in Awaited : ThreadStep(c))

--------------------------------------------------------------------------------
(* What the night leaves behind.                                           *)

\* When the command is over and the rig may be claimed by another, the heater is at
\* ambient with no write under way, or the operator was told to look at the chamber;
\* unless the operator interrupted the teardown itself (run: every way out goes through
\* the teardown; an unfinished setpoint does not land after the restore).
HandedBackCold ==
  doing = "over" =>
    \/ cut \/ "check" \in told
    \/ chamber = Ambient /\ \A w \in SetpointCalls : thread[w] = "idle"

\* A run that has begun comes to its end, finished, failed or interrupted, and the rig
\* is handed back: no wait depends on somebody (approach_setpoint, watch_hold).
RigHandedBack == doing # "connect" ~> doing = "over"

\* What the operator reads of the chamber is so (_print_teardown: what the teardown
\* actually did).
RestoredIsTrue == doing = "over" /\ told = {"restored"} => chamber = Ambient
\* No call is lost between the run and its threads: what the run awaits has a thread or an
\* answer, an answer has the run waiting for it, and only a setpoint waits for the port. An
\* answer that nobody collects, or an await with no thread behind it, would be waited for
\* for ever (asyncio.to_thread; asyncio.run waits for every thread).
NoCallLost ==
  /\ doing \in Awaited => thread[doing] # "idle"
  /\ \A c \in Awaited :
       /\ thread[c] \in {"done", "failed"} => doing = c
       /\ thread[c] = "asks" => c \in SetpointCalls

\* How far a night is in a round, and from its last round to its end.
NightRank ==
  CASE doing = "connect" -> 0      [] doing = "heat" -> 1
    [] doing = "approach" -> 2     [] doing = "humidify" -> 3
    [] doing = "approachRH" -> 4  [] doing = "hold" -> 5
    [] doing = "holdRH" -> 6      [] doing = "measure" -> 7
    [] doing = "restore" -> 8      [] doing = "dry" -> 9
    [] doing = "disconnect" -> 10  [] doing = "shutdown" -> 11
    [] doing = "over" -> 12

\* Wherever it is interrupted and whatever fails, a night never goes back: each of its moves
\* reaches a setpoint, ends a round of one, or goes on towards the end of the round, of the
\* teardown and of the command (run, _run_setpoint, _run_series, _teardown).
NightOnward ==
  [][ \/ reached' > reached
      \/ reached' = reached /\ rounds' > rounds
      \/ UNCHANGED <<reached, rounds>> /\ NightRank' > NightRank ]_<<doing, reached, rounds>>

================================================================================
