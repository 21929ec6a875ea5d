--------------------------------- MODULE Heater ---------------------------------
(***************************************************************************)
(* The temperature setpoint and everybody who writes it: the manual tab's  *)
(* Set and Ramp, an anneal (src/softae/drivers/async_temp_controller.py),  *)
(* an Arrhenius sweep, and a park.  Each writes from a thread of its own,  *)
(* one at a time under _sp_write_lock.  Two things make them yield: a      *)
(* ramp's cancel event, looked at again under the lock, and _stop_wait,    *)
(* while which is set the controller refuses every command.                *)
(*                                                                         *)
(* The writers share either an owner window or a campaign's process.       *)
(***************************************************************************)
CONSTANT Programs   \* what a window may run: {} or some of "anneal" (HT) and "sweep"

ASSUME ProgramsAssumption == Programs \subseteq {"anneal", "sweep"}

VARIABLES
  host,     \* who hosts the writers: "window" or "campaign"
  sp,       \* the setpoint in the controller's register
  held,     \* _sp_write_lock: its holder, or "free"
  cancel,   \* the manual ramp's cancel event
  stop,     \* _stop_wait
  at,       \* per writer, where it is
  want,     \* per writer, the setpoint it is about to write
  ending,   \* the programs in their `finally`
  orig,     \* anneal's original_sp
  cause,    \* who ordered the last park
  latched,  \* a park was ordered, and nobody commanded the heater by hand since
  since,    \* since that park's write landed, who else's did
  shut      \* history: the causes whose parks _stop_wait refused

writers == <<at, want, ending>>
parks == <<cause, latched, since, shut>>
heatvars == <<host, sp, held, cancel, stop, writers, orig, parks>>

Writers == {"set", "ramp", "anneal", "sweep", "park"}
Causes == {"operator", "abort", "fault"}
SPs == {"safe", "work", "hot"}

\* What `since` says while no park's write has landed.
NotParked == {"nobody parked"}

HeatInit ==
  /\ host \in {"window", "campaign"} /\ sp = "work" /\ held = "free"
  /\ cancel = FALSE /\ stop = FALSE
  /\ at = [w \in Writers |-> "idle"] /\ want = [w \in Writers |-> "safe"]
  /\ ending = {} /\ orig = "work"
  /\ cause = "operator" /\ latched = FALSE /\ since = NotParked /\ shut = {}

Idle(w) == at[w] = "idle"

Asks(w, t) == /\ at' = [at EXCEPT ![w] = "asks"] /\ want' = [want EXCEPT ![w] = t]

Goes(w, place) ==
  /\ at' = [at EXCEPT ![w] = place]
  /\ want' = IF place = "has" THEN want ELSE [want EXCEPT ![w] = "safe"]

Begins(w, t) == Asks(w, t) /\ ending' = ending \ {w}

ByHand == latched' = FALSE /\ since' = NotParked /\ UNCHANGED <<cause, shut>>

--------------------------------------------------------------------------------
(* One write of the setpoint.                                              *)

\* Mutant: a ramp looks at its cancel event only before it asks for the lock.
NeverYields(w) == FALSE

\* A ramp looks at its cancel event once more, now that it has the lock.
Yields(w) == w = "ramp" /\ cancel

Refused(w) == shut' = IF w = "park" THEN shut \cup {cause} ELSE shut

\* Where a writer goes from a write that took, or that raised.
After(w, ok) ==
  CASE w = "ramp" /\ ok -> "waits"
    [] w \in {"anneal", "sweep"} \ ending -> IF ok THEN "holds" ELSE "finally"
    [] OTHER -> "idle"

TakeLock(w) ==
  /\ at[w] = "asks" /\ held = "free"
  /\ \/ /\ Yields(w) /\ Goes(w, "idle") /\ UNCHANGED <<held, shut>>
     \/ /\ ~Yields(w) /\ stop /\ Refused(w)
        /\ Goes(w, After(w, FALSE)) /\ UNCHANGED held
     \/ /\ ~Yields(w) /\ ~stop /\ held' = w
        /\ Goes(w, "has") /\ UNCHANGED shut
  /\ UNCHANGED <<ending, host, sp, cancel, stop, orig, cause, latched, since>>

\* The register takes the value, whether or not the answer arrives.
Land(w) ==
  /\ at[w] = "has" /\ held' = "free" /\ sp' = want[w]
  /\ \E ok \in BOOLEAN : Goes(w, After(w, ok))
  /\ since' = IF w = "park" THEN IF latched THEN {} ELSE NotParked
              ELSE IF since = NotParked THEN since ELSE since \cup {w}
  /\ UNCHANGED <<ending, host, cancel, stop, orig, cause, latched, shut>>

\* It does not: the port is lost, or _stop_wait was set between the read and the write.
Fail(w) ==
  /\ at[w] = "has" /\ held' = "free" /\ Goes(w, After(w, FALSE))
  /\ IF stop THEN Refused(w) ELSE UNCHANGED shut
  /\ UNCHANGED <<ending, host, sp, cancel, stop, orig, cause, latched, since>>

--------------------------------------------------------------------------------
(* The manual tab.  A run in the window is in its way.                     *)

ManualAllowed == host = "window" /\ Idle("anneal") /\ Idle("sweep")

\* Set is off while a ramp runs.
StartSet ==
  /\ ManualAllowed /\ Idle("set") /\ Idle("ramp") /\ ByHand /\ Asks("set", "work")
  /\ UNCHANGED <<ending, host, sp, held, cancel, stop, orig>>

StartRamp ==
  /\ ManualAllowed /\ Idle("ramp") /\ ByHand /\ cancel' = FALSE /\ Goes("ramp", "waits")
  /\ UNCHANGED <<ending, host, sp, held, stop, orig>>

RampStep ==
  /\ at["ramp"] = "waits" /\ ~cancel /\ Asks("ramp", "hot")
  /\ UNCHANGED <<ending, host, sp, held, cancel, stop, orig, parks>>

\* At its last step, or cancelled while it waits for one.
RampEnds ==
  /\ at["ramp"] = "waits" /\ Goes("ramp", "idle")
  /\ UNCHANGED <<ending, host, sp, held, cancel, stop, orig, parks>>

AbortRamp ==
  /\ ~Idle("ramp") /\ ~cancel /\ cancel' = TRUE
  /\ UNCHANGED <<host, sp, held, stop, writers, orig, parks>>

--------------------------------------------------------------------------------
(* The programs.                                                           *)

MayRun(p) == IF host = "campaign" THEN p = "anneal" ELSE p \in Programs

\* original_sp is read first, which _stop_wait refuses too.  A campaign that was parked
\* or aborted starts no more steps; a window's run is not told of a park.
StartAnneal ==
  /\ MayRun("anneal") /\ Idle("anneal") /\ Idle("sweep") /\ ~stop
  /\ host = "campaign" => ~latched
  /\ orig' = sp /\ Begins("anneal", "hot")
  /\ UNCHANGED <<host, sp, held, cancel, stop, parks>>

\* A ramp has more than one write; none of them can be cancelled.
NextAnnealStep ==
  /\ at["anneal"] = "holds" /\ Asks("anneal", "hot")
  /\ UNCHANGED <<ending, host, sp, held, cancel, stop, orig, parks>>

\* The wait and the watched hold end: in time, on _stop_wait or on an excursion.
HoldEnds(w) ==
  /\ at[w] = "holds" /\ Goes(w, "finally")
  /\ UNCHANGED <<ending, host, sp, held, cancel, stop, orig, parks>>

RestoreOriginal ==
  /\ at["anneal"] = "finally" /\ Asks("anneal", orig) /\ ending' = ending \cup {"anneal"}
  /\ UNCHANGED <<host, sp, held, cancel, stop, orig, parks>>

\* A sweep clears the flag an earlier one was stopped with, and is the only one in a
\* window to do so.
StartSweep ==
  /\ MayRun("sweep") /\ Idle("sweep") /\ Idle("anneal") /\ stop' = FALSE /\ Begins("sweep", "hot")
  /\ UNCHANGED <<host, sp, held, cancel, orig, parks>>

NextTemperature ==
  /\ at["sweep"] = "holds" /\ ~stop /\ Asks("sweep", "hot")
  /\ UNCHANGED <<ending, host, sp, held, cancel, stop, orig, parks>>

AbortSweep ==
  /\ ~Idle("sweep") /\ stop' = TRUE
  /\ UNCHANGED <<host, sp, held, cancel, writers, orig, parks>>

RestoreAmbient ==
  /\ at["sweep"] = "finally" /\ Asks("sweep", "work") /\ ending' = ending \cup {"sweep"}
  /\ UNCHANGED <<host, sp, held, cancel, stop, orig, parks>>

--------------------------------------------------------------------------------
(* The parks.                                                              *)

\* E-Stop, Safe Exit and the close of the window: the latch and the ramp's cancel come
\* first, the park's thread second.
ParkWindow ==
  /\ host = "window" /\ Idle("park") /\ Asks("park", "safe")
  /\ latched' = TRUE /\ cause' = "operator" /\ since' = NotParked
  /\ cancel' = (cancel \/ ~Idle("ramp"))
  /\ UNCHANGED <<ending, host, sp, held, stop, orig, shut>>

\* AutonomousLoop.abort, from the control watcher's task.
AbortCampaign ==
  /\ host = "campaign" /\ ~latched /\ stop' = TRUE
  /\ latched' = TRUE /\ cause' = "abort" /\ since' = NotParked
  /\ UNCHANGED <<host, sp, held, cancel, writers, orig, shut>>

\* Mutant: the flag is cleared after the park.
KeepStop == UNCHANGED stop

ReleaseStop == stop' = FALSE

\* A campaign parks once.
AbortPending == cause = "abort" /\ stop

\* run()'s park site: the trial has stopped.
ParkAborted ==
  /\ AbortPending /\ Idle("anneal") /\ ReleaseStop /\ Asks("park", "safe")
  /\ UNCHANGED <<ending, host, sp, held, cancel, orig, parks>>

\* A round that ends in a hard fault, or in the last failure allowed, parks by itself,
\* and leaves the flag of an abort that came meanwhile as it is.
ParkFault ==
  /\ host = "campaign" /\ Idle("anneal") /\ (latched => AbortPending)
  /\ cause' = "fault" /\ latched' = TRUE /\ since' = NotParked /\ Asks("park", "safe")
  /\ UNCHANGED <<ending, host, sp, held, cancel, stop, orig, shut>>

HeatNext ==
  \/ \E w \in Writers : TakeLock(w) \/ Land(w) \/ Fail(w)
  \/ StartSet \/ StartRamp \/ RampStep \/ RampEnds \/ AbortRamp
  \/ StartAnneal \/ NextAnnealStep \/ RestoreOriginal
  \/ StartSweep \/ NextTemperature \/ AbortSweep \/ RestoreAmbient
  \/ HoldEnds("anneal") \/ HoldEnds("sweep")
  \/ ParkWindow \/ AbortCampaign \/ ParkAborted \/ ParkFault

HeatSpec == HeatInit /\ [][HeatNext]_heatvars

--------------------------------------------------------------------------------

HeatTypeOK ==
  /\ host \in {"window", "campaign"} /\ sp \in SPs /\ held \in Writers \cup {"free"}
  /\ cancel \in BOOLEAN /\ stop \in BOOLEAN
  /\ at \in [Writers -> {"idle", "waits", "asks", "has", "holds", "finally"}]
  /\ want \in [Writers -> SPs] /\ orig \in SPs
  /\ ending \subseteq {"anneal", "sweep"} /\ cause \in Causes /\ latched \in BOOLEAN
  /\ since \in {NotParked} \cup SUBSET Writers
  /\ shut \in SUBSET Causes

\* Once a park's setpoint is written, none of a campaign's writers writes another, and in
\* a window no ramp does: a Set that already waited for the lock and a run that nobody
\* told may (async_temp_controller, the comment of _sp_write_lock).
Untold == IF host = "campaign" THEN {} ELSE {"set", "anneal", "sweep"}

ParkLandsLast == since = NotParked \/ since \subseteq Untold

\* The park of an aborted campaign is never refused by the flag that stopped its anneal
\* (_release_stop_wait: clear it before the park, never after).
AbortParkLands == "abort" \notin shut

\* A park from the window reaches the heater, whatever ran before it and is over (the
\* close of a window parks so that it does not leave the heater at setpoint).
WindowParkLands ==
  [][ "operator" \in shut' \ shut => \E w \in Programs : ~Idle(w) ]_heatvars

================================================================================
