--------------------------- MODULE InstrumentProofs ----------------------------
(***************************************************************************)
(* What the heater, the humidifier and a night of equilibration promise,   *)
(* for any programs, threads, setpoints and failures: a park is the last   *)
(* to write a heater's setpoint, because whoever could write after it was  *)
(* told to stop before it asked for the lock; it leaves the chamber dry,   *)
(* because the only loop there is is the one its stop waits for; and a     *)
(* night hands the rig back cold or says so.                               *)
(***************************************************************************)
EXTENDS Heater, Humidifier, Characterization, TLAPS

--------------------------------------------------------------------------------
(* The heater.                                                             *)

\* One writer at a time holds the lock, and of the campaign's process only the anneal
\* and the park write.
Locked ==
  /\ \A w \in Writers : at[w] = "has" => held = w
  /\ at["park"] \in {"idle", "asks", "has"}
  /\ host = "campaign" => at["set"] = "idle" /\ at["ramp"] = "idle" /\ at["sweep"] = "idle"

\* Who ordered a park has seen to it that what it stops stays stopped: a ramp is told to
\* yield before the park asks for the lock, a campaign's anneal is over.
Ordered ==
  /\ since # NotParked => latched
  /\ host = "window" /\ latched /\ at["ramp"] # "idle" => cancel
  /\ since # NotParked => at["ramp"] # "has"
  /\ host = "campaign" /\ at["park"] # "idle" => latched
  /\ host = "campaign" /\ (at["park"] # "idle" \/ since # NotParked) => at["anneal"] = "idle"

\* An aborted campaign parks with the flag released, and nobody sets it again.
Released ==
  /\ cause = "abort" => host = "campaign" /\ latched
  /\ cause = "abort" /\ at["park"] # "idle" => ~stop

HeatInv == /\ HeatTypeOK /\ Locked /\ Ordered /\ Released
        /\ ParkLandsLast /\ AbortParkLands

\* Nobody writes, nobody parks.
LEMMA HeatStarts == HeatInit => HeatInv
BY DEF HeatInit, HeatInv, HeatTypeOK, Locked, Ordered, Released, ParkLandsLast,
       AbortParkLands, Writers, SPs, Causes, NotParked

Places == {"idle", "waits", "asks", "has", "holds", "finally"}

\* Of the writers w alone moves, to `place`.
MovesTo(w, place) ==
  /\ at' \in [Writers -> Places] /\ at'[w] = place
  /\ \A v \in Writers : v # w => at'[v] = at[v]

\* Where a writer that goes on comes to be.
LEMMA GoesMoves ==
  ASSUME HeatTypeOK, NEW w \in Writers, NEW place \in Places, Goes(w, place)
  PROVE  MovesTo(w, place) /\ want' \in [Writers -> SPs]
BY DEF HeatTypeOK, Places, Goes, MovesTo, SPs

\* A writer that wants a setpoint comes to the lock.
LEMMA AsksMoves ==
  ASSUME HeatTypeOK, NEW w \in Writers, NEW t \in SPs, Asks(w, t)
  PROVE  MovesTo(w, "asks") /\ want' \in [Writers -> SPs]
BY DEF HeatTypeOK, Places, Asks, MovesTo, SPs

\* A write leaves its writer anywhere but at the lock; a park ends with it.
LEMMA WriteMoves ==
  ASSUME HeatTypeOK, NEW w \in Writers, NEW ok \in BOOLEAN, Goes(w, After(w, ok))
  PROVE  /\ want' \in [Writers -> SPs]
         /\ \E x \in Places \ {"asks", "has"} : MovesTo(w, x) /\ (w = "park" => x = "idle")
<1>1. /\ After(w, ok) \in Places \ {"asks", "has"}
      /\ w = "park" => After(w, ok) = "idle"
  BY DEF After, Writers, Places
<1>2. After(w, ok) \in Places
  BY <1>1
<1> QED BY <1>1, <1>2, GoesMoves

\* Whoever comes to the lock takes it, yields, or is refused by the stop flag.
LEMMA Takes ==
  ASSUME HeatInv, NEW w \in Writers, TakeLock(w)
  PROVE  HeatInv'
<1> USE DEF HeatInv, HeatTypeOK, Locked, Ordered, Released, ParkLandsLast, AbortParkLands,
            Writers, SPs, Causes, NotParked, Untold, Places, MovesTo
<1>1. CASE Yields(w) /\ Goes(w, "idle") /\ UNCHANGED <<held, shut>>
  <2>1. MovesTo(w, "idle") /\ want' \in [Writers -> SPs]
    BY <1>1, GoesMoves DEF HeatTypeOK
  <2>2. HeatTypeOK'
    BY <1>1, <2>1 DEF TakeLock
  <2>3. Locked'
    BY <1>1, <2>1 DEF TakeLock
  <2>4. Ordered'
    BY <1>1, <2>1 DEF TakeLock
  <2>5. Released'
    BY <1>1, <2>1 DEF TakeLock
  <2>6. ParkLandsLast'
    BY <1>1, <2>1 DEF TakeLock
  <2>7. AbortParkLands'
    BY <1>1, <2>1 DEF TakeLock
  <2> QED BY <2>2, <2>3, <2>4, <2>5, <2>6, <2>7
<1>2. CASE ~Yields(w) /\ stop /\ Refused(w) /\ Goes(w, After(w, FALSE)) /\ UNCHANGED held
  <2>0. want' \in [Writers -> SPs]
    BY <1>2, WriteMoves
  <2>1. PICK x \in Places \ {"asks", "has"} : MovesTo(w, x) /\ (w = "park" => x = "idle")
    BY <1>2, WriteMoves
  <2>2. HeatTypeOK'
    BY <1>2, <2>0, <2>1 DEF TakeLock, Refused
  <2>3. Locked'
    BY <1>2, <2>0, <2>1 DEF TakeLock, Refused
  <2>4. Ordered'
    BY <1>2, <2>0, <2>1 DEF TakeLock, Refused
  <2>5. Released'
    BY <1>2, <2>0, <2>1 DEF TakeLock, Refused
  <2>6. ParkLandsLast'
    BY <1>2, <2>0, <2>1 DEF TakeLock, Refused
  <2>7. AbortParkLands'
    BY <1>2, <2>0, <2>1 DEF TakeLock, Refused
  <2> QED BY <2>2, <2>3, <2>4, <2>5, <2>6, <2>7
<1>3. CASE ~Yields(w) /\ ~stop /\ held' = w /\ Goes(w, "has") /\ UNCHANGED shut
  <2>1. MovesTo(w, "has") /\ want' \in [Writers -> SPs]
    BY <1>3, GoesMoves
  <2>2. HeatTypeOK'
    BY <1>3, <2>1 DEF TakeLock, Yields
  <2>3. Locked'
    BY <1>3, <2>1 DEF TakeLock, Yields
  <2>4. Ordered'
    BY <1>3, <2>1 DEF TakeLock, Yields
  <2>5. Released'
    BY <1>3, <2>1 DEF TakeLock, Yields
  <2>6. ParkLandsLast'
    BY <1>3, <2>1 DEF TakeLock, Yields
  <2>7. AbortParkLands'
    BY <1>3, <2>1 DEF TakeLock, Yields
  <2> QED BY <2>2, <2>3, <2>4, <2>5, <2>6, <2>7
<1> QED BY <1>1, <1>2, <1>3 DEF TakeLock

\* A write that lands, a park's or another's.
LEMMA Lands ==
  ASSUME HeatInv, NEW w \in Writers, Land(w)
  PROVE  HeatInv'
<1> USE DEF HeatInv, HeatTypeOK, Locked, Ordered, Released, ParkLandsLast, AbortParkLands,
            Writers, SPs, Causes, NotParked, Untold, Places, MovesTo
<1>1. PICK ok \in BOOLEAN : Goes(w, After(w, ok))
  BY DEF Land
<1>0. want' \in [Writers -> SPs]
  BY <1>1, WriteMoves
<1>2. PICK x \in Places \ {"asks", "has"} : MovesTo(w, x) /\ (w = "park" => x = "idle")
  BY <1>1, WriteMoves
<1>3. CASE w = "park"
  <2>2. HeatTypeOK'
    BY <1>0, <1>2, <1>3 DEF Land
  <2>3. Locked'
    BY <1>0, <1>2, <1>3 DEF Land
  <2>4. Ordered'
    BY <1>0, <1>2, <1>3 DEF Land
  <2>5. Released'
    BY <1>0, <1>2, <1>3 DEF Land
  <2>6. ParkLandsLast'
    BY <1>0, <1>2, <1>3 DEF Land
  <2>7. AbortParkLands'
    BY <1>0, <1>2, <1>3 DEF Land
  <2> QED BY <2>2, <2>3, <2>4, <2>5, <2>6, <2>7
<1>4. CASE w # "park"
  <2>2. HeatTypeOK'
    BY <1>0, <1>2, <1>4 DEF Land
  <2>3. Locked'
    BY <1>0, <1>2, <1>4 DEF Land
  <2>4. Ordered'
    BY <1>0, <1>2, <1>4 DEF Land
  <2>5. Released'
    BY <1>0, <1>2, <1>4 DEF Land
  <2>6. ParkLandsLast'
    BY <1>0, <1>2, <1>4 DEF Land
  <2>7. AbortParkLands'
    BY <1>0, <1>2, <1>4 DEF Land
  <2> QED BY <2>2, <2>3, <2>4, <2>5, <2>6, <2>7
<1> QED BY <1>3, <1>4

\* A write that fails leaves the setpoint as it was.
LEMMA Fails ==
  ASSUME HeatInv, NEW w \in Writers, Fail(w)
  PROVE  HeatInv'
<1> USE DEF HeatInv, HeatTypeOK, Locked, Ordered, Released, ParkLandsLast, AbortParkLands,
            Writers, SPs, Causes, NotParked, Untold, Places, MovesTo
<1>0. want' \in [Writers -> SPs]
  BY WriteMoves DEF Fail
<1>1. PICK x \in Places \ {"asks", "has"} : MovesTo(w, x) /\ (w = "park" => x = "idle")
  BY WriteMoves DEF Fail
<1>2. HeatTypeOK'
  BY <1>0, <1>1 DEF Fail, Refused
<1>3. Locked'
  BY <1>0, <1>1 DEF Fail, Refused
<1>4. Ordered'
  BY <1>0, <1>1 DEF Fail, Refused
<1>5. Released'
  BY <1>0, <1>1 DEF Fail, Refused
<1>6. ParkLandsLast'
  BY <1>0, <1>1 DEF Fail, Refused
<1>7. AbortParkLands'
  BY <1>0, <1>1 DEF Fail, Refused
<1> QED BY <1>2, <1>3, <1>4, <1>5, <1>6, <1>7

\* Every step, one by one.
LEMMA Steps ==
  ASSUME HeatInv, HeatNext
  PROVE  HeatInv'
<1> USE DEF HeatInv, HeatTypeOK, Locked, Ordered, Released, ParkLandsLast, AbortParkLands,
            Writers, SPs, Causes, NotParked, Untold, Places, MovesTo, Idle
<1>1. CASE \E w \in Writers : TakeLock(w) \/ Land(w) \/ Fail(w)
  BY <1>1, Takes, Lands, Fails
<1>2. CASE StartSet
  <2>1. MovesTo("set", "asks") /\ want' \in [Writers -> SPs]
    BY <1>2, AsksMoves DEF StartSet, ManualAllowed, ByHand, HeatTypeOK, Begins
  <2> QED BY <1>2, <2>1 DEF StartSet, ManualAllowed, ByHand, Begins
<1>3. CASE StartRamp
  <2>1. MovesTo("ramp", "waits") /\ want' \in [Writers -> SPs]
    BY <1>3, GoesMoves DEF StartRamp, ManualAllowed, ByHand, HeatTypeOK, Begins
  <2> QED BY <1>3, <2>1 DEF StartRamp, ManualAllowed, ByHand, Begins
<1>4. CASE RampStep
  <2>1. MovesTo("ramp", "asks") /\ want' \in [Writers -> SPs]
    BY <1>4, AsksMoves DEF RampStep, parks, HeatTypeOK, Begins
  <2> QED BY <1>4, <2>1 DEF RampStep, parks, Begins
<1>5. CASE RampEnds
  <2>1. MovesTo("ramp", "idle") /\ want' \in [Writers -> SPs]
    BY <1>5, GoesMoves DEF RampEnds, parks, HeatTypeOK, Begins
  <2>2. HeatTypeOK'
    BY <1>5, <2>1 DEF RampEnds, parks
  <2>3. Locked'
    BY <1>5, <2>1 DEF RampEnds, parks
  <2>4. Ordered'
    BY <1>5, <2>1 DEF RampEnds, parks
  <2>5. Released'
    BY <1>5, <2>1 DEF RampEnds, parks
  <2>6. ParkLandsLast'
    BY <1>5, <2>1 DEF RampEnds, parks
  <2>7. AbortParkLands'
    BY <1>5, <2>1 DEF RampEnds, parks
  <2> QED BY <2>2, <2>3, <2>4, <2>5, <2>6, <2>7
<1>6. CASE AbortRamp
  BY <1>6 DEF AbortRamp, writers, parks
<1>7. CASE StartAnneal
  <2>1. MovesTo("anneal", "asks") /\ want' \in [Writers -> SPs]
    BY <1>7, AsksMoves DEF StartAnneal, MayRun, parks, HeatTypeOK, Begins
  <2> QED BY <1>7, <2>1 DEF StartAnneal, MayRun, parks, Begins
<1>8. CASE NextAnnealStep
  <2>1. MovesTo("anneal", "asks") /\ want' \in [Writers -> SPs]
    BY <1>8, AsksMoves DEF NextAnnealStep, parks, HeatTypeOK, Begins
  <2>2. HeatTypeOK'
    BY <1>8, <2>1 DEF NextAnnealStep, parks
  <2>3. Locked'
    BY <1>8, <2>1 DEF NextAnnealStep, parks
  <2>4. Ordered'
    BY <1>8, <2>1 DEF NextAnnealStep, parks
  <2>5. Released'
    BY <1>8, <2>1 DEF NextAnnealStep, parks
  <2>6. ParkLandsLast'
    BY <1>8, <2>1 DEF NextAnnealStep, parks
  <2>7. AbortParkLands'
    BY <1>8, <2>1 DEF NextAnnealStep, parks
  <2> QED BY <2>2, <2>3, <2>4, <2>5, <2>6, <2>7
<1>9. CASE HoldEnds("anneal")
  <2>1. MovesTo("anneal", "finally") /\ want' \in [Writers -> SPs]
    BY <1>9, GoesMoves DEF HoldEnds, parks, HeatTypeOK, Begins
  <2>2. HeatTypeOK'
    BY <1>9, <2>1 DEF HoldEnds, parks
  <2>3. Locked'
    BY <1>9, <2>1 DEF HoldEnds, parks
  <2>4. Ordered'
    BY <1>9, <2>1 DEF HoldEnds, parks
  <2>5. Released'
    BY <1>9, <2>1 DEF HoldEnds, parks
  <2>6. ParkLandsLast'
    BY <1>9, <2>1 DEF HoldEnds, parks
  <2>7. AbortParkLands'
    BY <1>9, <2>1 DEF HoldEnds, parks
  <2> QED BY <2>2, <2>3, <2>4, <2>5, <2>6, <2>7
<1>10. CASE RestoreOriginal
  <2>1. MovesTo("anneal", "asks") /\ want' \in [Writers -> SPs]
    BY <1>10, AsksMoves DEF RestoreOriginal, parks, HeatTypeOK, Begins
  <2>2. HeatTypeOK'
    BY <1>10, <2>1 DEF RestoreOriginal, parks
  <2>3. Locked'
    BY <1>10, <2>1 DEF RestoreOriginal, parks
  <2>4. Ordered'
    BY <1>10, <2>1 DEF RestoreOriginal, parks
  <2>5. Released'
    BY <1>10, <2>1 DEF RestoreOriginal, parks
  <2>6. ParkLandsLast'
    BY <1>10, <2>1 DEF RestoreOriginal, parks
  <2>7. AbortParkLands'
    BY <1>10, <2>1 DEF RestoreOriginal, parks
  <2> QED BY <2>2, <2>3, <2>4, <2>5, <2>6, <2>7
<1>11. CASE StartSweep
  <2>1. MovesTo("sweep", "asks") /\ want' \in [Writers -> SPs]
    BY <1>11, AsksMoves DEF StartSweep, MayRun, parks, HeatTypeOK, Begins
  <2>2. HeatTypeOK'
    BY <1>11, <2>1 DEF StartSweep, MayRun, parks, Begins
  <2>3. Locked'
    BY <1>11, <2>1 DEF StartSweep, MayRun, parks, Begins
  <2>4. Ordered'
    BY <1>11, <2>1 DEF StartSweep, MayRun, parks, Begins
  <2>5. Released'
    BY <1>11, <2>1 DEF StartSweep, MayRun, parks, Begins
  <2>6. ParkLandsLast'
    BY <1>11, <2>1 DEF StartSweep, MayRun, parks, Begins
  <2>7. AbortParkLands'
    BY <1>11, <2>1 DEF StartSweep, MayRun, parks, Begins
  <2> QED BY <2>2, <2>3, <2>4, <2>5, <2>6, <2>7
<1>12. CASE NextTemperature
  <2>1. MovesTo("sweep", "asks") /\ want' \in [Writers -> SPs]
    BY <1>12, AsksMoves DEF NextTemperature, parks, HeatTypeOK, Begins
  <2>2. HeatTypeOK'
    BY <1>12, <2>1 DEF NextTemperature, parks
  <2>3. Locked'
    BY <1>12, <2>1 DEF NextTemperature, parks
  <2>4. Ordered'
    BY <1>12, <2>1 DEF NextTemperature, parks
  <2>5. Released'
    BY <1>12, <2>1 DEF NextTemperature, parks
  <2>6. ParkLandsLast'
    BY <1>12, <2>1 DEF NextTemperature, parks
  <2>7. AbortParkLands'
    BY <1>12, <2>1 DEF NextTemperature, parks
  <2> QED BY <2>2, <2>3, <2>4, <2>5, <2>6, <2>7
<1>13. CASE AbortSweep
  BY <1>13 DEF AbortSweep, writers, parks
<1>14. CASE HoldEnds("sweep")
  <2>1. MovesTo("sweep", "finally") /\ want' \in [Writers -> SPs]
    BY <1>14, GoesMoves DEF HoldEnds, parks, HeatTypeOK, Begins
  <2>2. HeatTypeOK'
    BY <1>14, <2>1 DEF HoldEnds, parks
  <2>3. Locked'
    BY <1>14, <2>1 DEF HoldEnds, parks
  <2>4. Ordered'
    BY <1>14, <2>1 DEF HoldEnds, parks
  <2>5. Released'
    BY <1>14, <2>1 DEF HoldEnds, parks
  <2>6. ParkLandsLast'
    BY <1>14, <2>1 DEF HoldEnds, parks
  <2>7. AbortParkLands'
    BY <1>14, <2>1 DEF HoldEnds, parks
  <2> QED BY <2>2, <2>3, <2>4, <2>5, <2>6, <2>7
<1>15. CASE RestoreAmbient
  <2>1. MovesTo("sweep", "asks") /\ want' \in [Writers -> SPs]
    BY <1>15, AsksMoves DEF RestoreAmbient, parks, HeatTypeOK, Begins
  <2>2. HeatTypeOK'
    BY <1>15, <2>1 DEF RestoreAmbient, parks
  <2>3. Locked'
    BY <1>15, <2>1 DEF RestoreAmbient, parks
  <2>4. Ordered'
    BY <1>15, <2>1 DEF RestoreAmbient, parks
  <2>5. Released'
    BY <1>15, <2>1 DEF RestoreAmbient, parks
  <2>6. ParkLandsLast'
    BY <1>15, <2>1 DEF RestoreAmbient, parks
  <2>7. AbortParkLands'
    BY <1>15, <2>1 DEF RestoreAmbient, parks
  <2> QED BY <2>2, <2>3, <2>4, <2>5, <2>6, <2>7
<1>16. CASE ParkWindow
  <2>1. MovesTo("park", "asks") /\ want' \in [Writers -> SPs]
    BY <1>16, AsksMoves DEF ParkWindow, HeatTypeOK, Begins
  <2> QED BY <1>16, <2>1 DEF ParkWindow, Begins
<1>17. CASE AbortCampaign
  BY <1>17 DEF AbortCampaign, writers
<1>18. CASE ParkAborted
  <2>1. MovesTo("park", "asks") /\ want' \in [Writers -> SPs]
    BY <1>18, AsksMoves DEF ParkAborted, AbortPending, ReleaseStop, parks, HeatTypeOK, Begins
  <2> QED BY <1>18, <2>1 DEF ParkAborted, AbortPending, ReleaseStop, parks, Begins
<1>19. CASE ParkFault
  <2>1. MovesTo("park", "asks") /\ want' \in [Writers -> SPs]
    BY <1>19, AsksMoves DEF ParkFault, AbortPending, HeatTypeOK, Begins
  <2> QED BY <1>19, <2>1 DEF ParkFault, AbortPending, Begins
<1> QED BY <1>1, <1>2, <1>3, <1>4, <1>5, <1>6, <1>7, <1>8, <1>9, <1>10, <1>11, <1>12, <1>13, <1>14, <1>15, <1>16, <1>17, <1>18, <1>19
        DEF HeatNext

\* The invariant of the heater.
LEMMA HeatHolds == HeatSpec => []HeatInv
<1>1. HeatInv /\ UNCHANGED heatvars => HeatInv'
  BY DEF HeatInv, HeatTypeOK, Locked, Ordered, Released, ParkLandsLast, AbortParkLands,
         Untold, heatvars, writers, parks
<1> QED BY <1>1, HeatStarts, Steps, PTL DEF HeatSpec

\* HeatTypeOK is an invariant: in particular `since` never mixes "nobody parked" with the
\* writers it names, and `shut` only holds causes of parks.
THEOREM HeatTyped == HeatSpec => []HeatTypeOK
BY HeatHolds, PTL DEF HeatInv

\* ParkLandsLast is an invariant: once a park's setpoint is written no ramp of a window,
\* and nothing at all of a campaign, writes another (_sp_write_lock and the ramp's second
\* look at its cancel event; the park sited after the trial).
THEOREM ParkLandsLastHolds == HeatSpec => []ParkLandsLast
BY HeatHolds, PTL DEF HeatInv

\* AbortParkLands is an invariant: the park of an aborted campaign finds _stop_wait
\* released (_release_stop_wait before _park).
THEOREM AbortParkLandsHolds == HeatSpec => []AbortParkLands
BY HeatHolds, PTL DEF HeatInv

--------------------------------------------------------------------------------
(* The humidifier.                                                         *)

CallTyped ==
  /\ call \in [Callers -> [what : {"none", "set", "start", "stop", "dry", "disconnect"},
                           at : {"return", "set", "start", "spawn", "mark", "stop", "dry",
                                 "disconnect", "join", "zero", "dryDuty", "close"}]]
  /\ \A c \in Callers :
       /\ call[c].at \in {"start", "spawn", "mark"} => call[c].what = "start"
       /\ call[c].at \in {"zero", "dryDuty"} => call[c].what = "dry"
       /\ call[c].what = "dry" => c = Parker

HumidTyped ==
  /\ CallTyped
  /\ loop \in [Loops -> {"none", "top", "read", "send", "exit"}]
  /\ duty \in [Loops -> {"dry", "wet"}]
  /\ handle \in Loops \cup {NoLoop} /\ wedged \subseteq Loops
  /\ wire \in {"off", "dry", "wet"} /\ exitDuty \in {"off", "dry"}
  /\ running \in BOOLEAN /\ excused \in BOOLEAN /\ parked \in {"no", "parking", "yes"}

\* A loop that can be stopped is known to be running, but while it is being started.
HandleKnown == handle # NoLoop => running \/ \E c \in Callers : call[c].at = "mark"

\* Past the stop of a park.
Stopped == parked = "yes" \/ call[Parker].at \in {"zero", "dryDuty"}

\* What a park that has no excuse knows: nobody starts a loop before saying so, the only
\* loop is the one a stop will find, and past the stop there is none and nothing wet.
ParkKnown ==
  (parked # "no" /\ ~excused) =>
    /\ \A c \in Starting : call[c].at = "set"
    /\ Alive \subseteq {handle}
    /\ Stopped => Alive = {}
    /\ parked = "yes" => wire # "wet"

HumidInv == HumidTyped /\ HandleKnown /\ ParkKnown

\* No loop, nothing parked.
LEMMA HumidStarts == HumidInit => HumidInv
<1> SUFFICES ASSUME HumidInit PROVE HumidInv
  OBVIOUS
<1>1. HumidTyped
  BY DEF HumidInit, HumidTyped, CallTyped, AtRest
<1>2. HandleKnown /\ ParkKnown
  BY DEF HumidInit, HandleKnown, ParkKnown
<1> QED BY <1>1, <1>2 DEF HumidInv

\* A loop's own steps and what happens to it: it only ever ends, and only a loop that is
\* alive sends.
LEMMA LoopsEnd ==
  ASSUME HumidInv, NEW l \in Loops, LoopStep(l) \/ Wedge(l) \/ Unwedge(l)
  PROVE  HumidInv'
<1> USE DEF HumidInv, HumidTyped
<1>1. UNCHANGED <<handle, running, exitDuty, call, parked, excused>>
  BY DEF LoopStep, Wake, Compute, SkipTick, Send, LeaveLoop, Wedge, Unwedge, flags
<1>2. /\ loop' \in [Loops -> {"none", "top", "read", "send", "exit"}] /\ wedged' \subseteq Loops
      /\ duty' \in [Loops -> {"dry", "wet"}]
  BY DEF LoopStep, Wake, Compute, SkipTick, Send, LeaveLoop, Wedge, Unwedge
<1>3. Alive' \subseteq Alive
  BY DEF LoopStep, Wake, Compute, SkipTick, Send, LeaveLoop, Wedge, Unwedge, Alive
<1>4. wire' \in {"off", "dry", "wet"} /\ (wire' # wire => l \in Alive)
  BY DEF LoopStep, Wake, Compute, SkipTick, Send, LeaveLoop, Sent, Wedge, Unwedge, Alive
<1>5. HumidTyped' /\ HandleKnown'
  BY <1>1, <1>2, <1>4 DEF CallTyped, HandleKnown
<1>6. ParkKnown'
  BY <1>1, <1>3, <1>4 DEF ParkKnown, Stopped, Starting
<1> QED BY <1>5, <1>6

\* A call goes on to its next statement, or returns.
LEMMA CallMoves ==
  ASSUME CallTyped, NEW c \in Callers
  PROVE  /\ \A to : GoesOn(c, to) =>
               /\ call'[c].at = to /\ call'[c].what = call[c].what
               /\ \A d \in Callers \ {c} : call'[d] = call[d]
         /\ Returns(c) => /\ call'[c] = AtRest /\ \A d \in Callers \ {c} : call'[d] = call[d]
BY DEF CallTyped, GoesOn, Returns

\* What is typed of the calls stays so.
LEMMA CallsTyped ==
  ASSUME CallTyped, NEW c \in Callers
  PROVE  /\ \A to \in {"start", "spawn", "mark"} :
               GoesOn(c, to) /\ call[c].what = "start" => CallTyped'
         /\ \A to \in {"zero", "dryDuty"} : GoesOn(c, to) /\ call[c].what = "dry" => CallTyped'
         /\ \A to \in {"join", "close"} : GoesOn(c, to) => CallTyped'
         /\ Returns(c) => CallTyped'
BY DEF CallTyped, GoesOn, Returns, AtRest

\* Nobody alive and nobody to be stopped.
LEMMA NothingLeft ==
  ASSUME HumidInv, ~running, parked # "no", ~excused
  PROVE  Alive = {}
<1>1. \A c \in Callers : call[c].at # "mark"
  <2> SUFFICES ASSUME NEW c \in Callers, call[c].at = "mark" PROVE FALSE
    OBVIOUS
  <2>1. c \in Starting
    BY DEF HumidInv, HumidTyped, CallTyped, Starting
  <2> QED BY <2>1 DEF HumidInv, ParkKnown
<1>2. handle = NoLoop
  BY <1>1 DEF HumidInv, HandleKnown
<1> QED BY <1>2, LoopAssumption DEF HumidInv, ParkKnown, Alive

\* A call that begins: a park begins with the loop it will stop, or with an excuse.
LEMMA BeginKeeps ==
  ASSUME HumidInv, Calls
  PROVE  HumidInv'
<1> USE DEF HumidInv, HumidTyped
<1>1. PICK c \in Callers, what \in {"set", "start", "stop", "dry", "disconnect"},
           first \in {"set", "start", "stop", "dry", "disconnect"} :
        /\ Begin(c, what, first) /\ (what \in {"dry", "disconnect"} <=> c = Parker)
        /\ first = what \/ (what = "start" /\ first = "set")
  BY LoopAssumption DEF Calls
<1>2. /\ UNCHANGED <<handle, running, exitDuty, loop, duty, wedged, wire>>
      /\ call[c] = AtRest /\ \A d \in Callers \ {c} : call'[d] = call[d]
      /\ call'[c] = [what |-> what, at |-> first]
      /\ parked' = (IF what = "dry" THEN "parking" ELSE parked)
      /\ excused' = (IF what = "dry" THEN Starting # {} \/ Alive \ {handle} # {}
                     ELSE excused \/ (parked # "no" /\ first = "start"))
  BY <1>1 DEF Begin, flags, loops, CallTyped
<1>3. CallTyped'
  BY <1>1, <1>2 DEF CallTyped, Begin
<1>4. HumidTyped'
  BY <1>2, <1>3
<1>5. HandleKnown'
  BY <1>2 DEF HandleKnown, AtRest
<1>6. Alive' = Alive /\ \A d \in Starting' : d \in Starting \/ call'[d].at \in {"set", first}
  BY <1>1, <1>2 DEF Alive, Starting
<1>7. CASE what = "dry"
  <2>1. c = Parker /\ parked' = "parking" /\ call'[Parker].at = "dry" /\ c \notin Starting'
    BY <1>1, <1>2, <1>7 DEF Starting
  <2>2. ~Stopped'
    BY <2>1 DEF Stopped
  <2>3. ~excused' => Starting = {} /\ Alive \subseteq {handle}
    BY <1>2, <1>7
  <2>4. Starting' \subseteq Starting
    BY <1>2, <2>1 DEF Starting
  <2> QED BY <1>2, <1>4, <1>5, <1>6, <2>1, <2>2, <2>3, <2>4 DEF ParkKnown
<1>8. CASE what # "dry"
  <2>1. /\ parked' = parked /\ (excused => excused')
        /\ (parked # "no" /\ ~excused') => first # "start"
    BY <1>2, <1>8
  <2>4. Stopped' => Stopped
    <3>1. CASE c = Parker
      <4>1. what = "disconnect" /\ call'[Parker].at = what
        BY <1>1, <1>2, <1>8, <3>1
      <4> QED BY <2>1, <4>1 DEF Stopped
    <3>2. CASE c # Parker
      <4>1. call'[Parker] = call[Parker]
        BY <1>2, <3>2, LoopAssumption
      <4> QED BY <2>1, <4>1 DEF Stopped
    <3> QED BY <3>1, <3>2
  <2>3. (parked # "no" /\ ~excused') => \A d \in Starting' : call'[d].at = "set"
    <3> SUFFICES ASSUME parked # "no", ~excused', NEW d \in Starting' PROVE call'[d].at = "set"
      OBVIOUS
    <3>1. CASE d = c
      BY <1>1, <1>2, <2>1, <3>1 DEF Starting
    <3>2. CASE d # c
      BY <1>2, <2>1, <3>2 DEF ParkKnown, Starting
    <3> QED BY <3>1, <3>2
  <2> QED BY <1>2, <1>4, <1>5, <1>6, <2>1, <2>3, <2>4 DEF ParkKnown
<1> QED BY <1>7, <1>8

\* Starting a loop: a target ends every park, and the rest happens under an excuse.
LEMMA StartKeeps ==
  ASSUME HumidInv, NEW c \in Callers,
         SetTarget(c) \/ StartReturns(c) \/ ClearStop(c) \/ Spawn(c) \/ Mark(c)
  PROVE  HumidInv'
<1> USE DEF HumidInv, HumidTyped
<1>1. CASE SetTarget(c)
  <2>1. parked' = "no" /\ excused' = FALSE
        /\ UNCHANGED <<handle, running, exitDuty, loop, duty, wedged, wire>>
    BY <1>1 DEF SetTarget, flags, loops
  <2>2. CallTyped'
    BY <1>1, CallsTyped DEF SetTarget
  <2>3. HandleKnown'
    BY <1>1, <2>1, CallMoves DEF SetTarget, Calling, HandleKnown
  <2> QED BY <2>1, <2>2, <2>3 DEF ParkKnown
<1>2. CASE StartReturns(c) \/ ClearStop(c) \/ Spawn(c) \/ Mark(c)
  <2>1. call[c].at \in {"start", "spawn", "mark"} /\ call[c].what = "start" /\ c \in Starting
    BY <1>2 DEF StartReturns, ClearStop, Spawn, Mark, Calling, CallTyped, Starting
  <2>2. parked = "no" \/ excused
    BY <2>1 DEF ParkKnown
  <2>3. UNCHANGED <<parked, excused, wire, wedged, duty, exitDuty>>
    BY <1>2 DEF StartReturns, ClearStop, Spawn, Mark, flags, loops
  <2>4. CallTyped'
    BY <1>2, <2>1, CallsTyped DEF StartReturns, ClearStop, Spawn, Mark
  <2>5. /\ loop' \in [Loops -> {"none", "top", "read", "send", "exit"}]
        /\ handle' \in Loops \cup {NoLoop} /\ running' \in BOOLEAN
    <3>1. CASE Spawn(c)
      <4>1. Loops \ Alive # {}
        BY <3>1 DEF Spawn, Alive
      <4>2. (CHOOSE l \in Loops \ Alive : TRUE) \in Loops
        BY <4>1
      <4> QED BY <3>1, <4>2 DEF Spawn
    <3>2. CASE StartReturns(c) \/ ClearStop(c) \/ Mark(c)
      BY <3>2 DEF StartReturns, ClearStop, Mark, flags, loops
    <3> QED BY <1>2, <3>1, <3>2
  <2>6. HandleKnown'
    BY <1>2, CallMoves DEF StartReturns, ClearStop, Spawn, Mark, Calling, HandleKnown, flags
  <2>7. ParkKnown'
    BY <2>2, <2>3 DEF ParkKnown
  <2> QED BY <2>3, <2>4, <2>5, <2>6, <2>7
<1> QED BY <1>1, <1>2

\* Stopping a loop: past the stop it is gone, or wedged and an excuse.
LEMMA StopKeeps ==
  ASSUME HumidInv, NEW c \in Callers, StopReturns(c) \/ AskStop(c) \/ Joined(c)
  PROVE  HumidInv'
<1> USE DEF HumidInv, HumidTyped
<1>1. UNCHANGED <<loop, duty, wedged, wire, parked>>
  BY DEF StopReturns, AskStop, Joined, loops
<1>2. CallTyped'
  BY CallsTyped DEF StopReturns, AskStop, Joined, AfterStop
<1>3. /\ call[c].at \in Stops \cup {"join"} /\ call'[c].what \in {call[c].what, "none"}
      /\ call'[c].at \in {"join", "zero", "close", "return"}
      /\ \A d \in Callers \ {c} : call'[d] = call[d]
  BY CallMoves DEF StopReturns, AskStop, Joined, AfterStop, Calling, AtRest
<1>4. HumidTyped' /\ excused' \in {excused, TRUE} /\ (excused => excused')
  BY <1>1, <1>2 DEF StopReturns, AskStop, Joined, flags
<1>5. HandleKnown'
  BY <1>3 DEF StopReturns, AskStop, Joined, flags, HandleKnown, Stops
<1>6. CASE parked = "no" \/ excused'
  BY <1>1, <1>4, <1>5, <1>6 DEF ParkKnown
<1>7. CASE parked # "no" /\ ~excused'
  <2>1. parked # "no" /\ ~excused /\ Alive' = Alive /\ Alive \subseteq {handle}
    BY <1>1, <1>4, <1>7 DEF ParkKnown, Alive
  <2>2. \A d \in Starting' : call'[d].at = "set"
    <3> SUFFICES ASSUME NEW d \in Starting' PROVE call'[d].at = "set"
      OBVIOUS
    <3>1. d # c
      <4> SUFFICES ASSUME d = c PROVE FALSE
        OBVIOUS
      <4>1. call[c].what = "start"
        BY <1>3 DEF Starting
      <4>2. call[c].at = "set"
        BY <2>1, <4>1 DEF ParkKnown, Starting
      <4> QED BY <1>3, <4>2 DEF Stops
    <3> QED BY <1>3, <2>1, <3>1 DEF ParkKnown, Starting
  <2>3. CASE StopReturns(c)
    <3>1. Alive = {} /\ handle' = handle
      BY <2>1, <2>3, NothingLeft DEF StopReturns, flags
    <3> QED BY <1>1, <1>4, <1>5, <2>1, <2>2, <3>1 DEF ParkKnown
  <2>4. CASE AskStop(c)
    <3>1. handle' = handle /\ call'[c].at = "join"
      BY <2>4, CallMoves DEF AskStop, flags
    <3>2. Stopped' => Stopped
      <4>1. CASE c = Parker
        BY <1>1, <3>1, <4>1 DEF Stopped
      <4>2. CASE c # Parker
        <5>1. call'[Parker] = call[Parker]
          BY <1>3, <4>2, LoopAssumption
        <5> QED BY <1>1, <5>1 DEF Stopped
      <4> QED BY <4>1, <4>2
    <3> QED BY <1>1, <1>4, <1>5, <2>1, <2>2, <3>1, <3>2 DEF ParkKnown
  <2>5. CASE Joined(c)
    <3>1. handle \notin Alive
      <4> SUFFICES ASSUME handle \in Alive PROVE FALSE
        OBVIOUS
      <4>1. handle # NoLoop /\ loop[handle] # "none"
        BY LoopAssumption DEF Alive
      <4>2. handle \in wedged
        BY <2>5, <4>1 DEF Joined
      <4>3. excused'
        BY <2>5, <4>2 DEF Joined
      <4> QED BY <1>7, <4>3
    <3>2. Alive = {}
      BY <2>1, <3>1
    <3> QED BY <1>1, <1>4, <1>5, <2>1, <2>2, <3>2 DEF ParkKnown
  <2> QED BY <2>3, <2>4, <2>5
<1> QED BY <1>6, <1>7

\* The end of a park, and of a disconnect.
LEMMA DryKeeps ==
  ASSUME HumidInv, NEW c \in Callers, ZeroTarget(c) \/ DryDuty(c) \/ ClosePort(c)
  PROVE  HumidInv'
<1> USE DEF HumidInv, HumidTyped
<1>1. UNCHANGED <<loop, duty, wedged, handle, running, exitDuty>> /\ Alive' = Alive
  BY DEF ZeroTarget, DryDuty, ClosePort, loops, flags, Alive
<1>2. CallTyped'
  BY CallsTyped DEF ZeroTarget, DryDuty, ClosePort, Calling, CallTyped
<1>3. /\ call[c].at \in {"zero", "dryDuty", "close"} /\ call'[c].what \in {call[c].what, "none"}
      /\ call'[c].at \in {"dryDuty", "return"}
      /\ \A d \in Callers \ {c} : call'[d] = call[d]
  BY CallMoves DEF ZeroTarget, DryDuty, ClosePort, Calling, AtRest
<1>4. HandleKnown'
  BY <1>1, <1>3 DEF HandleKnown
<1>5. (parked # "no" /\ ~excused) => \A d \in Starting' : call'[d].at = "set"
  <2> SUFFICES ASSUME parked # "no", ~excused, NEW d \in Starting' PROVE call'[d].at = "set"
    OBVIOUS
  <2>1. CASE d = c
    BY <1>3, <2>1 DEF ParkKnown, Starting
  <2>2. CASE d # c
    BY <1>3, <2>2 DEF ParkKnown, Starting
  <2> QED BY <2>1, <2>2
<1>6. CASE ZeroTarget(c) \/ ClosePort(c)
  <2>1. UNCHANGED <<wire, parked, excused>>
    BY <1>6 DEF ZeroTarget, ClosePort, flags
  <2>2. Stopped' => Stopped
    <3>1. CASE ZeroTarget(c)
      BY <3>1 DEF ZeroTarget, Calling, CallTyped, Stopped
    <3>2. CASE ClosePort(c)
      <4>1. c = Parker => call'[Parker].at = "return"
        BY <3>2, CallMoves DEF ClosePort, AtRest
      <4>2. c # Parker => call'[Parker] = call[Parker]
        BY <1>3, LoopAssumption
      <4> QED BY <2>1, <4>1, <4>2 DEF Stopped
    <3> QED BY <1>6, <3>1, <3>2
  <2> QED BY <1>1, <1>2, <1>4, <1>5, <2>1, <2>2 DEF ParkKnown
<1>7. CASE DryDuty(c)
  <2>1. c = Parker /\ Stopped
    BY <1>7 DEF DryDuty, Calling, CallTyped, Stopped
  <2>2. \/ wire' = "dry" /\ parked' = (IF parked = "parking" THEN "yes" ELSE parked)
        \/ wire' = wire /\ parked' = "no"
    BY <1>7 DEF DryDuty
  <2>3. excused' = (parked' = "yes" /\ excused)
    BY <1>7 DEF DryDuty
  <2>4. HumidTyped'
    BY <1>1, <1>2, <2>2, <2>3
  <2>5. (parked' # "no" /\ ~excused') => parked # "no" /\ ~excused /\ wire' = "dry"
    BY <2>2, <2>3
  <2> QED BY <1>1, <1>4, <1>5, <2>1, <2>4, <2>5 DEF ParkKnown
<1> QED BY <1>6, <1>7

\* Every step of the loops, of the calls and of the Trinket's deadman.
LEMMA HumidKept == HumidInv /\ [HumidNext]_hvars => HumidInv'
<1> SUFFICES ASSUME HumidInv, [HumidNext]_hvars PROVE HumidInv'
  OBVIOUS
<1>1. CASE UNCHANGED hvars \/ Deadman
  <2>1. UNCHANGED <<loop, duty, wedged, handle, running, exitDuty, call, parked, excused>>
        /\ wire' \in {wire, "off"}
    BY <1>1 DEF hvars, Deadman, flags, loops
  <2>2. HumidTyped' /\ HandleKnown'
    BY <2>1 DEF HumidInv, HumidTyped, CallTyped, HandleKnown
  <2>3. ParkKnown'
    BY <2>1 DEF HumidInv, ParkKnown, Stopped, Starting, Alive
  <2> QED BY <2>2, <2>3 DEF HumidInv
<1>2. CASE Calls
  BY <1>2, BeginKeeps
<1>3. ASSUME NEW c \in Callers, CallStep(c) PROVE HumidInv'
  BY <1>3, StartKeeps, StopKeeps, DryKeeps DEF CallStep
<1> QED BY <1>1, <1>2, <1>3, LoopsEnd DEF HumidNext, Device

\* Nothing wet reaches the chamber after a park that nothing excuses, however many threads
\* there are, call the controller, wedge or lose a write (safe_dry).
THEOREM DryAfterParkHolds == HumidSpec => []DryAfterPark
<1>1. HumidInv => DryAfterPark
  BY DEF HumidInv, ParkKnown, DryAfterPark
<1> QED BY <1>1, HumidStarts, HumidKept, PTL DEF HumidSpec

--------------------------------------------------------------------------------
(* The night.                                                              *)

\* At work nobody restores, only the setpoint in hand is being written, and there is one;
\* a setpoint that was left behind is counted until its thread ends.
AtWork ==
  /\ doing \in Work \cup {"connect"} =>
       /\ ~cut /\ reached < Points /\ thread["restore"] = "idle"
       /\ doing # "heat" => thread["heat"] = "idle"
  /\ thread["heat"] # "idle" => reached < Points

\* Once the restore has the controller's lock, nothing else writes any more.
OneWriter ==
  \/ cut
  \/ /\ doing \in {"dry", "disconnect", "shutdown", "over"} =>
          thread["heat"] = "idle" /\ thread["restore"] = "idle"
     /\ doing = "restore" =>
          /\ thread["heat"] \in {"idle", "runs"}
          /\ thread["restore"] # "asks" => thread["heat"] = "idle"

\* Where the chamber has been sent, and who knows.
SentBack ==
  \/ cut
  \/ /\ doing = "connect" \/ (doing = "restore" /\ thread["restore"] = "done") =>
          chamber = Ambient
     /\ doing = "dry" => chamber = Ambient \/ problems
     /\ doing \in {"disconnect", "shutdown", "over"} => chamber = Ambient \/ "check" \in told

NightInv == ChTypeOK /\ AtWork /\ OneWriter /\ SentBack

\* How far the thread of a call can be.
Far == {"idle", "asks", "runs", "done", "failed"}

\* Nothing written, nobody told.
LEMMA NightStarts == ChInit => NightInv
<1> SUFFICES ASSUME ChInit PROVE NightInv
  OBVIOUS
<1>1. ChTypeOK
  <2>1. thread \in [Awaited -> Far] /\ told \subseteq {"restored", "check"}
    BY DEF ChInit, Far
  <2>2. chamber \in 0..Points /\ reached \in 0..Points /\ rounds \in 0..Ceiling
        /\ presses \in 0..Presses /\ faults \in 0..Faults
    BY RunAssumption DEF ChInit, Ambient
  <2> QED BY <2>1, <2>2 DEF ChInit, ChTypeOK, Far
<1>2. "heat" \in Awaited /\ "restore" \in Awaited
  BY DEF Awaited, Work
<1>3. AtWork /\ OneWriter /\ SentBack
  BY <1>2, RunAssumption DEF ChInit, AtWork, OneWriter, SentBack
<1> QED BY <1>1, <1>3 DEF NightInv

--------------------------------------------------------------------------------
(* The threads and the run keep their types, whatever they may straddle.   *)

\* What holds whatever a press may straddle.
Typed == ChTypeOK /\ AtWork

\* The setpoints are calls that are awaited.
LEMMA SetpointsAwaited ==
  SetpointCalls \subseteq Awaited /\ Work \subseteq Awaited
  /\ "heat" \in Awaited /\ "restore" \in Awaited
BY DEF SetpointCalls, Awaited, Work

\* A thread that moves on leaves the others where they are.
LEMMA MovesKeepThreads ==
  ASSUME ChTypeOK, NEW to, MovesOn(to)
  PROVE  /\ doing' = to /\ thread' \in [Awaited -> Far]
         /\ \A c \in Awaited : c # to => thread'[c] = Left[c]
         /\ to \in SetpointCalls => thread'[to] = "asks"
<1>1. Left \in [Awaited -> Far]
  BY DEF ChTypeOK, Left, Far
<1>2. CASE to \notin Awaited
  BY <1>1, <1>2, SetpointsAwaited DEF MovesOn
<1>3. CASE to \in Awaited
  <2> DEFINE far == IF to \in SetpointCalls THEN "asks" ELSE "runs"
  <2>1. thread' = [Left EXCEPT ![to] = far] /\ doing' = to
    BY <1>3 DEF MovesOn
  <2>2. far \in Far /\ (to \in SetpointCalls => far = "asks")
    BY DEF Far
  <2> HIDE DEF far
  <2> QED BY <1>1, <1>3, <2>1, <2>2
<1> QED BY <1>2, <1>3

\* The types of what a call does on its thread.
LEMMA ThreadKeepsTypes ==
  ASSUME Typed, NEW c \in Awaited, ThreadStep(c)
  PROVE  /\ Typed' /\ doing' = doing /\ \A d \in Awaited : d # c => thread'[d] = thread[d]
         /\ thread[c] # "idle" /\ thread'[c] # "asks"
<1>1. PICK to \in Far \ {"asks"} : thread' = [thread EXCEPT ![c] = to]
  BY DEF ThreadStep, TakePort, Ends, CallFails, Result, Turns, Far
<1>2. thread \in [Awaited -> Far] /\ thread' \in [Awaited -> Far]
  BY <1>1 DEF Typed, ChTypeOK, Far
<1>3. /\ thread[c] # "idle" /\ UNCHANGED <<doing, reached, rounds, humid, unrestored, problems, told, raised, cut, presses>>
  BY DEF ThreadStep, TakePort, Ends, CallFails, ThreadOnly
<1>4. \A d \in Awaited : thread'[d] # "idle" => thread[d] # "idle"
  BY <1>1, <1>2, <1>3
<1>5. AtWork'
  BY <1>3, <1>4, SetpointsAwaited DEF Typed, AtWork
<1>6. c \in SetpointCalls => Goal(c) \in 0..Points
  BY <1>3, RunAssumption DEF Typed, AtWork, ChTypeOK, Goal, Ambient, SetpointCalls
<1>7. chamber' \in 0..Points
  BY <1>6 DEF ThreadStep, TakePort, Ends, CallFails, Typed, ChTypeOK
<1>8. faults' \in 0..Faults
  <2>1. faults' = faults \/ (faults < Faults /\ faults' = faults + 1)
    BY DEF ThreadStep, TakePort, Ends, CallFails
  <2> QED BY <2>1, RunAssumption DEF Typed, ChTypeOK
<1>9. ChTypeOK'
  BY <1>2, <1>3, <1>7, <1>8 DEF Typed, ChTypeOK, Far
<1> QED BY <1>1, <1>2, <1>3, <1>5, <1>9 DEF Typed


\* What leaving a call does to the setpoint's threads.
LEMMA MovesKeepWriters ==
  ASSUME ChTypeOK, NEW to, MovesOn(to)
  PROVE  /\ \A w \in {"heat", "restore"} : w # to =>
              thread'[w] = IF thread[w] \in {"done", "failed"} THEN "idle" ELSE thread[w]
         /\ to \in {"heat", "restore"} => thread'[to] = "asks"
BY MovesKeepThreads, SetpointsAwaited DEF Left, SetpointCalls

\* The types of what the run does between its calls.
LEMMA RunKeepsTypes ==
  ASSUME Typed, Connect \/ RunStep \/ Interrupt \/ InterruptClosing
  PROVE  Typed'
<1> USE DEF Typed, ChTypeOK
<1>1. /\ thread' \in [Awaited -> Far] /\ doing' \in Awaited \cup {"connect", "disconnect", "shutdown", "over"}
  <2>1. PICK to \in Awaited \cup {"disconnect", "shutdown", "over"} : MovesOn(to)
    BY DEF Connect, RunStep, Interrupt, InterruptClosing, Proceed, RunRaises, Wait, Settle,
           Restore, Dry, Concluded, Disconnect, ShutDown, HandBack, Follows, Awaited, Work, Holds
  <2> QED BY <2>1, MovesKeepThreads
<1>2. /\ chamber' = chamber /\ faults' = faults
      /\ humid' \in BOOLEAN /\ unrestored' \in BOOLEAN /\ problems' \in BOOLEAN
      /\ cut' \in BOOLEAN
      /\ told' \subseteq {"restored", "check"}
      /\ raised' \in {"none", "abort", "error", "interrupt"}
  BY DEF Connect, RunStep, Interrupt, InterruptClosing, Proceed, RunRaises, Wait, Settle,
         Restore, Dry, Concluded, Disconnect, ShutDown, HandBack, RunOnly, TeardownOnly, Announced
<1>3. presses' \in 0..Presses
  <2>1. presses' = presses \/ (presses < Presses /\ presses' = presses + 1)
    BY DEF Connect, RunStep, Interrupt, InterruptClosing, Proceed, RunRaises, Wait, Settle,
           Restore, Dry, Disconnect, ShutDown, RunOnly, TeardownOnly, Pressed
  <2> QED BY <2>1, RunAssumption
<1>4. rounds' \in 0..Ceiling
  <2>1. rounds' = rounds \/ rounds' = 0 \/ (rounds + 1 < Ceiling /\ rounds' = rounds + 1)
    BY DEF Connect, RunStep, Interrupt, InterruptClosing, Proceed, RunRaises, Wait, Settle,
           Restore, Dry, Disconnect, ShutDown, HandBack, RunOnly, TeardownOnly
  <2> QED BY <2>1, RunAssumption
<1>5. AtWork' /\ reached' \in 0..Points
  <2>1. CASE Connect \/ (\E c \in Work : Proceed(c)) \/ Wait
    <3>1. PICK to \in Work : MovesOn(to) /\ UNCHANGED <<cut, reached>>
      BY <2>1 DEF Connect, Proceed, Wait, RunOnly, Follows, Work, Holds
    <3>2. doing \in Work \cup {"connect"} /\ (to = "heat" <=> doing = "connect")
      <4>1. doing' = to
        BY <3>1, MovesKeepThreads
      <4>2. CASE Connect
        BY <4>1, <4>2, MovesKeepThreads DEF Connect
      <4>3. ASSUME NEW c \in Work, Proceed(c)
            PROVE  doing \in Work /\ doing' # "heat"
        BY <4>3, MovesKeepThreads DEF Proceed, Done, Follows, Work, Holds
      <4>4. CASE Wait
        BY <4>1, <4>4, MovesKeepThreads DEF Wait, Done, Work
      <4>5. "connect" \notin Work
        BY DEF Work, Holds
      <4> QED BY <2>1, <4>1, <4>2, <4>3, <4>4, <4>5
    <3>3. thread["heat"] \in {"idle", "done"} /\ thread["restore"] = "idle"
      BY <2>1, <3>2 DEF Connect, Proceed, Wait, Done, AtWork
    <3>4. /\ doing' = to /\ thread'["restore"] = "idle"
          /\ to # "heat" => thread'["heat"] = "idle"
      <4>1. to # "restore"
        BY DEF Work, Holds
      <4> QED BY <3>1, <3>3, <4>1, MovesKeepThreads, MovesKeepWriters
    <3>5. ~cut' /\ reached' < Points
      BY <3>1, <3>2 DEF AtWork
    <3> QED BY <3>1, <3>4, <3>5 DEF AtWork
  <2>2. CASE Settle
    <3>1. /\ doing = "measure" /\ reached' = reached + 1 /\ UNCHANGED cut
          /\ MovesOn(IF reached' < Points THEN "heat" ELSE "restore")
      BY <2>2 DEF Settle, RunOnly, Done
    <3>2. /\ reached < Points /\ ~cut
          /\ thread["restore"] = "idle" /\ thread["heat"] = "idle"
      BY <3>1 DEF AtWork, Work
    <3>3. CASE reached' < Points
      BY <3>1, <3>2, <3>3, MovesKeepThreads, MovesKeepWriters, RunAssumption DEF AtWork
    <3>4. CASE ~(reached' < Points)
      <4>1. MovesOn("restore") /\ reached' \in 0..Points
        BY <3>1, <3>2, <3>4, RunAssumption
      <4>2. doing' = "restore" /\ thread'["heat"] = "idle"
        BY <3>2, <4>1, MovesKeepThreads, MovesKeepWriters
      <4>3. "restore" \notin Work \cup {"connect"}
        BY DEF Work, Holds
      <4> QED BY <4>1, <4>2, <4>3 DEF AtWork
    <3> QED BY <3>3, <3>4
  <2>3. CASE ~(Connect \/ (\E c \in Work : Proceed(c)) \/ Wait \/ Settle)
    <3>1. PICK to \in {"restore", "dry", "disconnect", "shutdown", "over"} :
            MovesOn(to) /\ UNCHANGED reached
      BY <2>3 DEF RunStep, Interrupt, InterruptClosing, RunRaises, Restore, Dry, Concluded, Disconnect,
                  ShutDown, HandBack, TeardownOnly
    <3>2. thread'["heat"] # "idle" => thread["heat"] # "idle"
      BY <3>1, MovesKeepWriters
    <3> QED BY <3>1, <3>2, MovesKeepThreads DEF AtWork, Work, Holds
  <2> QED BY <2>1, <2>2, <2>3
<1> QED BY <1>1, <1>2, <1>3, <1>4, <1>5 DEF Far

\* Every step keeps the types.
LEMMA StepKeepsTypes == Typed /\ [ChNext]_chvars => Typed'
<1> SUFFICES ASSUME Typed, [ChNext]_chvars PROVE Typed'
  OBVIOUS
<1>1. CASE UNCHANGED chvars
  BY <1>1 DEF chvars, Typed, ChTypeOK, AtWork
<1>2. CASE \E c \in Awaited : ThreadStep(c)
  BY <1>2, ThreadKeepsTypes
<1>3. CASE Connect \/ RunStep \/ Interrupt \/ InterruptClosing
  BY <1>3, RunKeepsTypes
<1> QED BY <1>1, <1>2, <1>3 DEF ChNext

--------------------------------------------------------------------------------
(* Where the chamber is sent, when no press comes before a setpoint's thread  *)
(* has the controller's lock.                                                 *)

\* A call that is over has sent the chamber where it was asked to.
LEMMA ThreadKeepsSent ==
  ASSUME NightInv, NEW c \in Awaited, ThreadStep(c)
  PROVE  (OneWriter /\ SentBack)'
<1>1. /\ UNCHANGED <<doing, problems, told, cut>>
      /\ \A d \in Awaited : d # c => thread'[d] = thread[d]
      /\ thread[c] # "idle" /\ thread'[c] # "asks"
  BY ThreadKeepsTypes DEF NightInv, Typed, ThreadStep, TakePort, Ends, CallFails, ThreadOnly
<1>2. CASE cut
  BY <1>1, <1>2 DEF OneWriter, SentBack
<1>3. CASE ~cut /\ c \notin SetpointCalls
  <2>1. /\ thread'["heat"] = thread["heat"] /\ thread'["restore"] = thread["restore"]
        /\ chamber' = chamber
    BY <1>1, <1>3, SetpointsAwaited DEF SetpointCalls, ThreadStep, TakePort, Ends, CallFails
  <2> QED BY <1>1, <2>1 DEF NightInv, OneWriter, SentBack
<1>4. CASE ~cut /\ c = "heat"
  <2>1. thread'["restore"] = thread["restore"] /\ thread["heat"] # "idle"
    BY <1>1, <1>4, SetpointsAwaited
  <2>2. doing = "heat" \/ (doing = "restore" /\ thread["restore"] = "asks")
    BY <1>4, <2>1 DEF NightInv, ChTypeOK, AtWork, OneWriter, Awaited
  <2>3. doing = "restore" => thread'["heat"] \in {"idle", "runs"}
    <3>1. ASSUME doing = "restore" PROVE thread'["heat"] \in {"idle", "runs"}
      BY <1>4, <3>1, SetpointsAwaited
         DEF NightInv, ChTypeOK, ThreadStep, TakePort, Ends, CallFails, Result, Turns
    <3> QED BY <3>1
  <2> QED BY <1>1, <1>4, <2>1, <2>2, <2>3 DEF OneWriter, SentBack
<1>5. CASE ~cut /\ c = "restore"
  <2>1. thread'["heat"] = thread["heat"] /\ thread["restore"] # "idle"
    BY <1>1, <1>5, SetpointsAwaited
  <2>2. doing = "restore"
    BY <1>5, <2>1 DEF NightInv, ChTypeOK, AtWork, OneWriter, Awaited
  <2>3. thread["heat"] = "idle"
    <3>1. CASE TakePort(c)
      BY <1>5, <2>2, <3>1 DEF NightInv, OneWriter, TakePort, SetpointCalls
    <3>2. CASE thread[c] = "runs"
      BY <1>5, <2>2, <3>2 DEF NightInv, OneWriter
    <3> QED BY <3>1, <3>2 DEF ThreadStep, Ends, CallFails
  <2>4. thread'["restore"] = "done" => chamber' = Ambient
    BY <1>5, <2>2, SetpointsAwaited
       DEF NightInv, ChTypeOK, ThreadStep, TakePort, Ends, CallFails, Result, Turns, Goal, SetpointCalls
  <2> QED BY <1>1, <1>5, <2>1, <2>2, <2>3, <2>4 DEF OneWriter, SentBack
<1> QED BY <1>2, <1>3, <1>4, <1>5 DEF SetpointCalls

\* The run goes on to the next piece of its end knowing where the chamber is.
LEMMA RunKeepsSent ==
  ASSUME NightInv, ~Straddles, Connect \/ RunStep \/ Interrupt \/ InterruptClosing
  PROVE  (OneWriter /\ SentBack)'
<1> USE DEF NightInv
<1>1. chamber' = chamber /\ (cut => cut')
  <2>1. CASE Connect \/ RunStep
    <3>1. CASE Connect \/ Wait \/ Settle \/ \E c \in Work : Proceed(c)
      <4>1. RunOnly
        BY <3>1 DEF Connect, Wait, Settle, Proceed
      <4> QED BY <4>1 DEF RunOnly
    <3>2. CASE Restore \/ Dry \/ Disconnect
      BY <3>2 DEF Restore, Dry, Disconnect, TeardownOnly
    <3>3. CASE ShutDown \/ \E c \in Work : RunRaises(c)
      BY <3>3 DEF ShutDown, HandBack, RunRaises
    <3> QED BY <2>1, <3>1, <3>2, <3>3 DEF RunStep
  <2>2. CASE Interrupt \/ InterruptClosing
    BY <2>2 DEF Interrupt, InterruptClosing, HandBack
  <2> QED BY <2>1, <2>2
<1>2. CASE cut'
  BY <1>2 DEF OneWriter, SentBack
<1>3. CASE ~cut' /\ doing' \in Work
  BY <1>3 DEF OneWriter, SentBack, Work, Holds
<1>4. CASE ~cut' /\ doing \in Work /\ doing' \notin Work
  <2>1. MovesOn("restore") /\ thread["heat"] # "asks"
    <3>1. ASSUME NEW c \in Work, Proceed(c) PROVE FALSE
      BY <1>4, <3>1, MovesKeepThreads DEF Proceed, Follows, Work, Holds
    <3>2. ASSUME Wait PROVE FALSE
      BY <1>4, <3>2, MovesKeepThreads DEF Wait, Work, Holds
    <3>3. CASE Settle
      BY <1>4, <3>3, MovesKeepThreads DEF Settle, Done, AtWork, Work
    <3>4. ASSUME NEW c \in Work, RunRaises(c) PROVE MovesOn("restore") /\ thread["heat"] # "asks"
      BY <1>4, <3>4 DEF RunRaises, AtWork
    <3>5. CASE Interrupt
      BY <1>4, <3>5 DEF Interrupt, Work, Holds, AtWork
    <3> QED BY <1>4, <3>1, <3>2, <3>3, <3>4, <3>5
            DEF Connect, RunStep, InterruptClosing, Restore, Dry, Disconnect, ShutDown, Work, Holds
  <2>2. /\ doing' = "restore" /\ thread'["restore"] = "asks"
        /\ thread'["heat"] \in {"idle", "runs"}
    BY <2>1, MovesKeepThreads, MovesKeepWriters, SetpointsAwaited DEF ChTypeOK
  <2> QED BY <2>2 DEF OneWriter, SentBack
<1>5. CASE ~cut' /\ doing = "connect" /\ doing' \notin Work
  <2>1. doing' = "shutdown" /\ MovesOn("shutdown")
    BY <1>5, MovesKeepThreads
       DEF Connect, RunStep, Interrupt, InterruptClosing, Proceed, RunRaises, Wait, Settle,
           Restore, Dry, Disconnect, ShutDown, Done, Work, Holds
  <2>2. thread'["heat"] = "idle" /\ thread'["restore"] = "idle" /\ chamber = Ambient
    BY <1>1, <1>5, <2>1, MovesKeepWriters DEF AtWork, SentBack
  <2> QED BY <1>1, <2>1, <2>2 DEF OneWriter, SentBack
<1>6. CASE ~cut' /\ doing \notin Work \cup {"connect"}
  <2>1. CASE Restore
    <3>1. /\ thread["heat"] = "idle" /\ (thread["restore"] = "done" => chamber = Ambient)
          /\ thread["restore"] \in {"done", "failed"} /\ doing = "restore"
      BY <1>1, <1>6, <2>1 DEF Restore, OneWriter, SentBack
    <3>2. \/ MovesOn("dry") /\ (thread["restore"] = "failed" => problems')
          \/ MovesOn("disconnect") /\ (thread["restore"] = "failed" => "check" \in told')
      BY <2>1 DEF Restore, Concluded, Announced
    <3>3. thread'["heat"] = "idle" /\ thread'["restore"] = "idle"
      BY <3>1, <3>2, MovesKeepWriters
    <3> QED BY <1>1, <3>1, <3>2, <3>3, MovesKeepThreads DEF OneWriter, SentBack
  <2>2. CASE Dry
    <3>1. /\ thread["heat"] = "idle" /\ thread["restore"] = "idle"
          /\ chamber = Ambient \/ problems
      BY <1>1, <1>6, <2>2 DEF Dry, OneWriter, SentBack
    <3>2. MovesOn("disconnect") /\ (problems => "check" \in told')
      BY <2>2 DEF Dry, Concluded, Announced
    <3>3. thread'["heat"] = "idle" /\ thread'["restore"] = "idle"
      BY <3>1, <3>2, MovesKeepWriters
    <3> QED BY <1>1, <3>1, <3>2, <3>3, MovesKeepThreads DEF OneWriter, SentBack
  <2>3. CASE ~(Restore \/ Dry)
    <3>1. /\ doing \in {"disconnect", "shutdown"}
          /\ MovesOn("shutdown") \/ MovesOn("over")
          /\ told \subseteq told'
      BY <1>1, <1>6, <2>3
         DEF Connect, RunStep, Interrupt, InterruptClosing, Proceed, RunRaises, Wait, Settle,
             Disconnect, ShutDown, HandBack, Done, TeardownOnly, Work, Holds
    <3>2. /\ thread["heat"] = "idle" /\ thread["restore"] = "idle"
          /\ chamber = Ambient \/ "check" \in told
      BY <1>1, <1>6, <3>1 DEF OneWriter, SentBack
    <3>3. thread'["heat"] = "idle" /\ thread'["restore"] = "idle"
      BY <3>1, <3>2, MovesKeepWriters
    <3> QED BY <1>1, <3>1, <3>2, <3>3, MovesKeepThreads DEF OneWriter, SentBack
  <2> QED BY <2>1, <2>2, <2>3
<1> QED BY <1>2, <1>3, <1>4, <1>5, <1>6

\* Every step, as long as no press straddles the start of a setpoint's thread.
LEMMA Steady == ASSUME ~Straddles PROVE NightInv /\ [ChNext]_chvars => NightInv'
<1> SUFFICES ASSUME NightInv, [ChNext]_chvars PROVE NightInv'
  OBVIOUS
<1>1. ChTypeOK' /\ AtWork'
  BY StepKeepsTypes DEF NightInv, Typed
<1>2. CASE UNCHANGED chvars
  BY <1>1, <1>2 DEF chvars, NightInv, OneWriter, SentBack
<1>3. CASE \E c \in Awaited : ThreadStep(c)
  BY <1>1, <1>3, ThreadKeepsSent DEF NightInv
<1>4. CASE Connect \/ RunStep \/ Interrupt \/ InterruptClosing
  BY <1>1, <1>4, RunKeepsSent DEF NightInv
<1> QED BY <1>2, <1>3, <1>4 DEF ChNext

--------------------------------------------------------------------------------

\* The run, its threads and what it counts keep their types, wherever it is interrupted
\* and whatever fails (run, _run_setpoint, _run_series).
THEOREM ChTyped == ChSpec => []ChTypeOK
<1>1. ChInit => Typed
  BY NightStarts DEF NightInv, Typed
<1>2. Typed => ChTypeOK
  BY DEF Typed
<1> QED BY <1>1, <1>2, StepKeepsTypes, PTL DEF ChSpec

\* For any number of setpoints, rounds, interrupts and failing calls: when the command is
\* over the heater is at ambient and no write is under way, or the operator was told to
\* look, unless the teardown itself was interrupted (run, _restore_ambient).
THEOREM HandedBackColdHolds == ASSUME ~Straddles PROVE ChSpec => []HandedBackCold
<1>1. NightInv => HandedBackCold
  BY DEF NightInv, OneWriter, SentBack, HandedBackCold, SetpointCalls
<1>2. NightInv /\ [ChNext]_chvars => NightInv'
  BY Steady
<1> QED BY <1>1, <1>2, NightStarts, PTL DEF ChSpec

--------------------------------------------------------------------------------
(* The night's calls, and its way to its end.                              *)

\* A move of the run collects the answer of the call it leaves, and begins the next.
LEMMA MovesLoseNothing ==
  ASSUME ChTypeOK, NoCallLost, NEW to, MovesOn(to)
  PROVE  NoCallLost'
<1>1. Left \in [Awaited -> Far] /\ thread \in [Awaited -> Far]
  BY DEF ChTypeOK, Left, Far
<1>2. \A c \in Awaited : /\ Left[c] \notin {"done", "failed"}
                         /\ Left[c] = "asks" => c \in SetpointCalls
  BY <1>1 DEF Left, NoCallLost
<1>3. doing' = to
  BY DEF MovesOn
<1>4. \A c \in Awaited :
        IF c = to THEN thread'[c] = (IF to \in SetpointCalls THEN "asks" ELSE "runs")
        ELSE thread'[c] = Left[c]
  BY <1>1 DEF MovesOn
<1> QED BY <1>2, <1>3, <1>4 DEF NoCallLost

\* A thread that ends has somebody waiting for its answer, or leaves none.
LEMMA ThreadLosesNothing ==
  ASSUME ChTypeOK, NoCallLost, NEW c \in Awaited, ThreadStep(c)
  PROVE  NoCallLost'
<1>1. doing' = doing
  BY DEF ThreadStep, TakePort, Ends, CallFails, ThreadOnly
<1>2. PICK to \in Far : /\ thread' = [thread EXCEPT ![c] = to] /\ to # "asks"
                        /\ to \in {"done", "failed"} => doing = c
                        /\ to = "idle" => doing # c
  <2>1. CASE TakePort(c)
    BY <2>1 DEF TakePort, Turns, Far
  <2>2. CASE Ends(c) \/ CallFails(c)
    BY <2>2 DEF Ends, CallFails, Result, Turns, Far
  <2> QED BY <2>1, <2>2 DEF ThreadStep
<1>3. thread'[c] = to /\ \A d \in Awaited \ {c} : thread'[d] = thread[d]
  BY <1>2 DEF ChTypeOK
<1> QED BY <1>1, <1>2, <1>3 DEF NoCallLost

\* A run between its calls makes one move.
LEMMA RunMoves ==
  ASSUME Connect \/ RunStep \/ Interrupt \/ InterruptClosing
  PROVE  \E to \in Awaited \cup {"disconnect", "shutdown", "over"} : MovesOn(to)
BY DEF Connect, RunStep, Interrupt, InterruptClosing, Proceed, RunRaises, Wait, Settle,
       Restore, Dry, Concluded, Disconnect, ShutDown, HandBack, Follows, Awaited, Work, Holds

\* Wherever it is interrupted, once, again, or in its teardown, and whatever fails: a night
\* is never left waiting for a call that nobody makes or answers, and the interpreter for no
\* thread but one at work (the safety half of RigHandedBack; run, _teardown, _cmd_run).
THEOREM NoCallLostHolds == ChSpec => []NoCallLost
<1>1. ChInit => Typed /\ NoCallLost
  <2> SUFFICES ASSUME ChInit PROVE NoCallLost
    BY NightStarts DEF NightInv, Typed
  <2>1. doing \notin Awaited
    BY DEF ChInit, Awaited, Work, Holds
  <2> QED BY <2>1 DEF ChInit, NoCallLost
<1>2. Typed /\ NoCallLost /\ [ChNext]_chvars => NoCallLost'
  <2> SUFFICES ASSUME ChTypeOK, NoCallLost, [ChNext]_chvars PROVE NoCallLost'
    BY DEF Typed
  <2>1. CASE \E c \in Awaited : ThreadStep(c)
    BY <2>1, ThreadLosesNothing
  <2>2. CASE Connect \/ RunStep \/ Interrupt \/ InterruptClosing
    BY <2>2, RunMoves, MovesLoseNothing
  <2>3. CASE UNCHANGED chvars
    BY <2>3 DEF chvars, NoCallLost
  <2> QED BY <2>1, <2>2, <2>3 DEF ChNext
<1> QED BY <1>1, <1>2, StepKeepsTypes, PTL DEF ChSpec

\* For any number of setpoints and rounds a night goes on to its end: no move of the run, of
\* its teardown or of an interrupt leads back (run, _run_setpoint, _run_series, _teardown).
THEOREM NightOnwardHolds == ChSpec => NightOnward
<1> DEFINE Onward ==
      \/ reached' > reached
      \/ reached' = reached /\ rounds' > rounds
      \/ UNCHANGED <<reached, rounds>> /\ NightRank' > NightRank
<1>1. Typed /\ [ChNext]_chvars => [Onward]_<<doing, reached, rounds>>
  <2> SUFFICES ASSUME Typed, ChNext PROVE [Onward]_<<doing, reached, rounds>>
    BY DEF chvars
  <2>1. reached \in Nat /\ rounds \in Nat
    BY RunAssumption DEF Typed, ChTypeOK
  <2>2. CASE \E c \in Awaited : ThreadStep(c)
    BY <2>2 DEF ThreadStep, TakePort, Ends, CallFails, ThreadOnly
  <2>3. CASE Wait \/ Settle
    BY <2>1, <2>3 DEF Wait, Settle
  <2>4. CASE \/ Connect \/ \E c \in Work : Proceed(c) \/ RunRaises(c)
             \/ Restore \/ Dry \/ Disconnect \/ ShutDown \/ Interrupt \/ InterruptClosing
    <3>1. UNCHANGED <<reached, rounds>>
      BY <2>4
         DEF Connect, Proceed, RunRaises, Restore, Dry, Disconnect, ShutDown, Interrupt,
             InterruptClosing, HandBack, RunOnly, TeardownOnly
    <3>2. \/ \E c \in Work \ {"measure"} : doing = c /\ doing' = Follows(c)
          \/ /\ doing \in Work \cup {"connect"}
             /\ doing' \in {"restore", "shutdown"} \/ (doing = "connect" /\ doing' = "heat")
          \/ doing = "restore" /\ doing' \in {"dry", "disconnect"}
          \/ doing = "dry" /\ doing' = "disconnect"
          \/ doing = "disconnect" /\ doing' \in {"shutdown", "over"}
          \/ doing = "shutdown" /\ doing' = "over"
      BY <2>4
         DEF Connect, Proceed, Done, RunRaises, Restore, Dry, Concluded, Disconnect, ShutDown,
             Interrupt, InterruptClosing, HandBack, MovesOn
    <3>3. NightRank' > NightRank
      BY <3>2 DEF Follows, NightRank, Work, Holds
    <3> QED BY <3>1, <3>3
  <2> QED BY <2>2, <2>3, <2>4 DEF ChNext, RunStep
<1>2. ChInit => Typed
  BY NightStarts DEF NightInv, Typed
<1> QED BY <1>1, <1>2, StepKeepsTypes, PTL DEF ChSpec, NightOnward
================================================================================
