--------------------------- MODULE CampaignLoopProofs ---------------------------
(***************************************************************************)
(* What the operator can rely on in a campaign of any size: it parks at    *)
(* most once, once it is over no workflow starts, "holding" means still,   *)
(* every well is accounted for and the budget is kept, a well lives once   *)
(* and what was cast has its row or was refused it, and the checkpoint agrees with the       *)
(* counts.  The second and the third need that controls do not land in a   *)
(* plate exchange, which swallows them.                                    *)
(***************************************************************************)
EXTENDS CampaignLoop, FiniteSetTheorems, WellFoundedInduction, TLAPS

\* Neither Pause nor Abort lands while a plate is being exchanged.
Undisturbed == ExchangeControls = {}

\* No control lands while the operator is asked for a plate, and none while its chamber
\* equilibrates if there is no approval after it.
Heeded == "board" \notin ExchangeControls /\ (AutoApprove => "equilibrate" \notin ExchangeControls)

(* Parks.                                                                  *)

\* A park is the last thing that happens but leaving, and it has a reason; an aborted
\* campaign has been parked by the time it has left.
ParksKnown ==
  /\ parks \in {0, 1}
  /\ reason = "none" <=> parks = 0
  /\ parks = 1 => at \in {"leaving", "ended"}
  /\ at = "ended" /\ abortReq => parks = 1

\* A campaign that has not begun was not parked.
LEMMA ParksInit == Init => ParksKnown
BY DEF Init, ParksKnown

\* A failed trial parks a campaign that was not parked, or goes on to the next cycle.
LEMMA FailureParks ==
  ASSUME NEW exc, HandleFailure(exc), ParksKnown, at \notin {"leaving", "ended"}
  PROVE  /\ at' \in {"gate", "leaving"}
         /\ \/ parks' = 1 /\ reason' # "none" /\ at' = "leaving"
            \/ parks' = 0 /\ reason' = "none"
BY DEF HandleFailure, NoteTrialFailure, Park, Goto, ParksKnown, outcome

\* No step parks a second time, and the last one parks what was aborted.
LEMMA ParksStep == ParksKnown /\ [Next]_vars => ParksKnown'
<1> SUFFICES ASSUME ParksKnown, [Next]_vars PROVE ParksKnown'
  OBVIOUS
<1> USE DEF ParksKnown, Goto
<1>1. CASE Run \/ PauseGate \/ Released
  BY <1>1 DEF Run, PauseGate, Released, outcome, controls
<1>2. CASE Cycle
  BY <1>2 DEF Cycle, SwapBoard, outcome, controls
<1>3. CASE BoardTimesOut \/ GateTimesOut
  BY <1>3 DEF BoardTimesOut, GateTimesOut, Park, controls
<1>4. CASE EquilibrationOver \/ GateOpens \/ Place \/ StartTrial
  BY <1>4 DEF EquilibrationOver, GateOpens, Place, StartTrial, outcome, controls
<1>5. CASE \E n \in 0..BatchSize : Suggest(n)
  BY <1>5 DEF Suggest, outcome
<1>6. CASE \E exc \in {"plan", "other"} : BuildFails(exc)
  <2>1. PICK exc : BuildFails(exc)
    BY <1>6
  <2>2. HandleFailure(exc) /\ at = "build"
    BY <2>1 DEF BuildFails
  <2> QED
    BY <2>2, FailureParks
<1>7. CASE TrialRaises
  <2>1. HandleFailure(Wrapped(ending)) /\ at = "trial"
    BY <1>7 DEF TrialRaises
  <2> QED
    BY <2>1, FailureParks
<1>8. CASE \E s \in Casts \cup Others : StartStep(s)
  BY <1>8 DEF StartStep, outcome, controls
<1>9. CASE \/ \E cause \in StepFaults : StepRaises(cause)
           \/ \E how \in {"told", "converged", "untold", "failed"} : CloseWell(how)
  <2>1. UNCHANGED <<at, controls, outcome>>
    BY <1>9 DEF StepRaises, CloseWell
  <2> QED
    BY <2>1 DEF outcome, controls
<1>10. CASE EndStep \/ LoseStep \/ LastStepEnds \/ AbortSeen
  <2>1. UNCHANGED <<at, abortReq, outcome>>
    BY <1>10 DEF EndStep, LoseStep, LastStepEnds, AbortSeen, controls
  <2> QED
    BY <2>1 DEF outcome
<1>11. CASE TrialReturns \/ TrialAborted \/ Settled
  BY <1>11 DEF TrialReturns, TrialAborted, Settled, outcome, controls
<1>12. CASE RoundClosed
  BY <1>12 DEF RoundClosed, Park, outcome, controls
<1>13. CASE Leave
  BY <1>13 DEF Leave, ParkIfAborted, Park, outcome
<1>14. CASE Pause \/ Resume \/ Abort
  BY <1>14 DEF Pause, Resume, Abort, Reachable, Awaits, Exchange, outcome
<1>15. CASE Approve \/ Decline \/ BoardCancelled \/ BoardInstalled
  BY <1>15 DEF Approve, Decline, BoardCancelled, BoardInstalled, outcome, controls
<1>16. CASE UNCHANGED vars
  BY <1>16 DEF vars, outcome, controls
<1> QED
  BY <1>1, <1>2, <1>3, <1>4, <1>5, <1>6, <1>7, <1>8, <1>9, <1>10, <1>11, <1>12, <1>13,
     <1>14, <1>15, <1>16 DEF Next, Proceed, Operate

\* No campaign parks twice, and an aborted one has parked when it ends, wherever the
\* abort landed and whatever failed.
THEOREM ParksOnce == Spec => []ParkedOnce
<1>1. ParksKnown => ParkedOnce
  BY DEF ParksKnown, ParkedOnce
<1> QED
  BY <1>1, ParksInit, ParksStep, PTL DEF Spec

--------------------------------------------------------------------------------
(* Ends and holds, while the exchange of a plate is undisturbed.           *)

\* Where the loop can be once the campaign is over, or is to be.
EndKnown ==
  /\ st \in Terminal => at \in {"leaving", "ended"} \/ (at = "approval" /\ st = "STOPPED")
  /\ abortReq => \/ at \in {"held", "approval", "trial", "settle", "closing", "gate",
                            "cycle", "leaving", "ended"}
                 \/ ~AutoApprove /\ at \in {"equilibrate", "suggest"}

\* Where the loop can be while it has announced that it holds, and while it cannot
\* have been asked to; a step is in flight only in a workflow that is not over.
HoldKnown ==
  /\ pauseReq /\ paused /\ ~abortReq =>
       /\ doing = Nothing /\ ex # "running"
       /\ at \in {"trial", "settle", "closing", "gate", "held", "leaving", "ended"}
  /\ at \in {"cycle", "suggest", "board", "equilibrate"} => ~pauseReq \/ abortReq
  /\ at \notin {"trial", "equilibrate"} => doing = Nothing /\ ex = "none"
  /\ ending # "none" => doing = Nothing

LoopInv == EndKnown /\ HoldKnown

\* A campaign that has not begun neither ends nor holds.
LEMMA LoopInit == Init => LoopInv
BY DEF Init, LoopInv, EndKnown, HoldKnown, Terminal

\* A failed trial goes to the next cycle, or parks and ends the campaign.
LEMMA FailureGoes ==
  ASSUME NEW exc, HandleFailure(exc)
  PROVE  \/ at' = "gate" /\ UNCHANGED st
         \/ at' = "leaving"
BY DEF HandleFailure, NoteTrialFailure, Park, Goto

\* The loop's own steps outside a workflow keep EndKnown and HoldKnown.
LEMMA CycleStep ==
  ASSUME EndKnown,
         \/ Run \/ PauseGate \/ Released \/ Cycle \/ BoardTimesOut
         \/ \E n \in 0..BatchSize : Suggest(n)
         \/ GateOpens \/ GateTimesOut \/ Place \/ StartTrial
         \/ Settled \/ RoundClosed \/ Leave
         \/ \E how \in {"told", "converged", "untold", "failed"} : CloseWell(how)
  PROVE  EndKnown' /\ (HoldKnown => HoldKnown')
<1> USE DEF EndKnown, HoldKnown, Goto, SetState, Terminal
<1>1. CASE Run
  BY <1>1 DEF Run, controls, trial
<1>2. CASE PauseGate
  BY <1>2 DEF PauseGate, trial
<1>3. CASE Released
  BY <1>3 DEF Released, controls, trial
<1>4. CASE Cycle
  BY <1>4 DEF Cycle, SwapBoard, controls, trial
<1>5. CASE BoardTimesOut \/ GateTimesOut
  BY <1>5 DEF BoardTimesOut, GateTimesOut, Park, controls, trial
<1>6. CASE \E n \in 0..BatchSize : Suggest(n)
  BY <1>6 DEF Suggest, trial
<1>7. CASE GateOpens
  BY <1>7 DEF GateOpens, controls, trial
<1>8. CASE Place
  BY <1>8 DEF Place, controls, trial
<1>9. CASE StartTrial
  BY <1>9 DEF StartTrial, Workflow!Begin, controls
<1>10. CASE Settled
  BY <1>10 DEF Settled, controls, trial
<1>11. CASE RoundClosed
  BY <1>11 DEF RoundClosed, Park, controls, trial
<1>12. CASE Leave
  BY <1>12 DEF Leave, ParkIfAborted, Park, trial
<1>13. CASE \E how \in {"told", "converged", "untold", "failed"} : CloseWell(how)
  BY <1>13 DEF CloseWell, controls, trial
<1> QED
  BY <1>1, <1>2, <1>3, <1>4, <1>5, <1>6, <1>7, <1>8, <1>9, <1>10, <1>11, <1>12, <1>13

\* The steps of a workflow, and its end, keep them.
LEMMA TrialStep ==
  ASSUME EndKnown,
         \/ EquilibrationOver
         \/ \E exc \in {"plan", "other"} : BuildFails(exc)
         \/ \E s \in Casts \cup Others : StartStep(s)
         \/ EndStep \/ LoseStep \/ LastStepEnds \/ AbortSeen
         \/ \E cause \in StepFaults : StepRaises(cause)
         \/ TrialReturns \/ TrialAborted \/ TrialRaises
  PROVE  EndKnown' /\ (HoldKnown => HoldKnown')
<1> USE DEF EndKnown, HoldKnown, Goto, SetState, Terminal, Nothing,
            Workflow!Nothing, Workflow!Going, Workflow!Over
<1>1. CASE EquilibrationOver
  BY <1>1 DEF EquilibrationOver, Workflow!Return, controls
<1>2. CASE \E exc \in {"plan", "other"} : BuildFails(exc)
  <2>1. PICK exc : BuildFails(exc)
    BY <1>2
  <2>2. HandleFailure(exc) /\ at = "build" /\ UNCHANGED <<controls, trial>>
    BY <2>1 DEF BuildFails
  <2> QED
    BY <2>2, FailureGoes DEF controls, trial
<1>3. CASE \E s \in Casts \cup Others : StartStep(s)
  BY <1>3 DEF StartStep, Workflow!StartStep, controls
<1>4. CASE EndStep
  BY <1>4 DEF EndStep, Workflow!EndStep, HoldIfQuiescent
<1>5. CASE LoseStep
  BY <1>5 DEF LoseStep, Workflow!EndStep, controls
<1>6. CASE LastStepEnds
  BY <1>6 DEF LastStepEnds, Workflow!Finish
<1>7. CASE AbortSeen
  BY <1>7 DEF AbortSeen, Workflow!SeeAbort, controls
<1>8. CASE \E cause \in StepFaults : StepRaises(cause)
  BY <1>8 DEF StepRaises, Workflow!Raise, controls
<1>9. CASE TrialReturns
  BY <1>9 DEF TrialReturns, Workflow!Return, controls
<1>10. CASE TrialAborted
  BY <1>10 DEF TrialAborted, Workflow!Return, controls
<1>11. CASE TrialRaises
  <2>1. /\ HandleFailure(Wrapped(ending)) /\ at = "trial" /\ ending # "none"
        /\ ex' = "none" /\ ending' = "none" /\ UNCHANGED <<doing, controls>>
    BY <1>11, ChoicesAssumption DEF TrialRaises, Workflow!Return
  <2> QED
    BY <2>1, FailureGoes DEF controls
<1> QED
  BY <1>1, <1>2, <1>3, <1>4, <1>5, <1>6, <1>7, <1>8, <1>9, <1>10, <1>11

\* The operator keeps them, wherever else than in an exchange a control lands.
LEMMA OperateStep ==
  ASSUME EndKnown, Operate
  PROVE  (Heeded => EndKnown') /\ (Undisturbed /\ HoldKnown => HoldKnown')
<1> USE DEF EndKnown, HoldKnown, Goto, SetState, Terminal
<1>1. Undisturbed /\ Reachable => at \in {"held", "approval", "trial", "settle"}
  BY DEF Undisturbed, Reachable, Awaits, Exchange
<1>0. Heeded /\ Reachable =>
        at \in {"held", "approval", "trial", "settle"} \/ (~AutoApprove /\ at = "equilibrate")
  <2> SUFFICES ASSUME Heeded, Reachable, at \notin {"held", "approval", "trial", "settle"}
               PROVE  ~AutoApprove /\ at = "equilibrate"
    OBVIOUS
  <2>1. at \in Exchange /\ at \in ExchangeControls
    BY DEF Reachable, Awaits, Exchange
  <2>2. at = "equilibrate"
    BY <2>1 DEF Exchange, Heeded
  <2> QED BY <2>1, <2>2 DEF Heeded
<1>2. CASE Pause
  BY <1>0, <1>1, <1>2 DEF Pause, trial
<1>3. CASE Resume
  BY <1>0, <1>1, <1>3 DEF Resume, Workflow!Resume
<1>4. CASE Abort
  BY <1>0, <1>1, <1>4 DEF Abort, Workflow!Abort
<1>5. CASE Approve \/ Decline
  BY <1>5 DEF Approve, Decline, trial
<1>6. CASE BoardCancelled
  BY <1>6 DEF BoardCancelled, controls, trial
<1>7. CASE BoardInstalled
  BY <1>7 DEF BoardInstalled, Workflow!Begin, controls
<1> QED
  BY <1>2, <1>3, <1>4, <1>5, <1>6, <1>7 DEF Operate

\* The three kinds of steps are all there are.
LEMMA LoopStep ==
  ASSUME EndKnown, [Next]_vars
  PROVE  (Heeded => EndKnown') /\ (Undisturbed /\ HoldKnown => HoldKnown')
<1>1. CASE Next
  BY <1>1, CycleStep, TrialStep, OperateStep DEF Next, Proceed
<1>2. CASE UNCHANGED vars
  BY <1>2 DEF vars, controls, trial, EndKnown, HoldKnown
<1> QED
  BY <1>1, <1>2

\* The end is known throughout every campaign whose aborts are heeded, and the hold too
\* where no control lands in an exchange.
LEMMA LoopInvHolds ==
  /\ Heeded => (Spec => []EndKnown)
  /\ Undisturbed => (Spec => []LoopInv)
<1>1. ASSUME Heeded PROVE Spec => []EndKnown
  BY <1>1, LoopInit, LoopStep, PTL DEF Spec, LoopInv
<1>2. ASSUME Undisturbed PROVE Spec => []LoopInv
  <2>1. Heeded
    BY <1>2 DEF Undisturbed, Heeded
  <2>2. LoopInv /\ [Next]_vars => LoopInv'
    BY <1>2, <2>1, LoopStep DEF LoopInv
  <2> QED BY LoopInit, <2>2, PTL DEF Spec
<1> QED BY <1>1, <1>2

\* While the loop says that it holds, no step is in flight, in a trial or between two.
THEOREM HoldIsQuiet ==
  ASSUME Undisturbed
  PROVE  Spec => []PausedIsQuiet
<1>1. LoopInv => PausedIsQuiet
  BY DEF LoopInv, HoldKnown, PausedIsQuiet
<1>2. Spec => []LoopInv
  BY LoopInvHolds
<1> QED
  BY <1>1, <1>2, PTL

\* Only a trial that was built and a plate that was put in start a workflow.
LEMMA WorkflowStarts ==
  ASSUME Next, ex = "none", ex' = "running"
  PROVE  StartTrial \/ BoardInstalled
<1>1. \/ ex' \in {"none", ex, "over"}
      \/ StartTrial \/ BoardInstalled \/ EndStep \/ Resume \/ Abort
  BY DEF Next, Proceed, Operate, Run, PauseGate, Released, Cycle, BoardTimesOut,
         EquilibrationOver, Suggest, GateOpens, GateTimesOut, Place, BuildFails, StartStep,
         LoseStep, LastStepEnds, AbortSeen, StepRaises, TrialReturns, TrialAborted,
         TrialRaises, Settled, RoundClosed, Leave, CloseWell, Pause, Approve, Decline,
         BoardCancelled, Workflow!StartStep, Workflow!Finish, Workflow!Raise,
         Workflow!SeeAbort, Workflow!Over, Workflow!Return, trial
<1>2. ~(EndStep \/ Resume \/ Abort)
  BY DEF EndStep, HoldIfQuiescent, Resume, Abort, Workflow!Resume, Workflow!Abort
<1> QED
  BY <1>1, <1>2

\* Once the campaign is aborted, declined, parked or converged, nothing is cast: not
\* in the round whose suggestions were being approved, and not on the next plate.
THEOREM NothingAfterEnd ==
  ASSUME Heeded
  PROVE  Spec => NoWorkflowAfterEnd
<1>1. EndKnown /\ [Next]_vars =>
        [(abortReq \/ st \in Terminal) => ~(ex = "none" /\ ex' = "running")]_vars
  <2> SUFFICES ASSUME EndKnown, Next, ex = "none", ex' = "running"
               PROVE  ~(abortReq \/ st \in Terminal)
    OBVIOUS
  <2>1. at \in {"build", "board"}
    BY WorkflowStarts DEF StartTrial, BoardInstalled
  <2> QED
    BY <2>1 DEF EndKnown
<1>2. Spec => []EndKnown
  BY LoopInvHolds
<1> QED
  BY <1>1, <1>2, PTL DEF Spec, NoWorkflowAfterEnd

--------------------------------------------------------------------------------
(* Wells.                                                                  *)

\* The wells of the round in hand, and the sizes of the round to come.
WellsKnown ==
  /\ iter \in Nat /\ free \subseteq Electrode
  /\ batch \in Seq(Electrode) /\ Len(batch) <= BatchSize
  /\ spent = iter + Len(batch) /\ spent <= MaxIterations
  /\ batch # <<>> => at \in {"build", "trial", "settle", "closing", "leaving", "ended"}
  /\ at \in {"approval", "place"} =>
       ask \in 1..BatchSize /\ ask <= Cardinality(free) /\ iter + ask <= MaxIterations

\* The least of three integers is at most each of them.
LEMMA MinOfThree ==
  ASSUME NEW a \in Int, NEW b \in Int, NEW c \in Int
  PROVE  /\ Min({a, b, c}) \in Int
         /\ Min({a, b, c}) <= a /\ Min({a, b, c}) <= b /\ Min({a, b, c}) <= c
<1>1. \E x \in {a, b, c} : \A y \in {a, b, c} : x <= y
  OBVIOUS
<1> QED
  BY <1>1 DEF Min

\* A plate has finitely many electrodes.
LEMMA PlateFinite ==
  ASSUME free \subseteq Electrode
  PROVE  IsFiniteSet(free) /\ Cardinality(free) \in Nat
<1>1. IsFiniteSet(Electrode)
  BY FS_Interval, SizesAssumption DEF Electrode
<1> QED
  BY <1>1, FS_Subset, FS_CardinalityType

\* A round is never larger than a batch, what the budget leaves, and what still fits.
LEMMA RoundFits ==
  ASSUME iter \in Nat, free \subseteq Electrode
  PROVE  /\ RoundSize \in Int /\ RoundSize <= BatchSize
         /\ RoundSize <= MaxIterations - iter /\ RoundSize <= Cardinality(free)
<1>1. BatchSize \in Int /\ MaxIterations - iter \in Int /\ Cardinality(free) \in Int
  BY PlateFinite, SizesAssumption
<1> QED
  BY <1>1, MinOfThree DEF RoundSize

\* A non-empty set of naturals has a least element.
LEMMA LeastOf ==
  ASSUME NEW S \in SUBSET Nat, S # {}
  PROVE  \E x \in S : \A y \in S : x <= y
<1>1. \E x \in S : \A y \in S : ~ (<<y, x>> \in OpToRel(<, Nat))
  BY WFMin, NatLessThanWellFounded, Zenon
<1>2. PICK x \in S : \A y \in S : <<y, x>> \notin OpToRel(<, Nat)
  BY <1>1, Zenon
<1>3. \A y \in S : y < x => <<y, x>> \in OpToRel(<, Nat)
  BY Zenon DEF OpToRel
<1>4. \A y \in S : ~ (y < x)
  BY <1>2, <1>3, Zenon
<1> QED BY <1>4

\* What has been granted in order can be followed by the least of the rest.
LEMMA OneMore ==
  ASSUME NEW S \in SUBSET Nat, IsFiniteSet(S), NEW m \in Nat, m < Cardinality(S),
         NEW s \in [1..m -> S], FirstIn(S, m, s)
  PROVE  \E t \in [1..(m + 1) -> S] : FirstIn(S, m + 1, t)
<1>1. S \ ToSet(s) # {}
  <2> SUFFICES ASSUME S \subseteq ToSet(s) PROVE FALSE
    OBVIOUS
  <2>1. s \in Surjection(1..m, S)
    BY DEF ToSet, Surjection
  <2>2. IsFiniteSet(1..m) /\ Cardinality(1..m) = m
    BY FS_Interval
  <2>3. Cardinality(S) <= m /\ Cardinality(S) \in Nat
    BY <2>1, <2>2, FS_Surjection, FS_CardinalityType
  <2> QED BY <2>3
<1>2. PICK e \in S \ ToSet(s) : \A y \in S \ ToSet(s) : e <= y
  BY <1>1, LeastOf
<1> DEFINE t == [k \in 1..(m + 1) |-> IF k = m + 1 THEN e ELSE s[k]]
<1>3. t \in [1..(m + 1) -> S]
  BY <1>2
<1>4. ToSet(s) \subseteq ToSet(t) /\ e \in ToSet(t)
  BY DEF ToSet
<1>5. ASSUME NEW j \in 1..(m + 1), NEW k \in 1..(m + 1), j < k PROVE t[j] < t[k]
  <2>1. CASE k = m + 1
    BY <1>2, <1>5, <2>1 DEF FirstIn
  <2>2. CASE k # m + 1
    BY <1>5, <2>2 DEF FirstIn
  <2> QED BY <2>1, <2>2
<1>6. ASSUME NEW x \in S \ ToSet(t), NEW k \in 1..(m + 1) PROVE t[k] < x
  <2>1. x \in S \ ToSet(s) /\ x # e
    BY <1>4, <1>6
  <2>2. CASE k = m + 1
    <3>1. e <= x /\ e \in Nat /\ x \in Nat
      BY <1>2, <2>1
    <3> QED BY <2>1, <2>2, <3>1
  <2>3. CASE k # m + 1
    BY <2>1, <2>3 DEF FirstIn
  <2> QED BY <2>2, <2>3
<1>7. FirstIn(S, m + 1, t)
  BY <1>5, <1>6 DEF FirstIn
<1> QED BY <1>3, <1>7

\* Any number of elements can be granted in order, up to all there are: by the least number
\* that could not.
LEMMA FirstExists ==
  ASSUME NEW S \in SUBSET Nat, IsFiniteSet(S), NEW n \in Nat, n <= Cardinality(S)
  PROVE  \E s \in [1..n -> S] : FirstIn(S, n, s)
<1> DEFINE Has(m) == \E s \in [1..m -> S] : FirstIn(S, m, s)
           Bad == {m \in 0..n : ~Has(m)}
<1>1. Has(0)
  <2>1. [k \in 1..0 |-> 0] \in [1..0 -> S] /\ FirstIn(S, 0, [k \in 1..0 |-> 0])
    BY DEF FirstIn
  <2> QED BY <2>1
<1>2. ASSUME NEW m \in Nat, m < n, Has(m) PROVE Has(m + 1)
  <2>1. Cardinality(S) \in Nat
    BY FS_CardinalityType
  <2>2. m < Cardinality(S)
    BY <1>2, <2>1
  <2> QED BY <1>2, <2>2, OneMore
<1> HIDE DEF Has
<1>3. Bad = {}
  <2> SUFFICES ASSUME Bad # {} PROVE FALSE
    OBVIOUS
  <2>1. Bad \in SUBSET Nat
    OBVIOUS
  <2>2. PICK m \in Bad : \A y \in Bad : m <= y
    BY <2>1, LeastOf
  <2>3. m # 0
    BY <1>1, <2>2
  <2>4. m - 1 \in Nat /\ m - 1 < n /\ m - 1 \in 0..n /\ m - 1 \notin Bad
    BY <2>2, <2>3
  <2>5. Has((m - 1) + 1)
    BY <1>2, <2>4
  <2> QED BY <2>2, <2>5
<1> QED BY <1>3 DEF Has

\* The allocator grants as many electrodes as it is asked for, each of them free, and none
\* twice.
LEMMA GrantsFirst ==
  ASSUME free \subseteq Electrode, NEW n \in Nat, n <= Cardinality(free)
  PROVE  /\ NextElectrodes(n) \in [1..n -> free] /\ FirstIn(free, n, NextElectrodes(n))
         /\ NextElectrodes(n) \in Seq(Electrode) /\ Len(NextElectrodes(n)) = n
<1>1. free \in SUBSET Nat /\ IsFiniteSet(free)
  BY PlateFinite DEF Electrode
<1>2. \E s \in [1..n -> free] : FirstIn(free, n, s)
  BY <1>1, FirstExists
<1>3. NextElectrodes(n) \in [1..n -> free] /\ FirstIn(free, n, NextElectrodes(n))
  BY <1>2 DEF NextElectrodes
<1> QED BY <1>3

\* No well was granted before the campaign began.
LEMMA WellsInit == Init => WellsKnown
<1> SUFFICES ASSUME Init PROVE WellsKnown
  OBVIOUS
<1>1. <<>> \in Seq(Electrode) /\ Len(<<>>) = 0
  OBVIOUS
<1> QED
  BY <1>1, SizesAssumption DEF Init, WellsKnown

\* A failed trial closes its whole round, or keeps it in hand and ends the campaign.
LEMMA FailureCloses ==
  ASSUME NEW exc, HandleFailure(exc), WellsKnown, at \in {"build", "trial"},
         UNCHANGED <<spent, free>>
  PROVE  WellsKnown'
<1>1. <<>> \in Seq(Electrode) /\ Len(<<>>) = 0 /\ Len(batch) \in Nat
  BY DEF WellsKnown
<1>2. CASE IsHardFault(exc) /\ Park("fault") /\ Goto("leaving") /\ UNCHANGED <<counts, batch>>
  BY <1>2 DEF Goto, counts, WellsKnown
<1>3. CASE NoteTrialFailure
  <2>1. iter' = iter + Len(batch) /\ batch' = <<>> /\ at' \in {"leaving", "gate"}
    BY <1>3 DEF NoteTrialFailure, Advance, Goto
  <2> QED
    BY <1>1, <2>1, SizesAssumption DEF WellsKnown
<1> QED
  BY <1>2, <1>3 DEF HandleFailure

\* Placing a round takes its wells, and closing a well takes it out of the round.
LEMMA RoundStep ==
  ASSUME WellsKnown,
         \/ Place
         \/ \E n \in 0..BatchSize : Suggest(n)
         \/ \E how \in {"told", "converged", "untold", "failed"} : CloseWell(how)
  PROVE  WellsKnown'
<1>1. CASE \E n \in 0..BatchSize : Suggest(n)
  <2>1. PICK n \in 0..BatchSize : Suggest(n)
    BY <1>1
  <2>2. n \in 0..BatchSize /\ n <= Cardinality(free) /\ iter + n <= MaxIterations
    BY <2>1, RoundFits, PlateFinite, SizesAssumption DEF Suggest, WellsKnown
  <2>3. /\ ask' = n /\ UNCHANGED <<iter, free, batch, spent>> /\ batch = <<>>
        /\ at' \in {"leaving", "place", "approval"} /\ (n = 0 => at' = "leaving")
    BY <2>1 DEF Suggest, Goto, counts, plates, WellsKnown
  <2> QED
    BY <2>2, <2>3, SizesAssumption DEF WellsKnown
<1>2. CASE Place
  <2>1. /\ batch' = NextElectrodes(ask) /\ free' \subseteq free /\ spent' = spent + ask
        /\ at' = "build" /\ UNCHANGED iter
    BY <1>2 DEF Place, Allocate, Goto, counts
  <2>2. /\ ask \in Nat /\ ask <= BatchSize /\ ask <= Cardinality(free)
        /\ iter + ask <= MaxIterations /\ spent = iter
    BY <1>2, SizesAssumption DEF Place, WellsKnown
  <2>3. batch' \in Seq(Electrode) /\ Len(batch') = ask
    BY <2>1, <2>2, GrantsFirst DEF WellsKnown
  <2> QED
    BY <2>1, <2>2, <2>3 DEF WellsKnown
<1>3. CASE \E how \in {"told", "converged", "untold", "failed"} : CloseWell(how)
  <2>1. /\ at = "closing" /\ batch # <<>> /\ batch' = Tail(batch) /\ iter' = iter + 1
        /\ UNCHANGED <<at, spent, free>>
    BY <1>3 DEF CloseWell, CloseCounting, Advance, plates
  <2>2. Tail(batch) \in Seq(Electrode) /\ Len(Tail(batch)) = Len(batch) - 1
    BY <2>1 DEF WellsKnown
  <2> QED
    BY <2>1, <2>2, SizesAssumption DEF WellsKnown
<1> QED
  BY <1>1, <1>2, <1>3

\* The other steps leave the wells alone and do not enter a place with a round in
\* hand that has none.
LEMMA OtherStep ==
  ASSUME WellsKnown,
         \/ Run \/ PauseGate \/ Released \/ Cycle
         \/ BoardTimesOut \/ EquilibrationOver
         \/ GateOpens \/ GateTimesOut \/ StartTrial
         \/ \E s \in Casts \cup Others : StartStep(s)
         \/ EndStep \/ LoseStep \/ LastStepEnds \/ AbortSeen
         \/ \E cause \in StepFaults : StepRaises(cause)
         \/ TrialReturns \/ TrialAborted
         \/ Settled \/ RoundClosed \/ Leave \/ Operate
  PROVE  WellsKnown'
<1>1. UNCHANGED <<iter, batch, spent>> /\ free' \in {free, Electrode}
  <2>1. CASE Cycle
    BY <2>1 DEF Cycle, SwapBoard, counts, round
  <2> QED
    BY <2>1 DEF Run, PauseGate, Released, BoardTimesOut, EquilibrationOver, GateOpens,
                GateTimesOut, StartTrial, StartStep, EndStep, LoseStep, LastStepEnds,
                AbortSeen, StepRaises, TrialReturns, TrialAborted, Settled, RoundClosed,
                Leave, Operate, Pause, Resume, Abort, Approve, Decline, BoardCancelled,
                BoardInstalled, counts, round, plates
<1>2. /\ batch # <<>> => at' \in {"build", "trial", "settle", "closing", "leaving", "ended"}
      /\ at' \in {"approval", "place"} =>
           at \in {"approval", "place"} /\ UNCHANGED <<ask, free>>
  <2> USE DEF Goto, round, plates, WellsKnown
  <2>1. CASE Run \/ PauseGate \/ Released \/ Cycle
    BY <2>1 DEF Run, PauseGate, Released, Cycle, SwapBoard
  <2>2. CASE BoardTimesOut \/ EquilibrationOver \/ GateOpens \/ GateTimesOut \/ StartTrial
    BY <2>2 DEF BoardTimesOut, EquilibrationOver, GateOpens, GateTimesOut, StartTrial
  <2>3. CASE \/ \E s \in Casts \cup Others : StartStep(s)
             \/ \E cause \in StepFaults : StepRaises(cause)
    BY <2>3 DEF StartStep, StepRaises
  <2>4. CASE EndStep \/ LoseStep \/ LastStepEnds \/ AbortSeen
    BY <2>4 DEF EndStep, LoseStep, LastStepEnds, AbortSeen
  <2>5. CASE TrialReturns \/ TrialAborted \/ Settled \/ RoundClosed \/ Leave
    BY <2>5 DEF TrialReturns, TrialAborted, Settled, RoundClosed, Leave
  <2>6. CASE Operate
    BY <2>6 DEF Operate, Pause, Resume, Abort, Approve, Decline, BoardCancelled,
                BoardInstalled
  <2> QED
    BY <2>1, <2>2, <2>3, <2>4, <2>5, <2>6
<1> QED
  BY <1>1, <1>2 DEF WellsKnown

\* Every step is one of these, or a failure.
LEMMA WellsStep == WellsKnown /\ [Next]_vars => WellsKnown'
<1> SUFFICES ASSUME WellsKnown, [Next]_vars PROVE WellsKnown'
  OBVIOUS
<1>1. CASE \E exc \in {"plan", "other"} : BuildFails(exc)
  <2>1. PICK exc : BuildFails(exc)
    BY <1>1
  <2> QED
    BY <2>1, FailureCloses DEF BuildFails, plates
<1>2. CASE TrialRaises
  BY <1>2, FailureCloses DEF TrialRaises, plates
<1>3. CASE UNCHANGED vars
  BY <1>3 DEF vars, counts, plates, round, WellsKnown
<1> QED
  BY <1>1, <1>2, <1>3, RoundStep, OtherStep DEF Next, Proceed

\* The wells are known throughout every campaign.
LEMMA WellsHold == Spec => []WellsKnown
BY WellsInit, WellsStep, PTL DEF Spec

\* Every electrode the allocator granted is closed or in the round in hand, whatever
\* failed, and the operator's budget is never exceeded, for any batch size and plate.
THEOREM WellsKeptHolds == Spec => []WellsKept
<1>1. WellsKnown => WellsKept
  BY DEF WellsKnown, WellsKept
<1> QED
  BY <1>1, WellsHold, PTL

--------------------------------------------------------------------------------
(* No circles.                                                             *)

\* A failed trial's campaign goes on to the next cycle, or leaves.
LEMMA FailureGoesOn ==
  ASSUME NEW exc, HandleFailure(exc), at \in {"build", "trial"}, UNCHANGED spent
  PROVE  Onward
<1>1. at' \in {"leaving", "gate"}
  BY DEF HandleFailure, NoteTrialFailure, Goto
<1> QED BY <1>1 DEF Onward, Stage

\* A placement spends wells, and a closing of wells has fewer to come.
LEMMA WellsGoOn ==
  ASSUME WellsKnown,
         Place \/ \E how \in {"told", "converged", "untold", "failed"} : CloseWell(how)
  PROVE  Onward
<1>1. CASE Place
  <2>1. spent' = spent + ask /\ ask \in Nat /\ ask >= 1 /\ spent \in Nat
    BY <1>1, SizesAssumption DEF Place, WellsKnown
  <2> QED BY <2>1 DEF Onward
<1>2. CASE \E how \in {"told", "converged", "untold", "failed"} : CloseWell(how)
  <2>1. /\ at = "closing" /\ at' = at /\ spent' = spent
        /\ batch # <<>> /\ batch' = Tail(batch)
    BY <1>2 DEF CloseWell
  <2>2. Len(Tail(batch)) = Len(batch) - 1 /\ Len(batch) \in Nat
    BY <2>1 DEF WellsKnown
  <2> QED BY <2>1, <2>2 DEF Onward
<1> QED BY <1>1, <1>2

\* Everything else leaves place and round alone, or goes on.
LEMMA LoopGoesOn ==
  ASSUME WellsKnown,
         \/ Run \/ PauseGate \/ Released \/ Cycle
         \/ BoardTimesOut \/ EquilibrationOver
         \/ \E n \in 0..BatchSize : Suggest(n)
         \/ GateOpens \/ GateTimesOut \/ StartTrial
         \/ \E s \in Casts \cup Others : StartStep(s)
         \/ EndStep \/ LoseStep \/ LastStepEnds \/ AbortSeen
         \/ \E cause \in StepFaults : StepRaises(cause)
         \/ TrialReturns \/ TrialAborted
         \/ Settled \/ RoundClosed \/ Leave \/ Operate
  PROVE  [Onward]_<<at, batch>>
<1> USE DEF Goto, round, Stage, Onward
<1>1. CASE Run \/ PauseGate \/ Released \/ Cycle
  BY <1>1 DEF Run, PauseGate, Released, Cycle, SwapBoard
<1>2. CASE BoardTimesOut \/ EquilibrationOver \/ GateOpens \/ GateTimesOut \/ StartTrial
  BY <1>2 DEF BoardTimesOut, EquilibrationOver, GateOpens, GateTimesOut, StartTrial
<1>3. CASE \E n \in 0..BatchSize : Suggest(n)
  BY <1>3 DEF Suggest
<1>4. CASE \/ \E s \in Casts \cup Others : StartStep(s)
           \/ \E cause \in StepFaults : StepRaises(cause)
  BY <1>4 DEF StartStep, StepRaises
<1>5. CASE EndStep \/ LoseStep \/ LastStepEnds \/ AbortSeen
  BY <1>5 DEF EndStep, LoseStep, LastStepEnds, AbortSeen
<1>6. CASE TrialReturns \/ TrialAborted \/ Settled \/ RoundClosed \/ Leave
  BY <1>6 DEF TrialReturns, TrialAborted, Settled, RoundClosed, Leave
<1>7. CASE Operate
  BY <1>7 DEF Operate, Pause, Resume, Abort, Approve, Decline, BoardCancelled, BoardInstalled
<1> QED BY <1>1, <1>2, <1>3, <1>4, <1>5, <1>6, <1>7

\* For any budget, batch and plate, whatever fails and whatever is pressed at whichever
\* moment: the loop turns only by spending wells (run, _round_q).
THEOREM RoundsOnwardHolds == Spec => RoundsOnward
<1>1. WellsKnown /\ [Next]_vars => [Onward]_<<at, batch>>
  <2> SUFFICES ASSUME WellsKnown, [Next]_vars PROVE [Onward]_<<at, batch>>
    OBVIOUS
  <2>1. CASE \E exc \in {"plan", "other"} : BuildFails(exc)
    BY <2>1, FailureGoesOn DEF BuildFails
  <2>2. CASE TrialRaises
    BY <2>2, FailureGoesOn DEF TrialRaises
  <2>3. CASE UNCHANGED vars
    BY <2>3 DEF vars, round
  <2> QED BY <2>1, <2>2, <2>3, WellsGoOn, LoopGoesOn DEF Next, Proceed
<1> QED BY <1>1, WellsHold, PTL DEF Spec, RoundsOnward

--------------------------------------------------------------------------------
(* The plate and its records.                                              *)

\* A step is in flight only in a workflow that is not over, and a deposit only in a trial.
InFlight ==
  /\ at \notin {"trial", "equilibrate"} => doing = Nothing /\ ex = "none"
  /\ ending # "none" => doing = Nothing
  /\ at = "equilibrate" => doing \notin Casts

\* What neither has a row nor was refused one is being cast, and while anything can be cast
\* the allocator's plate is the one in the rig; the store's pointer moves with the plate or
\* stays behind, and no row runs ahead.
PlateKnown ==
  /\ \A w \in wet \ (rows \cup lost) : doing \in Casts /\ w = <<board, doing.ch>>
  /\ board \in Nat /\ installed \in 1..board /\ pointer \in 1..installed
  /\ pointer # installed => stale
  /\ \A w \in rows : w[1] \in 1..installed
  /\ at \notin {"board", "leaving", "ended"} => board = installed

RecordInv == InFlight /\ PlateKnown

\* Nothing is in flight that is neither a deposit nor another step.
LEMMA NothingIsNoCast == Nothing \notin Casts /\ Casts \cap Others = {}
BY DEF Nothing, Workflow!Nothing, Casts, Others

\* A campaign begins on a plate whose used wells have their rows.
LEMMA RecordInit == Init => RecordInv
BY NothingIsNoCast DEF Init, RecordInv, InFlight, PlateKnown

\* Writing rows loses none, and what was asked for is written or known to be refused.
LEMMA Writes ==
  ASSUME NEW S, Write(S)
  PROVE  /\ rows \subseteq rows' /\ rows' \subseteq rows \cup S
         /\ rows' \cup lost' = rows \cup lost \cup S
         /\ lost' = (lost \cup S) \ rows'
         /\ \E kept \in SUBSET S : rows' = rows \cup kept
BY DEF Write

\* The end of a deposit writes its row or is refused it.
LEMMA CastWrites ==
  ASSUME NEW done \in BOOLEAN, RecordCast(doing, done)
  PROVE  \/ doing \in Casts /\ Write({<<board, doing.ch>>})
         \/ /\ UNCHANGED <<rows, lost>>
            /\ doing \in Casts => <<board, doing.ch>> \in lost
BY DEF RecordCast

\* The end of a deposit, well or badly, writes its row or is refused it.
LEMMA EndRecords ==
  ASSUME RecordInv, NEW done \in BOOLEAN, RecordCast(doing, done), doing' = Nothing,
         UNCHANGED <<at, plates, wet>>, doing # Nothing, ex # "none"
  PROVE  RecordInv'
<1>1. at \in {"trial", "equilibrate"} /\ board = installed
  BY DEF RecordInv, InFlight, PlateKnown
<1>2. wet \subseteq rows' \cup lost' /\ \A w \in rows' : w[1] \in 1..installed
  <2>1. CASE doing \in Casts /\ Write({<<board, doing.ch>>})
    BY <1>1, <2>1, Writes DEF RecordInv, PlateKnown
  <2>2. CASE UNCHANGED <<rows, lost>> /\ (doing \in Casts => <<board, doing.ch>> \in lost)
    BY <2>2 DEF RecordInv, PlateKnown
  <2> QED BY <2>1, <2>2, CastWrites
<1> QED
  BY <1>1, <1>2, NothingIsNoCast DEF RecordInv, InFlight, PlateKnown, plates

\* No step of the loop, of a workflow or of the operator leaves a well without its row.
LEMMA RecordStep == RecordInv /\ [Next]_vars => RecordInv'
<1> SUFFICES ASSUME RecordInv, [Next]_vars PROVE RecordInv'
  OBVIOUS
<1> USE DEF Goto
<1>1. CASE UNCHANGED <<at, doing, ex, ending, plates, wells>>
  BY <1>1 DEF RecordInv, InFlight, PlateKnown, plates, wells
<1>2. CASE \/ Run \/ PauseGate \/ Released \/ Cycle \/ BoardTimesOut \/ GateOpens
           \/ GateTimesOut \/ Place \/ BoardCancelled \/ RoundClosed \/ Leave
           \/ \E n \in 0..BatchSize : Suggest(n)
           \/ \E exc \in {"plan", "other"} : BuildFails(exc)
  <2>1. /\ UNCHANGED <<trial, wells, installed, pointer, stale>>
        /\ at \notin {"trial", "equilibrate"}
    BY <1>2 DEF Run, PauseGate, Released, Cycle, BoardTimesOut, GateOpens, GateTimesOut,
       Place, BoardCancelled, RoundClosed, Leave, Suggest, BuildFails, plates
  <2>2. /\ at' \notin {"trial", "equilibrate"}
        /\ board' = board \/ (board' = board + 1 /\ at' = "board")
        /\ at \in {"board", "leaving", "ended"} => at' \in {"leaving", "ended"}
    <3>1. CASE Run \/ PauseGate \/ Released \/ Cycle \/ Place
      BY <3>1 DEF Run, PauseGate, Released, Cycle, SwapBoard, Place, plates
    <3>2. CASE BoardTimesOut \/ GateOpens \/ GateTimesOut \/ BoardCancelled
      BY <3>2 DEF BoardTimesOut, GateOpens, GateTimesOut, BoardCancelled, plates
    <3>3. CASE RoundClosed \/ Leave \/ \E n \in 0..BatchSize : Suggest(n)
      BY <3>3 DEF RoundClosed, Leave, Suggest, plates
    <3>4. CASE \E exc \in {"plan", "other"} : BuildFails(exc)
      <4>1. PICK exc : BuildFails(exc)
        BY <3>4
      <4> QED BY <4>1, FailureGoes DEF BuildFails, plates
    <3> QED BY <1>2, <3>1, <3>2, <3>3, <3>4
  <2>3. wet \subseteq rows \cup lost /\ doing = Nothing /\ ex = "none"
    BY <2>1, NothingIsNoCast DEF RecordInv, InFlight, PlateKnown
  <2> QED
    BY <2>1, <2>2, <2>3 DEF RecordInv, InFlight, PlateKnown, trial, wells
<1>3. CASE BoardInstalled \/ StartTrial
  <2>1. /\ doing = Nothing /\ doing' = Nothing /\ wet \subseteq rows \cup lost
        /\ UNCHANGED wells
    BY <1>3, NothingIsNoCast
       DEF BoardInstalled, StartTrial, Workflow!Begin, RecordInv, InFlight, PlateKnown
  <2>2. board' = installed' /\ at' \in {"trial", "equilibrate"} /\ board' = board
    BY <1>3 DEF BoardInstalled, StartTrial, RecordInv, PlateKnown, plates
  <2>3. /\ installed' \in 1..board' /\ pointer' \in 1..installed'
        /\ pointer' # installed' => stale'
        /\ \A w \in rows : w[1] \in 1..installed'
    <3>1. CASE StartTrial
      BY <3>1 DEF StartTrial, RecordInv, PlateKnown, plates
    <3>2. CASE BoardInstalled
      <4>1. installed' = board /\ PersistBoard
        BY <3>2 DEF BoardInstalled
      <4>2. pointer' \in 1..board /\ (pointer' # board => stale')
        BY <4>1 DEF PersistBoard, RecordInv, PlateKnown
      <4> QED BY <2>2, <4>1, <4>2 DEF RecordInv, PlateKnown
    <3> QED BY <1>3, <3>1, <3>2
  <2> QED BY <2>1, <2>2, <2>3, NothingIsNoCast DEF RecordInv, InFlight, PlateKnown, wells
<1>4. CASE \E s \in Casts \cup Others : StartStep(s)
  <2>1. PICK s \in Casts \cup Others : StartStep(s)
    BY <1>4
  <2>2. /\ ex # "none" /\ ending = "none" /\ doing = Nothing
        /\ doing' = s /\ UNCHANGED <<ex, ending, at, plates, rows, lost>>
    BY <2>1 DEF StartStep, Workflow!StartStep, Workflow!Going, Nothing
  <2>3. wet \subseteq rows \cup lost /\ at \in {"trial", "equilibrate"}
    BY <2>2, NothingIsNoCast DEF RecordInv, InFlight, PlateKnown
  <2>4. \A w \in wet' \ (rows' \cup lost') : doing' \in Casts /\ w = <<board', doing'.ch>>
    BY <2>1, <2>2, <2>3 DEF StartStep, plates
  <2>5. at' = "equilibrate" => doing' \notin Casts
    BY <2>1, <2>2, NothingIsNoCast DEF StartStep
  <2> QED BY <2>2, <2>3, <2>4, <2>5 DEF RecordInv, InFlight, PlateKnown, plates
<1>5. CASE EndStep \/ LoseStep \/ LastStepEnds \/ \E cause \in StepFaults : StepRaises(cause)
  <2>1. /\ ex # "none" /\ doing # Nothing /\ doing' = Nothing
        /\ UNCHANGED <<at, plates, wet>>
    <3>1. Nothing \notin Casts \cup Others
      BY DEF Nothing, Workflow!Nothing, Casts, Others
    <3> QED
      BY <1>5, <3>1
         DEF EndStep, LoseStep, LastStepEnds, StepRaises, Workflow!EndStep, Workflow!Finish,
             Workflow!Raise, Workflow!Over, Workflow!Going, Nothing
  <2>2. RecordCast(doing, TRUE) \/ RecordCast(doing, FALSE)
    BY <1>5 DEF EndStep, LoseStep, LastStepEnds, StepRaises
  <2> QED BY <2>1, <2>2, EndRecords
<1>6. CASE AbortSeen
  <2>1. /\ doing = Nothing /\ doing' = Nothing /\ ex # "none"
        /\ UNCHANGED <<at, plates, wells>>
    BY <1>6 DEF AbortSeen, Workflow!SeeAbort, Workflow!Over, Workflow!Going, Nothing
  <2> QED
    BY <2>1, NothingIsNoCast DEF RecordInv, InFlight, PlateKnown, plates, wells
<1>7. CASE EquilibrationOver \/ TrialReturns \/ TrialAborted \/ TrialRaises
  <2>1. /\ at \in {"trial", "equilibrate"} /\ ex' = "none" /\ ending' = "none"
        /\ UNCHANGED <<doing, plates, wells>> /\ doing = Nothing
    BY <1>7, ChoicesAssumption
       DEF EquilibrationOver, TrialReturns, TrialAborted, TrialRaises, Workflow!Return,
           RecordInv, InFlight
  <2>2. at' \in {"suggest", "settle", "leaving", "gate"}
    BY <1>7, FailureGoes DEF EquilibrationOver, TrialReturns, TrialAborted, TrialRaises
  <2> QED
    BY <2>1, <2>2, NothingIsNoCast DEF RecordInv, InFlight, PlateKnown, plates, wells
<1>8. CASE Settled
  <2>1. /\ at = "settle" /\ at' = "closing" /\ UNCHANGED <<trial, plates, wet>>
        /\ Write(WellsOf(batch) \ (rows \cup lost))
    BY <1>8 DEF Settled
  <2>2. /\ rows \cup lost \subseteq rows' \cup lost'
        /\ \A w \in rows' : w \in rows \/ w[1] = board
    BY <2>1, Writes DEF WellsOf
  <2> QED
    BY <2>1, <2>2, NothingIsNoCast DEF RecordInv, InFlight, PlateKnown, trial, plates
<1>9. CASE \/ Pause \/ Approve \/ Decline \/ UNCHANGED vars
           \/ \E how \in {"told", "converged", "untold", "failed"} : CloseWell(how)
  BY <1>1, <1>9 DEF Pause, Approve, Decline, CloseWell, vars, trial, plates, wells
<1>10. CASE Resume \/ Abort
  <2>1. /\ UNCHANGED <<at, doing, ending, plates, wells>>
        /\ ex = "none" => ex' = "none"
    BY <1>10 DEF Resume, Abort, Workflow!Resume, Workflow!Abort
  <2> QED
    BY <2>1 DEF RecordInv, InFlight, PlateKnown, plates, wells
<1> QED
  BY <1>2, <1>3, <1>4, <1>5, <1>6, <1>7, <1>8, <1>9, <1>10 DEF Next, Proceed, Operate

\* The active board is the plate in the rig if the pointer or any row names it.
LEMMA CurrentIsInstalled ==
  ASSUME PlateKnown, pointer = installed \/ \E w \in rows : w[1] = installed
  PROVE  CurrentBoard = installed
<1> DEFINE S == {pointer} \cup {w[1] : w \in rows}
<1>1. \A x \in S : x \in Nat /\ x <= installed
  BY DEF PlateKnown
<1>2. installed \in S /\ installed \in Nat
  BY DEF PlateKnown
<1> HIDE DEF S
<1>3. \A y \in S : installed >= y
  BY <1>1, <1>2
<1>4. \A x \in S : (\A y \in S : x >= y) => x = installed
  BY <1>1, <1>2
<1>5. Max(S) = installed
  BY <1>2, <1>3, <1>4 DEF Max
<1> QED BY <1>5 DEF CurrentBoard, S

\* For any batch and plate, whatever fails, the store included, and whatever is pressed: a
\* well that may hold material has its row or was refused it, the one being cast excepted,
\* only the plate in the rig is cast on, and a next session starts from it unless the store
\* refused both its number and every row on it.
THEOREM PlateRecordedHolds == Spec => []PlateRecorded
<1>1. RecordInv => PlateRecorded
  <2> SUFFICES ASSUME RecordInv PROVE PlateRecorded
    OBVIOUS
  <2>1. CurrentBoard # installed => stale /\ \A w \in rows : w[1] # installed
    BY CurrentIsInstalled DEF RecordInv, PlateKnown
  <2> QED
    BY <2>1, NothingIsNoCast DEF RecordInv, InFlight, PlateKnown, PlateRecorded
<1> QED
  BY <1>1, RecordInit, RecordStep, PTL DEF Spec

--------------------------------------------------------------------------------
(* The life of a well.                                                     *)

\* No electrode is twice in the round in hand or in it and still on offer; what may hold
\* material, has a row or was refused one was in a round, and a deposit is cast onto a well in hand.
GrantInv ==
  /\ board \in 1..LastBoard
  /\ \A j, k \in 1..Len(batch) : j # k => batch[j] # batch[k]
  /\ ToSet(batch) \cap free = {}
  /\ wet \cup rows \cup lost \subseteq Hand \cup Gone
  /\ doing \in Casts => doing.ch \in ToSet(batch)

\* What the steps that change a well's life rest on.
LifeInv == WellsKnown /\ RecordInv /\ GrantInv

\* What is in hand is on the allocator's plate, and what is on offer has no past.
LEMMA Plates ==
  ASSUME LifeInv
  PROVE  /\ ToSet(batch) \subseteq Electrode
         /\ Hand = {w \in Well : w[1] = board /\ w[2] \in ToSet(batch)}
         /\ Hand \subseteq Well /\ Gone \subseteq Well /\ Hand \cap Gone = {}
         /\ \A e \in free : <<board, e>> \in Life!Fresh
<1>1. ToSet(batch) \subseteq Electrode
  BY DEF LifeInv, WellsKnown, ToSet
<1>2. Hand = {w \in Well : w[1] = board /\ w[2] \in ToSet(batch)}
  BY <1>1 DEF LifeInv, GrantInv, Hand, WellsOf, Well
<1>3. \A e \in free : <<board, e>> \in Well /\ <<board, e>> \notin Hand \cup Gone
  BY <1>2 DEF LifeInv, GrantInv, WellsKnown, Gone, Well
<1>4. \A e \in free : <<board, e>> \in Life!Fresh
  BY <1>3 DEF Life!Fresh, LifeInv, GrantInv
<1>5. Hand \subseteq Well /\ Gone \subseteq Well
  BY <1>2 DEF Gone
<1>6. ASSUME NEW w \in Hand PROVE w \notin Gone
  BY <1>2, <1>6 DEF Gone, LifeInv, GrantInv
<1> QED BY <1>1, <1>2, <1>4, <1>5, <1>6

\* The life's steps, by the wells they are about.
LEMMA LifeSteps ==
  ASSUME NEW S \in SUBSET Well, Life!Take(S) \/ Life!Record(S) \/ Life!GiveUp(S)
  PROVE  Life!Next
BY DEF Life!Next

\* A step that leaves the allocator, the round and the records alone is none in a well's
\* life.
LEMMA NoLife ==
  ASSUME LifeInv, UNCHANGED <<board, free, batch, wells>>, doing' \in {doing, Nothing}
  PROVE  GrantInv' /\ UNCHANGED Life!life
<1>1. UNCHANGED <<Hand, Gone>>
  BY DEF Hand, Gone, WellsOf
<1>2. doing' \in Casts => doing' = doing
  BY NothingIsNoCast
<1> QED BY <1>1, <1>2 DEF LifeInv, GrantInv, Life!life, wells

\* A plate is exchanged when all of it was granted.
LEMMA SwapLife ==
  ASSUME LifeInv, SwapBoard, free = {}, at = "cycle", UNCHANGED <<batch, wells, doing>>
  PROVE  GrantInv' /\ UNCHANGED Life!life
<1>1. batch = <<>> /\ doing = Nothing
  BY DEF LifeInv, WellsKnown, RecordInv, InFlight
<1>2. board' = board + 1 /\ board' \in 1..LastBoard /\ free' = Electrode
  BY SizesAssumption DEF SwapBoard, LifeInv, GrantInv
<1>3. ToSet(<<>>) = {}
  BY DEF ToSet
<1>4. Hand = {} /\ Hand' = {}
  BY <1>1, <1>3 DEF Hand, WellsOf
<1>5. Gone' = Gone
  <2>1. ASSUME NEW w \in Well PROVE w \in Gone' <=> w \in Gone
    BY <1>1, <1>2, <1>3 DEF Gone, Well, LifeInv, GrantInv
  <2> QED BY <2>1 DEF Gone
<1> QED
  BY <1>1, <1>2, <1>3, <1>4, <1>5, NothingIsNoCast DEF LifeInv, GrantInv, Life!life, wells

\* A round takes what it is granted: in order, hence each once, and all of it on offer.
LEMMA PlaceLife ==
  ASSUME LifeInv, Place
  PROVE  GrantInv' /\ Life!Next
<1>1. /\ at = "place" /\ batch' = NextElectrodes(ask) /\ free' = free \ ToSet(batch')
      /\ UNCHANGED <<board, wet, rows, lost, doing>>
  BY DEF Place, Allocate, wells, trial
<1>2. batch = <<>> /\ doing = Nothing /\ ask \in Nat /\ ask <= Cardinality(free)
  BY <1>1, SizesAssumption DEF LifeInv, WellsKnown, RecordInv, InFlight
<1>3. /\ batch' \in [1..ask -> free] /\ FirstIn(free, ask, batch') /\ Len(batch') = ask
      /\ free \subseteq Electrode
  BY <1>1, <1>2, GrantsFirst DEF LifeInv, WellsKnown
<1>4. ToSet(batch') \subseteq free
  BY <1>3 DEF ToSet
<1>5. \A j, k \in 1..Len(batch') : j # k => batch'[j] # batch'[k]
  <2> SUFFICES ASSUME NEW j \in 1..ask, NEW k \in 1..ask, j < k PROVE batch'[j] # batch'[k]
    BY <1>2, <1>3
  <2>1. batch'[j] < batch'[k]
    BY <1>3 DEF FirstIn
  <2>2. batch'[j] \in Electrode /\ batch'[k] \in Electrode
    BY <1>3
  <2>3. batch'[j] \in Int /\ batch'[k] \in Int
    BY <2>2, SizesAssumption DEF Electrode
  <2> QED BY <2>1, <2>3
<1>6. Hand = {}
  BY <1>2 DEF Hand, WellsOf, ToSet
<1>7. Gone' = Gone
  <2>1. free' \cup ToSet(batch') = free /\ ToSet(batch) = {}
    BY <1>1, <1>2, <1>4 DEF ToSet
  <2> QED BY <1>1, <2>1 DEF Gone
<1>8. Hand' = {<<board, e>> : e \in ToSet(batch')}
  BY <1>1 DEF Hand, WellsOf
<1>9. Hand' \subseteq Life!Fresh
  BY <1>4, <1>8, Plates
<1>10. GrantInv'
  <2>1. ToSet(batch') \cap free' = {}
    BY <1>1
  <2>2. doing' \notin Casts
    BY <1>1, <1>2, NothingIsNoCast
  <2> QED BY <1>1, <1>5, <1>6, <1>7, <2>1, <2>2 DEF LifeInv, GrantInv
<1>11. Life!Take(Hand') /\ Hand' \in SUBSET Well
  BY <1>1, <1>6, <1>7, <1>9 DEF Life!Take, Life!Fresh
<1> QED BY <1>10, <1>11, LifeSteps

\* Wells are given up when what they hold is on record, or was refused its row.
LEMMA GiveUpLife ==
  ASSUME LifeInv, doing = Nothing, UNCHANGED <<board, free, wet, rows, lost, doing>>,
         NEW kept \in Seq(Electrode), batch' = kept, ToSet(kept) \subseteq ToSet(batch),
         \A j, k \in 1..Len(kept) : j # k => kept[j] # kept[k]
  PROVE  GrantInv' /\ Life!Next
<1> DEFINE S == {w \in Well : w[1] = board /\ w[2] \in ToSet(batch) \ ToSet(kept)}
<1>1. /\ S \in SUBSET Well /\ S \subseteq Hand /\ Hand' = Hand \ S
  <2>1. Hand' = {w \in Well : w[1] = board /\ w[2] \in ToSet(kept)}
    BY Plates DEF Hand, WellsOf, Well, LifeInv, GrantInv
  <2> QED BY <2>1, Plates
<1>2. Gone' = Gone \cup S
  <2>1. ToSet(batch) \cap free = {}
    BY DEF LifeInv, GrantInv
  <2>2. ASSUME NEW w \in Well PROVE w \in Gone' <=> w \in Gone \cup S
    BY <2>1 DEF Gone
  <2> QED BY <2>2 DEF Gone
<1>3. wet \subseteq rows \cup lost
  BY NothingIsNoCast DEF LifeInv, RecordInv, PlateKnown
<1>4. Life!GiveUp(S)
  BY <1>1, <1>2, <1>3 DEF Life!GiveUp
<1>5. GrantInv'
  BY <1>1, <1>2, NothingIsNoCast DEF LifeInv, GrantInv
<1> HIDE DEF S
<1> QED BY <1>1, <1>4, <1>5, LifeSteps

\* Rows are written for wells in hand, or are refused.
LEMMA RecordLife ==
  ASSUME LifeInv, UNCHANGED <<board, free, batch, wet>>, doing' \in {doing, Nothing},
         NEW S \in SUBSET Hand, Write(S)
  PROVE  GrantInv' /\ Life!Next
<1>1. UNCHANGED <<Hand, Gone>>
  BY DEF Hand, Gone, WellsOf
<1>2. doing' \in Casts => doing' = doing
  BY NothingIsNoCast
<1>3. /\ rows' \cup lost' = rows \cup lost \cup S /\ lost' = (lost \cup S) \ rows'
      /\ \E kept \in SUBSET S : rows' = rows \cup kept
  BY Writes
<1>4. S \in SUBSET Well /\ Life!Record(S)
  BY <1>1, <1>3, Plates DEF Life!Record
<1> QED BY <1>1, <1>2, <1>3, <1>4, LifeSteps DEF LifeInv, GrantInv

\* A deposit that ends, well or badly, writes the row of its own well, or is refused it.
LEMMA EndCastLife ==
  ASSUME LifeInv, doing' \in {doing, Nothing}, UNCHANGED <<board, free, batch, wet>>,
         NEW done \in BOOLEAN, RecordCast(doing, done)
  PROVE  GrantInv' /\ [Life!Next]_(Life!life)
<1>1. CASE doing \in Casts /\ Write({<<board, doing.ch>>})
  <2>1. {<<board, doing.ch>>} \subseteq Hand
    BY <1>1 DEF LifeInv, GrantInv, Hand, WellsOf
  <2> QED BY <1>1, <2>1, RecordLife
<1>2. CASE UNCHANGED <<rows, lost>>
  BY <1>2, NoLife DEF wells
<1> QED BY <1>1, <1>2, CastWrites

\* A deposit is cast onto a well in hand, with everything before it on record.
LEMMA CastLife ==
  ASSUME LifeInv, NEW s \in Casts \cup Others, StartStep(s)
  PROVE  GrantInv' /\ [Life!Next]_(Life!life)
<1>1. /\ doing = Nothing /\ doing' = s /\ UNCHANGED <<board, free, batch, rows, lost>>
      /\ s \in Casts => s.ch \in ToSet(batch)
      /\ wet' = IF s \in Casts THEN wet \cup {<<board, s.ch>>} ELSE wet
  BY DEF StartStep, Workflow!StartStep, plates, round, Nothing
<1>2. UNCHANGED <<Hand, Gone>>
  BY <1>1 DEF Hand, Gone, WellsOf
<1>3. CASE s \in Casts
  <2>1. <<board, s.ch>> \in Hand
    BY <1>1, <1>3 DEF Hand, WellsOf
  <2>2. wet \subseteq rows \cup lost
    BY <1>1, NothingIsNoCast DEF LifeInv, RecordInv, PlateKnown
  <2>3. Life!Cast(<<board, s.ch>>)
    BY <1>1, <1>2, <1>3, <2>1, <2>2 DEF Life!Cast
  <2>4. {<<board, s.ch>>} \in SUBSET Well
    BY <2>1, Plates
  <2>5. Life!Next
    BY <2>3, <2>4 DEF Life!Next
  <2> QED BY <1>1, <1>2, <1>3, <2>1, <2>5 DEF LifeInv, GrantInv
<1>4. CASE s \notin Casts
  BY <1>1, <1>2, <1>4 DEF LifeInv, GrantInv, Life!life
<1> QED BY <1>3, <1>4

\* The rest of a round is the round without its first well.
LEMMA RestOfRound ==
  ASSUME GrantInv, batch \in Seq(Electrode), batch # <<>>
  PROVE  /\ Tail(batch) \in Seq(Electrode) /\ ToSet(Tail(batch)) \subseteq ToSet(batch)
         /\ \A j, k \in 1..Len(Tail(batch)) : j # k => Tail(batch)[j] # Tail(batch)[k]
<1>1. /\ Len(Tail(batch)) = Len(batch) - 1 /\ Len(batch) \in Nat
      /\ \A j \in 1..Len(Tail(batch)) : Tail(batch)[j] = batch[j + 1]
  OBVIOUS
<1>2. ToSet(Tail(batch)) \subseteq ToSet(batch)
  <2>1. DOMAIN Tail(batch) = 1..Len(Tail(batch)) /\ DOMAIN batch = 1..Len(batch)
    OBVIOUS
  <2> QED BY <1>1, <2>1 DEF ToSet
<1>3. \A j, k \in 1..Len(Tail(batch)) : j # k => Tail(batch)[j] # Tail(batch)[k]
  BY <1>1 DEF GrantInv
<1> QED BY <1>2, <1>3

\* A failed trial gives its round up, or keeps it in hand and ends the campaign.
LEMMA FailureLife ==
  ASSUME LifeInv, NEW exc, HandleFailure(exc), doing = Nothing,
         UNCHANGED <<board, free, wet, rows, lost, doing>>
  PROVE  GrantInv' /\ [Life!Next]_(Life!life)
<1>1. CASE UNCHANGED batch
  BY <1>1, NoLife DEF wells
<1>2. CASE batch' = <<>>
  <2>1. <<>> \in Seq(Electrode) /\ ToSet(<<>>) = {} /\ Len(<<>>) = 0
    BY DEF ToSet
  <2>2. \A j, k \in 1..Len(<<>>) : j # k => <<>>[j] # <<>>[k]
    BY <2>1
  <2>3. ToSet(<<>>) \subseteq ToSet(batch)
    BY <2>1
  <2> QED BY <1>2, <2>1, <2>2, <2>3, GiveUpLife
<1> QED BY <1>1, <1>2 DEF HandleFailure, NoteTrialFailure

\* Every step of the loop, of a workflow and of the operator is one in the life of wells,
\* or none.
LEMMA LifeStep ==
  ASSUME LifeInv, [Next]_vars
  PROVE  GrantInv' /\ [Life!Next]_(Life!life)
<1>1. CASE \/ Run \/ PauseGate \/ Released \/ BoardTimesOut \/ GateOpens \/ GateTimesOut
           \/ RoundClosed \/ Leave \/ \E n \in 0..BatchSize : Suggest(n)
           \/ Pause \/ Approve \/ Decline \/ BoardCancelled \/ UNCHANGED vars
  <2>1. UNCHANGED <<board, free, batch, wells, doing>>
    BY <1>1 DEF Run, PauseGate, Released, BoardTimesOut, GateOpens, GateTimesOut, RoundClosed,
       Leave, Suggest, Pause, Approve, Decline, BoardCancelled, vars, plates, round, wells, trial
  <2> QED BY <2>1, NoLife
<1>2. CASE \/ StartTrial \/ BoardInstalled \/ Resume \/ Abort \/ AbortSeen
           \/ EquilibrationOver \/ TrialReturns \/ TrialAborted
  <2>1. UNCHANGED <<board, free, batch, wells>> /\ doing' \in {doing, Nothing}
    BY <1>2 DEF StartTrial, BoardInstalled, Resume, Abort, AbortSeen, EquilibrationOver,
       TrialReturns, TrialAborted, plates, round, wells, Workflow!Begin, Workflow!Resume,
       Workflow!Abort, Workflow!SeeAbort, Workflow!Over, Workflow!Return, Nothing
  <2> QED BY <2>1, NoLife
<1>3. CASE Cycle
  <2>1. UNCHANGED <<batch, wells, doing>> /\ at = "cycle"
    BY <1>3 DEF Cycle, round, wells, trial
  <2>2. CASE UNCHANGED <<board, free>>
    BY <2>1, <2>2, NoLife
  <2>3. CASE free = {} /\ SwapBoard
    BY <2>1, <2>3, SwapLife
  <2> QED BY <1>3, <2>2, <2>3 DEF Cycle
<1>4. CASE Place
  BY <1>4, PlaceLife
<1>5. CASE TrialRaises \/ \E exc \in {"plan", "other"} : BuildFails(exc)
  <2>1. PICK exc : HandleFailure(exc)
    BY <1>5 DEF TrialRaises, BuildFails
  <2>2. doing = Nothing /\ UNCHANGED <<board, free, wet, rows, lost, doing>>
    BY <1>5, ChoicesAssumption DEF TrialRaises, BuildFails, plates, wells, trial,
       Workflow!Return, LifeInv, RecordInv, InFlight
  <2> QED BY <2>1, <2>2, FailureLife
<1>6. CASE \E s \in Casts \cup Others : StartStep(s)
  BY <1>6, CastLife
<1>7. CASE EndStep \/ LoseStep \/ LastStepEnds \/ \E cause \in StepFaults : StepRaises(cause)
  <2>1. doing' \in {doing, Nothing} /\ UNCHANGED <<board, free, batch, wet>>
    BY <1>7 DEF EndStep, LoseStep, LastStepEnds, StepRaises, Workflow!EndStep,
       Workflow!Finish, Workflow!Raise, Workflow!Over, plates, round, Nothing
  <2>2. RecordCast(doing, TRUE) \/ RecordCast(doing, FALSE)
    BY <1>7 DEF EndStep, LoseStep, LastStepEnds, StepRaises
  <2> QED BY <2>1, <2>2, EndCastLife
<1>8. CASE Settled
  <2>1. Write(WellsOf(batch) \ (rows \cup lost)) /\ UNCHANGED <<board, free, batch, wet, doing>>
    BY <1>8 DEF Settled, plates, round, trial
  <2>2. WellsOf(batch) \ (rows \cup lost) \in SUBSET Hand
    BY DEF Hand
  <2> QED BY <2>1, <2>2, RecordLife
<1>9. CASE \E how \in {"told", "converged", "untold", "failed"} : CloseWell(how)
  <2>1. /\ at = "closing" /\ batch # <<>> /\ batch' = Tail(batch)
        /\ UNCHANGED <<board, free, wet, rows, lost, doing>>
    BY <1>9 DEF CloseWell, plates, wells, trial
  <2>2. doing = Nothing /\ batch \in Seq(Electrode)
    BY <2>1 DEF LifeInv, RecordInv, InFlight, WellsKnown
  <2> QED BY <2>1, <2>2, RestOfRound, GiveUpLife DEF LifeInv
<1> QED
  BY <1>1, <1>2, <1>3, <1>4, <1>5, <1>6, <1>7, <1>8, <1>9 DEF Next, Proceed, Operate

\* A campaign begins with nothing in hand and the used wells given up.
LEMMA LifeInit == Init => GrantInv /\ Life!Init
<1> SUFFICES ASSUME Init PROVE GrantInv /\ Life!Init
  OBVIOUS
<1>1. Hand = {} /\ ToSet(batch) = {}
  BY DEF Init, Hand, WellsOf, ToSet
<1>2. Gone = {1} \X Occupied
  <2>1. board = 1 /\ free = Electrode \ Occupied /\ Occupied \subseteq Electrode
    BY SizesAssumption DEF Init, Electrode
  <2>2. Gone = {w \in Well : w[1] = 1 /\ w[2] \in Occupied}
    BY <1>1, <2>1 DEF Gone, Well
  <2>3. 1 \in 1..LastBoard
    BY SizesAssumption
  <2> QED BY <2>1, <2>2, <2>3 DEF Well
<1>3. wet = Gone /\ rows = Gone /\ lost = {}
  BY <1>2 DEF Init
<1> QED
  BY <1>1, <1>2, <1>3, SizesAssumption, NothingIsNoCast DEF Init, GrantInv, Life!Init

\* For any batch, plates, budget and limit, whatever fails and whatever the operator does:
\* no well is in two rounds, none of an earlier session is in any, and no round gives up a
\* well that holds material before the store was asked for its row.
THEOREM OneLifeHolds == Spec => OneLife
<1>1. Init => Life!Init /\ WellsKnown /\ RecordInv /\ GrantInv
  BY LifeInit, WellsInit, RecordInit
<1>2. WellsKnown /\ RecordInv /\ GrantInv /\ [Next]_vars
      => WellsKnown' /\ RecordInv' /\ GrantInv' /\ [Life!Next]_(Life!life)
  BY WellsStep, RecordStep, LifeStep DEF LifeInv
<1> QED
  BY <1>1, <1>2, PTL DEF Spec, OneLife, Life!Spec

--------------------------------------------------------------------------------
(* Types.                                                                  *)

\* Where everybody is; an executor is held exactly while a workflow runs.
PlacesTyped ==
  /\ st \in States /\ at \in Places
  /\ reason \in {"none", "gate", "fault", "streak", "abort"}
  /\ ex \in {"none", "running", "paused", "aborted", "over"}
  /\ doing \in Casts \cup Others \cup {Nothing}
  /\ ending \in {"none", "results", "aborted"} \cup StepFaults
  /\ ex = "none" <=> at \notin {"trial", "equilibrate"}
  /\ ending # "none" <=> ex = "over"

\* The flags of the controls and of a round.
FlagsTyped ==
  /\ pauseReq \in BOOLEAN /\ paused \in BOOLEAN /\ abortReq \in BOOLEAN
  /\ approved \in BOOLEAN /\ stopWait \in BOOLEAN
  /\ due \in BOOLEAN /\ conv \in BOOLEAN

\* The plates that were installed are plates of the campaign.
BoardsTyped == installed \in 1..LastBoard /\ stale \in BOOLEAN

\* A failure is one of a well that was closed, and a trial that fails has one.
CountsTyped ==
  /\ failures \in Nat /\ failures <= iter
  /\ ckpt \in [kept : BOOLEAN, iter : 0..MaxIterations, failures : 0..MaxIterations]
  /\ ask \in 0..BatchSize
  /\ at \in {"build", "trial"} => batch # <<>>

\* A campaign begins with all of it in range.
LEMMA TypesInit == Init => PlacesTyped /\ FlagsTyped /\ BoardsTyped /\ CountsTyped
<1> SUFFICES ASSUME Init PROVE PlacesTyped /\ FlagsTyped /\ BoardsTyped /\ CountsTyped
  OBVIOUS
<1>1. PlacesTyped
  BY DEF Init, PlacesTyped, States, Places, Awaits
<1>2. FlagsTyped
  BY DEF Init, FlagsTyped
<1>3. BoardsTyped
  <2>1. installed \in 1..LastBoard
    BY SizesAssumption DEF Init
  <2>2. stale \in BOOLEAN
    BY DEF Init
  <2> QED BY <2>1, <2>2 DEF BoardsTyped
<1>4. CountsTyped
  BY SizesAssumption DEF Init, CountsTyped
<1> QED BY <1>1, <1>2, <1>3, <1>4

\* What the operator and the loop do to the flags leaves them flags.
LEMMA FlagsStep == FlagsTyped /\ [Next]_vars => FlagsTyped'
<1> SUFFICES ASSUME FlagsTyped, [Next]_vars PROVE FlagsTyped'
  OBVIOUS
<1> USE DEF FlagsTyped
<1>1. CASE PauseGate
  BY <1>1 DEF PauseGate, round
<1>2. CASE \E n \in 0..BatchSize : Suggest(n)
  BY <1>2 DEF Suggest
<1>3. CASE EndStep \/ LastStepEnds
  BY <1>3 DEF EndStep, LastStepEnds, HoldIfQuiescent, round
<1>4. CASE \E how \in {"told", "converged", "untold", "failed"} : CloseWell(how)
  BY <1>4 DEF CloseWell, controls
<1>5. CASE RoundClosed
  BY <1>5 DEF RoundClosed, controls
<1>6. CASE Leave
  BY <1>6 DEF Leave, ParkIfAborted, round
<1>7. CASE Pause \/ Resume \/ Abort \/ Approve \/ Decline
  BY <1>7 DEF Pause, Resume, Abort, Approve, Decline, round
<1>8. CASE TrialRaises \/ \E exc \in {"plan", "other"} : BuildFails(exc)
  BY <1>8 DEF TrialRaises, BuildFails, controls
<1>9. CASE Place
  BY <1>9 DEF Place, controls
<1>10. CASE \/ Run \/ Released \/ Cycle \/ BoardTimesOut \/ EquilibrationOver \/ GateOpens
            \/ GateTimesOut \/ StartTrial \/ BoardCancelled \/ BoardInstalled
  BY <1>10 DEF Run, Released, Cycle, BoardTimesOut, EquilibrationOver, GateOpens,
     GateTimesOut, StartTrial, BoardCancelled, BoardInstalled, controls, round
<1>11. CASE \/ LoseStep \/ AbortSeen \/ TrialReturns \/ TrialAborted \/ Settled
            \/ \E s \in Casts \cup Others : StartStep(s)
            \/ \E cause \in StepFaults : StepRaises(cause)
            \/ UNCHANGED vars
  BY <1>11 DEF LoseStep, AbortSeen, TrialReturns, TrialAborted, Settled, StartStep,
     StepRaises, vars, controls, round
<1> QED
  BY <1>1, <1>2, <1>3, <1>4, <1>5, <1>6, <1>7, <1>8, <1>9, <1>10, <1>11
     DEF Next, Proceed, Operate

\* A state that is set is one of LoopState, or the terminal one there was.
LEMMA SetStateTyped ==
  ASSUME NEW new \in States, st \in States, SetState(new)
  PROVE  st' \in States
BY DEF SetState

\* A failed trial leaves the loop in the states it has.
LEMMA FailureTyped ==
  ASSUME PlacesTyped, NEW exc, HandleFailure(exc)
  PROVE  /\ st' \in States /\ at' \in {"gate", "leaving"}
         /\ reason' \in {"none", "gate", "fault", "streak", "abort"}
<1>1. st' \in States
  BY DEF HandleFailure, NoteTrialFailure, Park, SetState, PlacesTyped, States, Terminal
<1> QED
  BY <1>1 DEF HandleFailure, NoteTrialFailure, Park, Goto, PlacesTyped, outcome

\* The loop's own steps.
LEMMA LoopTyped ==
  ASSUME PlacesTyped,
         \/ Run \/ PauseGate \/ Released \/ Cycle \/ BoardTimesOut
         \/ \E n \in 0..BatchSize : Suggest(n)
         \/ GateOpens \/ GateTimesOut \/ Place \/ Settled \/ RoundClosed \/ Leave
         \/ \E how \in {"told", "converged", "untold", "failed"} : CloseWell(how)
         \/ \E exc \in {"plan", "other"} : BuildFails(exc)
         \/ Pause \/ Approve \/ Decline \/ BoardCancelled \/ UNCHANGED vars
  PROVE  PlacesTyped'
<1>1. UNCHANGED <<ex, doing, ending>>
  BY DEF Run, PauseGate, Released, Cycle, BoardTimesOut, Suggest, GateOpens, GateTimesOut,
     Place, Settled, RoundClosed, Leave, CloseWell, BuildFails, Pause, Approve, Decline,
     BoardCancelled, vars, trial
<1>2. CASE Run \/ PauseGate \/ Released \/ Cycle \/ BoardTimesOut \/ BoardCancelled
  BY <1>1, <1>2 DEF Run, PauseGate, Released, Cycle, SwapBoard, BoardTimesOut, Park, Goto,
     BoardCancelled, SetState, PlacesTyped, States, Terminal, Places, Awaits, outcome
<1>3. CASE \/ \E n \in 0..BatchSize : Suggest(n) 
           \/ GateOpens \/ GateTimesOut \/ Place
  BY <1>1, <1>3 DEF Suggest, GateOpens, GateTimesOut, Place, Park, Goto,
     SetState, PlacesTyped, States, Terminal, Places, Awaits, outcome
<1>4. CASE \/ Settled \/ RoundClosed \/ Leave
           \/ \E how \in {"told", "converged", "untold", "failed"} : CloseWell(how)
  BY <1>1, <1>4 DEF Settled, RoundClosed, Leave, ParkIfAborted, CloseWell, Park, Goto,
     SetState, PlacesTyped, States, Terminal, Places, Awaits, outcome
<1>5. CASE \E exc \in {"plan", "other"} : BuildFails(exc)
  <2>1. PICK exc : HandleFailure(exc) /\ at = "build"
    BY <1>5 DEF BuildFails
  <2> QED BY <1>1, <2>1, FailureTyped DEF PlacesTyped, Places
<1>6. CASE Pause \/ Approve \/ Decline \/ UNCHANGED vars
  BY <1>1, <1>6 DEF Pause, Approve, Decline, vars, outcome, SetState, PlacesTyped,
     States, Terminal
<1> QED BY <1>2, <1>3, <1>4, <1>5, <1>6

\* The steps of a workflow.
LEMMA WorkflowTyped ==
  ASSUME PlacesTyped, InFlight,
         \/ BoardInstalled \/ EquilibrationOver \/ StartTrial
         \/ \E s \in Casts \cup Others : StartStep(s)
         \/ EndStep \/ LoseStep \/ LastStepEnds \/ AbortSeen
         \/ \E cause \in StepFaults : StepRaises(cause)
         \/ TrialReturns \/ TrialAborted \/ TrialRaises
         \/ Resume \/ Abort
  PROVE  PlacesTyped'
<1> USE DEF PlacesTyped
<1>1. CASE BoardInstalled \/ StartTrial
  BY <1>1 DEF BoardInstalled, StartTrial, Workflow!Begin, Goto, SetState, States, Places,
     Awaits, outcome
<1>2. CASE EquilibrationOver \/ TrialReturns \/ TrialAborted
  BY <1>2 DEF EquilibrationOver, TrialReturns, TrialAborted, Workflow!Return, Goto, SetState,
     States, Terminal, Places, Awaits, outcome
<1>3. CASE TrialRaises
  <2>1. /\ HandleFailure(Wrapped(ending)) /\ ex' = "none" /\ ending' = "none"
        /\ UNCHANGED doing
    BY <1>3 DEF TrialRaises, Workflow!Return
  <2> QED BY <2>1, FailureTyped DEF Places
<1>4. CASE \E s \in Casts \cup Others : StartStep(s)
  BY <1>4 DEF StartStep, Workflow!StartStep, outcome
<1>5. CASE EndStep \/ LoseStep
  BY <1>5 DEF EndStep, LoseStep, Workflow!EndStep, Workflow!Going, outcome, Nothing
<1>6. CASE \/ LastStepEnds \/ AbortSeen \/ \E cause \in StepFaults : StepRaises(cause)
  BY <1>6, ChoicesAssumption DEF LastStepEnds, AbortSeen, StepRaises, Workflow!Finish,
     Workflow!SeeAbort, Workflow!Raise, Workflow!Over, Workflow!Going, outcome, Nothing
<1>7. CASE Resume \/ Abort
  BY <1>7 DEF Resume, Abort, Workflow!Resume, Workflow!Abort, outcome
<1> QED BY <1>1, <1>2, <1>3, <1>4, <1>5, <1>6, <1>7

\* A round's count moves by what is in hand, which the budget covers.
LEMMA AdvanceTyped ==
  ASSUME WellsKnown, CountsTyped, NEW n \in 1..Len(batch), NEW streak \in 0..(failures + 1),
         Advance(n, streak)
  PROVE  /\ failures' \in Nat /\ failures' <= iter'
         /\ ckpt' \in [kept : BOOLEAN, iter : 0..MaxIterations, failures : 0..MaxIterations]
<1>1. iter + n \in 0..MaxIterations /\ streak \in 0..MaxIterations /\ streak <= iter + n
  BY SizesAssumption DEF WellsKnown, CountsTyped
<1> QED BY <1>1 DEF Advance

\* The counts.
LEMMA CountsStep == WellsKnown /\ CountsTyped /\ [Next]_vars => CountsTyped'
<1> SUFFICES ASSUME WellsKnown, CountsTyped, [Next]_vars PROVE CountsTyped'
  OBVIOUS
<1>1. Len(batch) \in Nat /\ (batch # <<>> => Len(batch) >= 1) /\ failures \in Nat
  BY DEF WellsKnown, CountsTyped
<1>2. ASSUME NEW exc, HandleFailure(exc), at \in {"build", "trial"}, UNCHANGED ask
      PROVE CountsTyped'
  <2>1. at' \in {"gate", "leaving"}
    BY <1>2 DEF HandleFailure, NoteTrialFailure, Goto
  <2>2. CASE UNCHANGED counts
    BY <1>2, <2>1, <2>2 DEF CountsTyped, counts
  <2>3. CASE NoteTrialFailure
    <3>1. Advance(Len(batch), failures + 1) /\ batch # <<>>
      BY <1>2, <2>3 DEF NoteTrialFailure, CountsTyped
    <3> QED BY <1>1, <1>2, <2>1, <3>1, AdvanceTyped DEF CountsTyped
  <2> QED BY <1>2, <2>2, <2>3 DEF HandleFailure
<1>3. CASE TrialRaises \/ \E exc \in {"plan", "other"} : BuildFails(exc)
  BY <1>2, <1>3 DEF TrialRaises, BuildFails
<1>4. CASE \E how \in {"told", "converged", "untold", "failed"} : CloseWell(how)
  <2>1. /\ \E streak \in 0..(failures + 1) : Advance(1, streak)
        /\ batch # <<>> /\ at' = "closing" /\ UNCHANGED ask
    BY <1>1, <1>4 DEF CloseWell, CloseCounting
  <2> QED BY <1>1, <2>1, AdvanceTyped DEF CountsTyped
<1>5. CASE Leave
  <2>1. /\ UNCHANGED <<iter, failures, ask>> /\ at' = "ended"
        /\ ckpt' = [ckpt EXCEPT !.kept = @ /\ reason' # "none"]
    BY <1>5 DEF Leave, Goto, round
  <2> QED BY <2>1 DEF CountsTyped
<1>6. CASE \E n \in 0..BatchSize : Suggest(n)
  BY <1>6 DEF Suggest, Goto, counts, CountsTyped
<1>7. CASE Place
  <2>1. /\ batch' = NextElectrodes(ask) /\ at' = "build" /\ UNCHANGED <<counts, ask>>
        /\ ask \in 1..BatchSize /\ ask <= Cardinality(free)
    BY <1>7 DEF Place, Allocate, Goto, WellsKnown
  <2>2. Len(batch') = ask /\ ask >= 1
    BY <2>1, GrantsFirst, SizesAssumption DEF WellsKnown
  <2> QED BY <2>1, <2>2 DEF CountsTyped, counts
<1>8. CASE \/ Run \/ PauseGate \/ Released \/ Cycle \/ BoardTimesOut \/ EquilibrationOver
           \/ GateOpens \/ GateTimesOut \/ TrialReturns \/ TrialAborted \/ Settled
           \/ RoundClosed \/ BoardCancelled \/ BoardInstalled
  <2>1. UNCHANGED <<counts, ask>> /\ at' \notin {"build", "trial"}
    BY <1>8 DEF Run, PauseGate, Released, Cycle, SwapBoard, BoardTimesOut, EquilibrationOver,
       GateOpens, GateTimesOut, TrialReturns, TrialAborted, Settled, RoundClosed,
       BoardCancelled, BoardInstalled, Goto, round
  <2> QED BY <2>1 DEF CountsTyped, counts
<1>9. CASE \/ StartTrial \/ \E s \in Casts \cup Others : StartStep(s)
           \/ EndStep \/ LoseStep \/ LastStepEnds \/ AbortSeen
           \/ \E cause \in StepFaults : StepRaises(cause)
           \/ Pause \/ Resume \/ Abort \/ Approve \/ Decline \/ UNCHANGED vars
  <2>1. UNCHANGED <<counts, ask, batch>> /\ (UNCHANGED at \/ at = "build")
    BY <1>9 DEF StartTrial, StartStep, EndStep, LoseStep, LastStepEnds, AbortSeen,
       StepRaises, Pause, Resume, Abort, Approve, Decline, vars, round
  <2> QED BY <2>1 DEF CountsTyped, counts
<1> QED
  BY <1>3, <1>4, <1>5, <1>6, <1>7, <1>8, <1>9 DEF Next, Proceed, Operate

\* The plate that is installed is the allocator's.
LEMMA BoardsStep == LifeInv /\ BoardsTyped /\ [Next]_vars => BoardsTyped'
<1> SUFFICES ASSUME LifeInv, BoardsTyped, [Next]_vars PROVE BoardsTyped'
  OBVIOUS
<1>1. installed' \in {installed, board} /\ stale' \in {stale, TRUE, FALSE}
  BY DEF Next, Proceed, Operate, Run, PauseGate, Released, Cycle, BoardTimesOut,
     EquilibrationOver, Suggest, GateOpens, GateTimesOut, Place, StartTrial, BuildFails,
     StartStep, EndStep, LoseStep, LastStepEnds, AbortSeen, StepRaises, TrialReturns,
     TrialAborted, TrialRaises, Settled, RoundClosed, Leave, CloseWell, Pause, Resume, Abort,
     Approve, Decline, BoardCancelled, BoardInstalled, PersistBoard, vars, plates
<1> QED BY <1>1 DEF BoardsTyped, LifeInv, GrantInv

\* For every batch, plates, budget and limit, every variable of the loop keeps its range:
\* no count passes the budget, no plate the last one, no round the batch size, and the loop
\* holds an executor exactly while it awaits one.
THEOREM CampaignLoopTyped == Spec => []TypeOK
<1> DEFINE I == /\ LifeInv /\ ParksKnown
                /\ PlacesTyped /\ FlagsTyped /\ BoardsTyped /\ CountsTyped
<1>1. Init => I
  BY LifeInit, WellsInit, RecordInit, ParksInit, TypesInit DEF LifeInv
<1>2. I /\ [Next]_vars => I'
  <2> SUFFICES ASSUME I, [Next]_vars PROVE I'
    OBVIOUS
  <2>1. LifeInv' /\ ParksKnown'
    BY WellsStep, RecordStep, LifeStep, ParksStep DEF LifeInv
  <2>2. FlagsTyped' /\ BoardsTyped' /\ CountsTyped'
    BY FlagsStep, BoardsStep, CountsStep DEF LifeInv
  <2>3. PlacesTyped'
    BY LoopTyped, WorkflowTyped DEF Next, Proceed, Operate, LifeInv, RecordInv
  <2> QED BY <2>1, <2>2, <2>3
<1>3. I => TypeOK
  <2> SUFFICES ASSUME I PROVE TypeOK
    OBVIOUS
  <2>1. iter \in 0..MaxIterations /\ failures \in 0..MaxIterations /\ spent \in 0..MaxIterations
    BY SizesAssumption DEF LifeInv, WellsKnown, CountsTyped
  <2>2. wet \in SUBSET Well /\ rows \in SUBSET Well /\ lost \in SUBSET Well
    BY Plates DEF LifeInv, GrantInv
  <2>3. pointer \in 1..LastBoard /\ parks \in 0..2
    <3>1. pointer \in 1..installed
      BY DEF LifeInv, RecordInv, PlateKnown
    <3>2. installed \in 1..LastBoard
      BY DEF BoardsTyped
    <3> QED BY <3>1, <3>2, SizesAssumption DEF ParksKnown
  <2>4. /\ pauseReq \in BOOLEAN /\ paused \in BOOLEAN /\ abortReq \in BOOLEAN
        /\ approved \in BOOLEAN /\ stopWait \in BOOLEAN /\ due \in BOOLEAN /\ conv \in BOOLEAN
    BY DEF FlagsTyped
  <2>5. /\ board \in 1..LastBoard /\ installed \in 1..LastBoard /\ free \in SUBSET Electrode
        /\ ask \in 0..BatchSize /\ batch \in Seq(Electrode) /\ Len(batch) <= BatchSize
        /\ ckpt \in [kept : BOOLEAN, iter : 0..MaxIterations, failures : 0..MaxIterations]
    BY DEF LifeInv, GrantInv, WellsKnown, BoardsTyped, CountsTyped
  <2>6. stale \in BOOLEAN
    BY DEF BoardsTyped
  <2>7. PlacesTyped
    OBVIOUS
  <2> HIDE DEF I
  <2> QED BY <2>1, <2>2, <2>3, <2>4, <2>5, <2>6, <2>7 DEF TypeOK, PlacesTyped
<1> QED
  BY <1>1, <1>2, <1>3, PTL DEF Spec

--------------------------------------------------------------------------------
(* The resume point.                                                       *)

\* The checkpoint says what the loop counts, from the first closed well until the campaign
\* is left on purpose.
CheckpointKnown ==
  /\ failures \in Nat /\ ckpt \in [kept : BOOLEAN, iter : Nat, failures : Nat]
  /\ ckpt.kept => ckpt.iter = iter /\ ckpt.failures = failures
  /\ iter > 0 /\ (at = "ended" => reason # "none") => ckpt.kept

\* Nothing is counted at the start.
LEMMA CheckpointInit == Init => CheckpointKnown
BY DEF Init, CheckpointKnown

\* Counting and writing are one operation, with any number of wells.
LEMMA AdvanceKeeps ==
  ASSUME CheckpointKnown, iter \in Nat, NEW n \in Nat, NEW streak \in Nat,
         Advance(n, streak)
  PROVE  CheckpointKnown'
BY DEF Advance, CheckpointKnown

\* The streak and the checkpoint only move together.
LEMMA CheckpointStep == WellsKnown /\ CheckpointKnown /\ [Next]_vars => CheckpointKnown'
<1> SUFFICES ASSUME WellsKnown, CheckpointKnown, [Next]_vars PROVE CheckpointKnown'
  OBVIOUS
<1>1. iter \in Nat /\ failures \in Nat /\ Len(batch) \in Nat
  BY DEF WellsKnown, CheckpointKnown
<1>2. CASE at = "ended" /\ UNCHANGED <<counts, at, reason>>
  BY <1>2 DEF CheckpointKnown, counts
<1>3. CASE UNCHANGED counts /\ at # "ended"
  BY <1>3 DEF CheckpointKnown, counts
<1>4. CASE Leave
  <2>1. /\ UNCHANGED <<iter, failures>> /\ at = "leaving" /\ at' = "ended"
        /\ ckpt' = [ckpt EXCEPT !.kept = @ /\ reason' # "none"]
    BY <1>4 DEF Leave, Goto
  <2>2. ckpt \in [kept : BOOLEAN, iter : Nat, failures : Nat]
    BY DEF CheckpointKnown
  <2>3. /\ ckpt' \in [kept : BOOLEAN, iter : Nat, failures : Nat]
        /\ ckpt'.kept <=> ckpt.kept /\ reason' # "none"
        /\ ckpt'.iter = ckpt.iter /\ ckpt'.failures = ckpt.failures
    BY <2>1, <2>2
  <2> QED BY <2>1, <2>3 DEF CheckpointKnown
<1>5. CASE \E how \in {"told", "converged", "untold", "failed"} : CloseWell(how)
  <2>1. \E streak \in Nat : Advance(1, streak)
    BY <1>1, <1>5 DEF CloseWell, CloseCounting
  <2> QED BY <1>1, <2>1, AdvanceKeeps
<1>6. ASSUME NEW exc, HandleFailure(exc), at \in {"build", "trial"} PROVE CheckpointKnown'
  <2>1. CASE NoteTrialFailure
    BY <1>1, <2>1, AdvanceKeeps DEF NoteTrialFailure
  <2>2. CASE UNCHANGED counts
    BY <1>3, <1>6, <2>2
  <2> QED BY <1>6, <2>1, <2>2 DEF HandleFailure
<1>7. CASE TrialRaises \/ \E exc \in {"plan", "other"} : BuildFails(exc)
  BY <1>6, <1>7 DEF TrialRaises, BuildFails
<1>8. CASE \/ Run \/ PauseGate \/ Released \/ Cycle \/ BoardTimesOut \/ EquilibrationOver
           \/ GateOpens \/ GateTimesOut \/ Place \/ StartTrial
           \/ \E n \in 0..BatchSize : Suggest(n)
           \/ TrialReturns \/ TrialAborted \/ Settled \/ RoundClosed
  <2>1. UNCHANGED counts /\ at # "ended"
    BY <1>8 DEF Run, PauseGate, Released, Cycle, BoardTimesOut, EquilibrationOver, GateOpens,
       GateTimesOut, Place, StartTrial, Suggest, TrialReturns, TrialAborted, Settled,
       RoundClosed
  <2> QED BY <1>3, <2>1
<1>9. CASE \/ \E s \in Casts \cup Others : StartStep(s)
           \/ EndStep \/ LoseStep \/ LastStepEnds \/ AbortSeen
           \/ \E cause \in StepFaults : StepRaises(cause)
           \/ Operate \/ UNCHANGED vars
  <2>1. UNCHANGED <<counts, reason>> /\ (UNCHANGED at \/ at = "board")
    BY <1>9 DEF StartStep, EndStep, LoseStep, LastStepEnds, AbortSeen, StepRaises, Operate,
       Pause, Resume, Abort, Approve, Decline, BoardCancelled, BoardInstalled, outcome, vars
  <2> QED BY <1>2, <1>3, <2>1
<1> QED
  BY <1>4, <1>5, <1>7, <1>8, <1>9 DEF Next, Proceed

\* The checkpoint carries the streak and the count that the loop has, and a parked campaign
\* keeps it: whatever fails and whenever it ends, the next session resumes from what was.
THEOREM ResumePointHolds == Spec => []ResumePoint
<1>1. WellsKnown /\ ParksKnown /\ CheckpointKnown => ResumePoint
  BY DEF WellsKnown, ParksKnown, CheckpointKnown, ResumePoint
<1> QED
  BY <1>1, WellsHold, ParksInit, ParksStep, CheckpointInit, CheckpointStep, PTL DEF Spec
================================================================================
