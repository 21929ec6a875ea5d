------------------------------ MODULE TiersProofs -------------------------------
(* What a tiered run promises, for any workflow, instruments and pool. *)
EXTENDS Tiers, FiniteSetTheorems, TLAPS

\* The tiers that are over are done with, and no step is touched before its tier.
TierByTier ==
  /\ \A s \in passed : step[s] = "done" /\ Needs[s] \subseteq passed
  /\ \A s \in Steps \ passed : step[s] # "waiting" =>
       s \in Tier /\ phase \in {"tier", "teardown", "over"}
  /\ phase = "tier" => \A s \in Tier : step[s] # "waiting"
  /\ \A s \in Steps : step[s] \in InFlight => phase = "tier"

\* A step in flight has an attempt left to use up.
Attempts ==
  \A s \in Steps : /\ step[s] = "waiting" => tries[s] = 0
                   /\ step[s] \in InFlight => tries[s] <= Retry[s]

\* Who is past the lock of an instrument has it.
Locked ==
  /\ \A s \in Steps : step[s] \in {"queued", "called"} => locks[On[s]] = s
  /\ closing.at \in {"queued", "called"} => locks[closing.inst] = "teardown"
  /\ closing.at # "none" => closing.inst \in Instruments /\ phase = "teardown"

IInv == TierTypeOK /\ TierByTier /\ Attempts /\ Locked

\* Before the run nothing is touched.
LEMMA Starts == TierInit => IInv
BY StepAssumption
   DEF TierInit, IInv, TierTypeOK, TierByTier, Attempts, Locked, InFlight, Caller, NoCall, Tier

--------------------------------------------------------------------------------
(* A step's own moves.                                                     *)

\* A step in flight is in the tier in hand.
LEMMA FlightInTier ==
  ASSUME IInv, NEW s \in Steps, step[s] \in InFlight
  PROVE  phase = "tier" /\ s \in Tier /\ s \notin passed
BY DEF IInv, TierTypeOK, TierByTier, InFlight

\* A step that moves on in its tier leaves the order of the tiers.
LEMMA StepKeepsTiers ==
  ASSUME IInv, NEW s \in Steps, step[s] \in InFlight, UNCHANGED <<phase, passed>>,
         NEW what \in {"done", "failed"} \cup InFlight, Becomes(s, what)
  PROVE  /\ TierByTier'
         /\ step' \in [Steps -> {"waiting", "done", "failed"} \cup InFlight]
         /\ step'[s] = what /\ \A r \in Steps : r # s => step'[r] = step[r]
<1>1. phase = "tier" /\ s \in Tier /\ s \notin passed
  BY FlightInTier
<1>2. /\ step' \in [Steps -> {"waiting", "done", "failed"} \cup InFlight]
      /\ step'[s] = what /\ \A r \in Steps : r # s => step'[r] = step[r]
  BY DEF IInv, TierTypeOK, Becomes
<1>3. what # "waiting" /\ passed \subseteq Steps
  BY DEF InFlight, IInv, TierTypeOK
<1>4. Tier' = Tier
  BY DEF Tier
<1>5. phase' = "tier" /\ passed' = passed
  BY <1>1
<1>6. \A r \in passed : r # s /\ r \in Steps
  BY <1>1, <1>3
<1>7. \A r \in passed' : step'[r] = "done" /\ Needs[r] \subseteq passed'
  BY <1>2, <1>5, <1>6 DEF IInv, TierByTier
<1>8. \A r \in Steps \ passed' : step'[r] # "waiting" =>
        r \in Tier' /\ phase' \in {"tier", "teardown", "over"}
  BY <1>1, <1>2, <1>4, <1>5 DEF IInv, TierByTier
<1>9. \A r \in Tier' : step'[r] # "waiting"
  BY <1>1, <1>2, <1>3, <1>4 DEF IInv, TierByTier, Tier
<1>10. TierByTier'
  BY <1>5, <1>7, <1>8, <1>9 DEF TierByTier, InFlight
<1> QED BY <1>2, <1>10

\* Nothing a step does by itself touches what the other steps rest on.
LEMMA StepKeepsAll ==
  ASSUME IInv, NEW s \in Steps, StepNext(s)
  PROVE  IInv'
<1> USE DEF InFlight
<1>1. step[s] \in InFlight /\ UNCHANGED <<runState, phase, passed, undone, closing>>
  BY DEF StepNext, GetLock, Call, Answer, Raise, Timeout
<1>2. phase = "tier" /\ closing.at = "none"
  BY <1>1, FlightInTier DEF IInv, Locked, TierTypeOK
<1>3. PICK what \in {"done", "failed"} \cup InFlight : Becomes(s, what)
  BY DEF StepNext, GetLock, Call, Answer, Raise, Timeout, Fails
<1>4. /\ TierByTier'
      /\ step' \in [Steps -> {"waiting", "done", "failed"} \cup InFlight]
      /\ step'[s] = what /\ \A r \in Steps : r # s => step'[r] = step[r]
  BY <1>1, <1>3, StepKeepsTiers
<1>5. /\ Attempts' /\ tries' \in [Steps -> Nat] /\ \A r \in Steps : tries'[r] <= Retry[r] + 1
      /\ \A x \in stray' : x[1] \in Steps \ Coroutine /\ x[2] \in 1..Retry[x[1]] + 1
  <2>1. CASE UNCHANGED <<tries, stray>>
    <3>1. what \in InFlight \/ what = "done"
      <4>1. ~Fails(s)
        <5>1. tries[s] \in Nat /\ tries \in [Steps -> Nat]
          BY DEF IInv, TierTypeOK
        <5>2. Fails(s) => tries'[s] = tries[s] + 1
          BY <5>1 DEF Fails
        <5> QED BY <2>1, <5>1, <5>2
      <4>2. Becomes(s, "queued") \/ Becomes(s, "called") \/ Becomes(s, "done")
        BY <4>1 DEF StepNext, GetLock, Call, Answer, Raise, Timeout
      <4> QED BY <1>4, <4>2 DEF Becomes, IInv, TierTypeOK
    <3> QED BY <1>1, <1>4, <2>1 DEF IInv, TierTypeOK, Attempts
  <2>2. CASE /\ Fails(s)
             /\ stray' = stray \/ (InThread(s) /\ stray' = stray \cup {<<s, tries[s] + 1>>})
    <3>1. tries[s] \in Nat /\ tries[s] <= Retry[s] /\ Retry[s] \in Nat
      BY <1>1, StepAssumption DEF IInv, TierTypeOK, Attempts
    <3>2. tries' \in [Steps -> Nat] /\ tries'[s] = tries[s] + 1
          /\ \A r \in Steps : r # s => tries'[r] = tries[r]
      BY <2>2, <3>1 DEF Fails, IInv, TierTypeOK
    <3>3. step'[s] = IF tries[s] < Retry[s] THEN "asking" ELSE "failed"
      BY <2>2 DEF Fails, Becomes, IInv, TierTypeOK
    <3>4. Attempts'
      BY <1>4, <3>1, <3>2, <3>3 DEF IInv, Attempts
    <3>5. \A x \in stray' : x[1] \in Steps \ Coroutine /\ x[2] \in 1..Retry[x[1]] + 1
      BY <2>2, <3>1 DEF IInv, TierTypeOK, InThread
    <3> QED BY <3>1, <3>2, <3>4, <3>5 DEF IInv, TierTypeOK
  <2> QED BY <2>1, <2>2 DEF StepNext, GetLock, Call, Answer, Raise, Timeout
<1>6. locks' \in [Instruments -> Caller \cup {Unheld}] /\ Locked'
  <2>1. /\ On[s] \in Instruments /\ locks \in [Instruments -> Caller \cup {Unheld}]
        /\ s \in Caller /\ Unheld \notin Steps
        /\ \A r \in Steps : On[r] \in Instruments
    BY StepAssumption DEF IInv, TierTypeOK, Caller
  <2>2. CASE step[s] = "asking"
    <3>1. (Take(On[s], s) /\ what = "queued") \/ (UNCHANGED locks /\ what \in {"asking", "failed"})
      BY <1>3, <1>4, <2>2, StepAssumption
         DEF StepNext, GetLock, Call, Answer, Raise, Timeout, Fails, Becomes, IInv, TierTypeOK
    <3> QED BY <1>1, <1>2, <1>4, <2>1, <3>1 DEF Take, IInv, Locked
  <2>3. CASE step[s] \in {"queued", "called"}
    <3>1. \/ UNCHANGED locks /\ what = "called"
          \/ GiveUp(On[s]) /\ what \in {"done", "asking", "failed"}
      BY <1>3, <1>4, <2>3, StepAssumption
         DEF StepNext, GetLock, Call, Answer, Raise, Timeout, Fails, Becomes, IInv, TierTypeOK
    <3>2. \A r \in Steps : r # s /\ step[r] \in {"queued", "called"} => On[r] # On[s]
      BY <2>3 DEF IInv, Locked
    <3> QED BY <1>1, <1>2, <1>4, <2>1, <2>3, <3>1, <3>2 DEF GiveUp, IInv, Locked
  <2> QED BY <1>1, <2>2, <2>3
<1> QED BY <1>1, <1>4, <1>5, <1>6 DEF IInv, TierTypeOK

--------------------------------------------------------------------------------
(* The run's moves.                                                        *)

\* A tier begins with all it needs done, and ends with nothing in flight.
LEMMA TiersKeepAll ==
  ASSUME IInv, BeginTier \/ SeeAbort \/ EndTier \/ CompleteTiers
  PROVE  IInv'
<1> USE StepAssumption DEF InFlight
<1>1. CASE BeginTier
  <2>1. Tier' = Tier /\ Tier \subseteq Steps \ passed
    BY <1>1 DEF BeginTier, Tier
  <2>2. \A s \in Steps : step'[s] = IF s \in Tier THEN "asking" ELSE step[s]
    BY <1>1 DEF BeginTier
  <2>3. \A s \in Steps \ passed : step[s] = "waiting"
    BY <1>1 DEF BeginTier, IInv, TierByTier
  <2>4. TierTypeOK' /\ closing' = closing /\ locks' = locks /\ phase' = "tier" /\ phase = "boundary"
    BY <1>1, <2>1 DEF BeginTier, IInv, TierTypeOK
  <2>5. TierByTier'
    BY <1>1, <2>1, <2>2, <2>3 DEF BeginTier, IInv, TierByTier, TierTypeOK
  <2>6. Attempts'
    BY <1>1, <2>1, <2>2, <2>3 DEF BeginTier, IInv, Attempts, TierTypeOK
  <2>7. Locked'
    BY <2>2, <2>4 DEF IInv, Locked
  <2> QED BY <2>4, <2>5, <2>6, <2>7 DEF IInv
<1>2. CASE SeeAbort \/ CompleteTiers
  <2>1. Tier' = Tier /\ phase = "boundary" /\ phase' = "teardown"
    BY <1>2 DEF SeeAbort, CompleteTiers, Tier
  <2>2. TierTypeOK' /\ Attempts' /\ Locked'
    BY <1>2 DEF SeeAbort, CompleteTiers, IInv, TierTypeOK, Attempts, Locked
  <2>3. TierByTier'
    BY <1>2, <2>1 DEF SeeAbort, CompleteTiers, IInv, TierByTier
  <2> QED BY <2>2, <2>3 DEF IInv
<1>3. CASE EndTier
  <2>1. Tier \subseteq Steps \ passed /\ \A s \in Tier : Needs[s] \subseteq passed
    BY DEF Tier
  <2>2. \A s \in Steps : step[s] \notin InFlight
    BY <1>3, FlightInTier DEF EndTier, Gathered
  <2>3. TierTypeOK' /\ Attempts' /\ Locked'
    BY <1>3, <2>1 DEF EndTier, IInv, TierTypeOK, Attempts, Locked
  <2>4. CASE \E s \in Tier : step[s] = "failed"
    <3>1. Tier' = Tier /\ phase' = "teardown" /\ UNCHANGED <<step, passed>>
      BY <1>3, <2>4 DEF EndTier, Tier
    <3>2. TierByTier'
      BY <1>3, <2>2, <3>1 DEF EndTier, IInv, TierByTier
    <3> QED BY <2>3, <3>2 DEF IInv
  <2>5. CASE ~\E s \in Tier : step[s] = "failed"
    <3>1. passed' = passed \cup Tier /\ phase' = "boundary" /\ step' = step /\ phase = "tier"
      BY <1>3, <2>5 DEF EndTier
    <3>2. \A s \in Tier : step[s] = "done"
      BY <2>1, <2>2, <2>5, <3>1 DEF IInv, TierTypeOK, TierByTier
    <3>3. TierByTier'
      BY <2>1, <2>2, <3>1, <3>2 DEF IInv, TierTypeOK, TierByTier
    <3> QED BY <2>3, <3>3 DEF IInv
  <2> QED BY <2>4, <2>5
<1> QED BY <1>1, <1>2, <1>3

\* The teardown's calls find no step in flight.
LEMMA TeardownKeepsAll ==
  ASSUME IInv,
         \/ \E i \in Instruments : TearDownStep(i)
         \/ TearDownLock \/ TearDownCall \/ TearDownEnds \/ Over
  PROVE  IInv'
<1> USE StepAssumption DEF InFlight
<1>1. UNCHANGED <<runState, passed, step, tries, stray>> /\ Tier' = Tier
  BY DEF TearDownStep, TearDownLock, TearDownCall, TearDownEnds, Over, Tier
<1>2. /\ phase = "teardown" /\ phase' \in {"teardown", "over"}
      /\ \A s \in Steps : step[s] \notin InFlight
  BY DEF TearDownStep, TearDownLock, TearDownCall, TearDownEnds, Over, IInv, TierByTier, Locked,
         TierTypeOK
<1>3. TierByTier' /\ Attempts'
  BY <1>1, <1>2 DEF IInv, TierByTier, Attempts
<1>4. TierTypeOK' /\ Locked'
  <2>1. CASE \E i \in Instruments : TearDownStep(i)
    BY <1>1, <1>2, <2>1 DEF TearDownStep, IInv, TierTypeOK, Locked
  <2>2. CASE TearDownLock
    BY <1>1, <1>2, <2>2 DEF TearDownLock, Take, IInv, TierTypeOK, Locked, Caller
  <2>3. CASE TearDownCall
    BY <1>1, <1>2, <2>3 DEF TearDownCall, IInv, TierTypeOK, Locked
  <2>4. CASE TearDownEnds
    BY <1>1, <1>2, <2>4 DEF TearDownEnds, GiveUp, NoCall, IInv, TierTypeOK, Locked
  <2>5. CASE Over
    BY <1>1, <1>2, <2>5 DEF Over, NoCall, IInv, TierTypeOK, Locked
  <2> QED BY <2>1, <2>2, <2>3, <2>4, <2>5
<1> QED BY <1>3, <1>4 DEF IInv

\* Controls and abandoned calls change none of it.
LEMMA Steady == ASSUME IInv, [TierNext]_tvars PROVE IInv'
<1> USE StepAssumption
<1>1. CASE RunTiers
  <2>1. Tier' = Tier
    BY <1>1 DEF RunTiers, Tier
  <2>2. TierTypeOK' /\ Attempts' /\ Locked'
    BY <1>1 DEF RunTiers, Unstarted, IInv, TierTypeOK, Attempts, Locked
  <2>3. TierByTier'
    BY <1>1, <2>1 DEF RunTiers, Unstarted, IInv, TierByTier, InFlight
  <2> QED BY <2>2, <2>3 DEF IInv
<1>2. CASE \E s \in Steps : StepNext(s)
  BY <1>2, StepKeepsAll
<1>3. CASE RunNext
  BY <1>3, TiersKeepAll, TeardownKeepsAll DEF RunNext
<1>4. CASE (\E x \in stray : StrayEnds(x)) \/ Pause \/ Resume \/ Abort \/ UNCHANGED tvars
  <2>1. /\ UNCHANGED <<passed, phase, step, tries, locks, undone, closing>> /\ Tier' = Tier
        /\ stray' \subseteq stray
        /\ runState' \in {"idle", "running", "paused", "aborted", "completed", "error"}
    BY <1>4 DEF StrayEnds, Pause, Resume, Abort, PressTiers, tvars, Tier, IInv, TierTypeOK
  <2>2. TierTypeOK'
    BY <2>1 DEF IInv, TierTypeOK
  <2>3. TierByTier' /\ Attempts' /\ Locked'
    BY <2>1 DEF IInv, TierByTier, Attempts, Locked
  <2> QED BY <2>2, <2>3 DEF IInv
<1> QED BY <1>1, <1>2, <1>3, <1>4 DEF TierNext

\* So it holds throughout every run.
LEMMA Invariance == TierSpec => []IInv
BY Starts, Steady, PTL DEF TierSpec

--------------------------------------------------------------------------------

\* A step that was touched is in its tier or behind it.
LEMMA OrderFollows == IInv => InOrder
<1> SUFFICES ASSUME IInv, NEW s \in Steps, step[s] # "waiting"
             PROVE  /\ \A n \in Needs[s] : step[n] = "done"
                    /\ step[s] \in InFlight => s \in Tier /\ phase = "tier"
  BY DEF InOrder
<1>1. Needs[s] \subseteq passed
  BY DEF IInv, TierByTier, Tier
<1> QED BY <1>1, FlightInTier DEF IInv, TierByTier

\* Who is called has the lock, and a lock has one holder.
LEMMA CallersFollow == IInv => OneCaller
<1> SUFFICES ASSUME IInv PROVE OneCaller
  OBVIOUS
<1>1. ASSUME NEW i \in Instruments PROVE Cardinality(CallersOf(i)) <= 1
  <2>1. CallersOf(i) \in SUBSET {locks[i]}
    BY DEF CallersOf, IInv, Locked
  <2>2. IsFiniteSet({locks[i]}) /\ Cardinality({locks[i]}) = 1
    BY FS_Singleton
  <2> QED BY <2>1, <2>2, FS_Subset
<1>2. phase \in {"teardown", "over"} => \A s \in Steps : step[s] \notin InFlight
  BY DEF IInv, TierByTier
<1>3. \A s \in Steps : step[s] \in {"queued", "called"} => locks[On[s]] = s
  BY DEF IInv, Locked
<1> QED BY <1>1, <1>2, <1>3 DEF OneCaller

\* The executor, its steps and the instruments' locks keep their types, and no step has
\* more attempts than it was given (_run_step, execute).
THEOREM TiersTyped == TierSpec => []TierTypeOK
<1>1. IInv => TierTypeOK
  BY DEF IInv
<1> QED BY <1>1, Invariance, PTL

\* Whatever the dependencies, and whatever times out or fails: a step is attempted only
\* in its own tier, with everything it depends on done (_topological_tiers, _run_tiers).
THEOREM InOrderHolds == TierSpec => []InOrder
BY OrderFollows, Invariance, PTL

\* For any number of steps, instruments and threads, no instrument has two calls of the
\* run in it but those it abandoned, and the teardown finds no step in flight (execute,
\* gather).
THEOREM OneCallerHolds == TierSpec => []OneCaller
BY CallersFollow, Invariance, PTL

--------------------------------------------------------------------------------
(* The contract.                                                           *)

\* Where the run is tells in what state it is; nothing is over before it has begun.
StateKnown ==
  /\ phase = "idle" => runState = "idle" /\ passed = {}
  /\ phase \in {"boundary", "tier"} => runState \in {"running", "paused", "aborted"}
  /\ phase = "teardown" => runState \in {"aborted", "completed", "error"}

\* Without a circle of dependencies there is a tier until all steps are passed.
LEMMA TierThere ==
  ASSUME Acyclic, NEW done \in SUBSET Steps, done # Steps
  PROVE  \E s \in Steps \ done : Needs[s] \subseteq done
<1>1. Steps \ done \in SUBSET Steps /\ Steps \ done # {}
  OBVIOUS
<1>2. PICK s \in Steps \ done : Needs[s] \cap (Steps \ done) = {}
  BY <1>1 DEF Acyclic
<1>3. Needs[s] \subseteq Steps
  BY StepAssumption
<1> QED BY <1>2, <1>3

\* The state follows the place.
LEMMA StateStep == StateKnown /\ [TierNext]_tvars => StateKnown'
<1> SUFFICES ASSUME StateKnown, [TierNext]_tvars PROVE StateKnown'
  OBVIOUS
<1> USE DEF StateKnown
<1>1. CASE RunTiers
  BY <1>1 DEF RunTiers, Unstarted
<1>2. CASE BeginTier \/ SeeAbort \/ CompleteTiers
  BY <1>2 DEF BeginTier, SeeAbort, CompleteTiers
<1>3. CASE EndTier
  BY <1>3 DEF EndTier
<1>4. CASE (\E i \in Instruments : TearDownStep(i)) \/ TearDownLock \/ TearDownCall
           \/ TearDownEnds \/ Over
  BY <1>4 DEF TearDownStep, TearDownLock, TearDownCall, TearDownEnds, Over
<1>5. CASE \/ \E s \in Steps : StepNext(s)
           \/ (\E x \in stray : StrayEnds(x)) \/ UNCHANGED tvars
  BY <1>5 DEF StepNext, GetLock, Call, Answer, Raise, Timeout, StrayEnds, tvars
<1>6. CASE Pause \/ Resume \/ Abort
  BY <1>6 DEF Pause, Resume, Abort, PressTiers
<1> QED BY <1>1, <1>2, <1>3, <1>4, <1>5, <1>6 DEF TierNext, RunNext

\* A run that has not begun is in no state, with nothing in hand.
LEMMA ContractInit == TierInit => StateKnown /\ TierContract!Init
BY DEF TierInit, StateKnown, TierContract!Init, TiersState, TiersDoing, TiersEnding, NoTier,
       TierContract!Nothing

\* Each step of the run is one of the contract, or does not show.
LEMMA ContractStep ==
  ASSUME Acyclic, Steps # {}, IInv, StateKnown, [TierNext]_tvars
  PROVE  [TierContract!Next]_(TierContract!trial)
<1> USE DEF TiersState, TiersDoing, TiersEnding, TierInHand, NoTier, TierContract!Nothing,
            TierContract!Going, TierContract!Over
<1>1. ASSUME UNCHANGED <<runState, phase, passed>> PROVE UNCHANGED TierContract!trial
  BY <1>1 DEF Tier, TierContract!trial
<1>2. CASE RunTiers
  <2>1. Tier # {} /\ Tier' = Tier
    BY <1>2, TierThere DEF RunTiers, Unstarted, StateKnown, Tier
  <2>2. TierContract!Begin
    BY <1>2, <2>1 DEF RunTiers, Unstarted, TierContract!Begin
  <2> QED BY <2>2 DEF TierContract!Next
<1>3. CASE BeginTier
  <2>1. TierContract!StartStep(TierInHand)
    BY <1>3 DEF BeginTier, TierContract!StartStep
  <2> QED BY <2>1 DEF TierContract!Next
<1>4. CASE SeeAbort
  <2>1. TierContract!SeeAbort
    BY <1>4 DEF SeeAbort, TierContract!SeeAbort
  <2> QED BY <2>1 DEF TierContract!Next
<1>5. CASE EndTier
  <2>1. CASE \E s \in Tier : step[s] = "failed"
    <3>1. TierContract!Raise("failed")
      BY <1>5, <2>1 DEF EndTier, StateKnown, TierContract!Raise
    <3> QED BY <3>1 DEF TierContract!Next
  <2>2. CASE ~\E s \in Tier : step[s] = "failed"
    <3>1. phase = "tier" /\ phase' = "boundary" /\ UNCHANGED runState
      BY <1>5, <2>2 DEF EndTier
    <3>2. CASE Tier' = {}
      BY <3>1, <3>2 DEF TierContract!trial
    <3>3. CASE Tier' # {}
      <4>1. TierContract!EndStep
        BY <3>1, <3>3, Zenon DEF StateKnown, TierContract!EndStep
      <4> QED BY <4>1 DEF TierContract!Next
    <3> QED BY <3>2, <3>3
  <2> QED BY <2>1, <2>2
<1>6. CASE CompleteTiers
  <2>1. TierContract!Finish
    BY <1>6 DEF CompleteTiers, StateKnown, TierContract!Finish
  <2> QED BY <2>1 DEF TierContract!Next
<1>7. CASE Over
  <2>1. TierContract!Return
    BY <1>7 DEF Over, StateKnown, TierContract!Return
  <2> QED BY <2>1 DEF TierContract!Next
<1>8. CASE Pause \/ Resume \/ Abort
  <2>1. phase \in {"boundary", "tier"} /\ UNCHANGED <<phase, passed>> /\ Tier' = Tier
    BY <1>8 DEF Pause, Resume, Abort, PressTiers, StateKnown, IInv, TierTypeOK, Tier
  <2>2. UNCHANGED <<TiersDoing, TiersEnding>>
    BY <2>1
  <2>3. TierContract!Pause \/ TierContract!Resume \/ TierContract!Abort
    BY <1>8, <2>1, <2>2 DEF Pause, Resume, Abort, PressTiers, TierContract!Pause,
       TierContract!Resume, TierContract!Abort
  <2> QED BY <2>3 DEF TierContract!Next
<1>9. CASE \/ \E s \in Steps : StepNext(s)
           \/ \E x \in stray : StrayEnds(x)
           \/ (\E i \in Instruments : TearDownStep(i))
           \/ TearDownLock \/ TearDownCall \/ TearDownEnds \/ UNCHANGED tvars
  <2>1. UNCHANGED <<runState, phase, passed>>
    BY <1>9 DEF StepNext, GetLock, Call, Answer, Raise, Timeout, StrayEnds, TearDownStep,
       TearDownLock, TearDownCall, TearDownEnds, tvars
  <2> QED BY <1>1, <2>1
<1> QED BY <1>2, <1>3, <1>4, <1>5, <1>6, <1>7, <1>8, <1>9 DEF TierNext, RunNext

\* A run by tiers of any workflow that has steps and no circle of dependencies implements
\* WorkflowRun, whatever is retried, times out, fails and is pressed: an abort is seen before
\* the next tier, a pause holds the run between two, and the run ends once, with what its
\* tiers came to (_run_tiers).
THEOREM TiersKeepContractHolds ==
  ASSUME Acyclic, Steps # {}
  PROVE  TierSpec => TiersKeepContract
<1>1. IInv /\ StateKnown /\ [TierNext]_tvars => [TierContract!Next]_(TierContract!trial)
  BY ContractStep
<1> QED
  BY <1>1, ContractInit, StateStep, Invariance, PTL
  DEF TierSpec, TiersKeepContract, TierContract!Spec

--------------------------------------------------------------------------------
(* No circles.                                                             *)

\* A tier that was begun has steps.
SomeStep == phase = "tier" => Tier # {}

\* Only a tier's end passes steps.
LEMMA SomeStepStep == SomeStep /\ [TierNext]_tvars => SomeStep'
<1> SUFFICES ASSUME SomeStep, [TierNext]_tvars PROVE SomeStep'
  OBVIOUS
<1>1. CASE EndTier
  BY <1>1 DEF EndTier, SomeStep
<1>2. CASE BeginTier
  BY <1>2 DEF BeginTier, SomeStep, Tier
<1>3. CASE ~EndTier /\ ~BeginTier
  <2>1. passed' = passed /\ (phase' = "tier" => phase = "tier")
    BY <1>3 DEF TierNext, RunNext, StepNext, GetLock, Call, Answer, Raise, Timeout, StrayEnds,
       RunTiers, SeeAbort, CompleteTiers, TearDownStep, TearDownLock, TearDownCall,
       TearDownEnds, Over, Pause, Resume, Abort, PressTiers, tvars
  <2> QED BY <2>1 DEF SomeStep, Tier
<1> QED BY <1>1, <1>2, <1>3

\* A step's move is its next attempt or goes on in this one, and leaves the others.
LEMMA StepGoesOn ==
  ASSUME IInv, NEW s \in Steps, StepNext(s)
  PROVE  StepOnward(s) /\ UNCHANGED <<passed, phase, closing, undone>>
<1> USE DEF StepOnward, StepRank, Becomes, IInv, TierTypeOK
<1>1. CASE GetLock(s)
  BY <1>1 DEF GetLock
<1>2. CASE Call(s)
  BY <1>2 DEF Call
<1>3. CASE Answer(s)
  BY <1>3 DEF Answer
<1>4. CASE Raise(s)
  BY <1>4 DEF Raise, Fails
<1>5. CASE Timeout(s)
  BY <1>5 DEF Timeout, Fails
<1> QED BY <1>1, <1>2, <1>3, <1>4, <1>5 DEF StepNext

\* A move of the run passes a tier, leaves it, or goes on in the teardown.
LEMMA RunGoesOn ==
  ASSUME IInv, SomeStep, RunTiers \/ RunNext
  PROVE  TiersOnward
<1> USE DEF TiersOnward, PhaseRank
<1>1. CASE RunTiers
  <2>1. phase = "idle" /\ phase' \in {"boundary", "teardown"} /\ passed' = passed
    BY <1>1 DEF RunTiers, Unstarted
  <2> QED BY <2>1
<1>2. CASE BeginTier \/ SeeAbort \/ CompleteTiers \/ Over
  <2>1. /\ passed' = passed
        /\ \/ phase = "boundary" /\ phase' \in {"tier", "teardown"}
           \/ phase = "teardown" /\ phase' = "over"
    BY <1>2 DEF BeginTier, SeeAbort, CompleteTiers, Over
  <2> QED BY <2>1
<1>3. CASE EndTier
  <2>1. phase = "tier" /\ Tier # {} /\ Tier \cap passed = {}
    BY <1>3 DEF EndTier, SomeStep, Tier
  <2>2. CASE passed' = passed \cup Tier
    BY <2>1, <2>2
  <2>3. CASE phase' = "teardown" /\ passed' = passed
    BY <2>1, <2>3
  <2> QED BY <1>3, <2>2, <2>3 DEF EndTier
<1>4. CASE \E i \in Instruments : TearDownStep(i)
  BY <1>4 DEF TearDownStep
<1>5. CASE TearDownLock \/ TearDownCall \/ TearDownEnds
  <2>1. UNCHANGED <<passed, phase, step, tries, undone>>
    BY <1>5 DEF TearDownLock, TearDownCall, TearDownEnds
  <2>2. CallRank' > CallRank
    BY <1>5 DEF TearDownLock, TearDownCall, TearDownEnds, CallRank, NoCall, IInv, TierTypeOK
  <2> QED BY <2>1, <2>2
<1> QED BY <1>1, <1>2, <1>3, <1>4, <1>5 DEF RunNext

\* For any workflow, instruments, retries and pool: the moves of a run by tiers go on to its
\* end, whatever is pressed, times out, or still answers (_run_tiers, _run_step, _run_teardown).
THEOREM TiersRunOnwardHolds == TierSpec => TiersRunOnward
<1>1. TierInit => SomeStep
  BY DEF TierInit, SomeStep
<1>2. IInv /\ SomeStep /\ [TierNext]_tvars
      => [TiersOnward]_<<passed, phase, step, tries, undone, closing>>
  <2> SUFFICES ASSUME IInv, SomeStep, [TierNext]_tvars
               PROVE  [TiersOnward]_<<passed, phase, step, tries, undone, closing>>
    OBVIOUS
  <2>1. CASE RunTiers \/ RunNext
    BY <2>1, RunGoesOn
  <2>2. CASE \E s \in Steps : StepNext(s)
    BY <2>2, StepGoesOn DEF TiersOnward
  <2>3. CASE (\E x \in stray : StrayEnds(x)) \/ Pause \/ Resume \/ Abort \/ UNCHANGED tvars
    BY <2>3 DEF StrayEnds, Pause, Resume, Abort, PressTiers, tvars
  <2> QED BY <2>1, <2>2, <2>3 DEF TierNext
<1> QED BY <1>1, <1>2, SomeStepStep, Invariance, PTL DEF TierSpec, TiersRunOnward

--------------------------------------------------------------------------------
(* The teardown's turn.                                                    *)

Past == {"queued", "called"}

\* No lock is left behind: who holds one is past it, and not yet out of its call.
LocksInUse ==
  \A i \in Instruments : locks[i] # Unheld =>
    \/ closing.inst = i /\ closing.at \in Past
    \/ \E s \in Steps : On[s] = i /\ step[s] \in Past

\* A step has a lock only between asking for it and the end of its attempt, however it ends.
LEMMA StepFreesLock ==
  ASSUME IInv, LocksInUse, NEW s \in Steps, StepNext(s)
  PROVE  LocksInUse'
<1> USE DEF Past
<1>1. /\ closing' = closing /\ \A r \in Steps \ {s} : step'[r] = step[r]
      /\ On[s] \in Instruments
  BY StepAssumption
     DEF StepNext, GetLock, Call, Answer, Raise, Timeout, Fails, Becomes, IInv, TierTypeOK
<1>2. CASE step'[s] \in Past /\ \A i \in Instruments \ {On[s]} : locks'[i] = locks[i]
  BY <1>1, <1>2 DEF LocksInUse
<1>3. CASE step[s] \notin Past /\ locks' = locks
  BY <1>1, <1>3 DEF LocksInUse
<1>4. CASE locks' = [locks EXCEPT ![On[s]] = Unheld]
  BY <1>1, <1>4 DEF LocksInUse, IInv, TierTypeOK
<1>5. CASE GetLock(s) \/ Call(s)
  <2>1. step'[s] \in Past /\ \A i \in Instruments \ {On[s]} : locks'[i] = locks[i]
    BY <1>5 DEF GetLock, Call, Take, Becomes, IInv, TierTypeOK
  <2> QED BY <1>2, <2>1
<1>6. CASE Answer(s) \/ Raise(s) \/ Timeout(s)
  BY <1>3, <1>4, <1>6 DEF Answer, Raise, Timeout, GiveUp
<1> QED BY <1>5, <1>6 DEF StepNext

\* No move of the run itself leaves a lock without its holder.
LEMMA RunFreesLock ==
  ASSUME IInv, LocksInUse, RunNext
  PROVE  LocksInUse'
<1> USE DEF Past
<1>1. CASE BeginTier
  <2>1. \A i \in Instruments : locks[i] = Unheld
    BY <1>1 DEF BeginTier, IInv, TierByTier, Locked, LocksInUse, InFlight
  <2> QED BY <1>1, <2>1 DEF BeginTier, LocksInUse
<1>2. CASE SeeAbort \/ EndTier \/ CompleteTiers \/ Over
  BY <1>2 DEF SeeAbort, EndTier, CompleteTiers, Over, LocksInUse
<1>3. CASE \E i \in Instruments : TearDownStep(i)
  <2>1. closing.at \notin Past /\ UNCHANGED <<step, locks>>
    BY <1>3 DEF TearDownStep, NoCall
  <2> QED BY <2>1 DEF LocksInUse
<1>4. CASE TearDownLock
  <2>1. /\ closing.at \notin Past /\ closing'.at = "queued" /\ closing'.inst = closing.inst
        /\ step' = step /\ \A i \in Instruments \ {closing.inst} : locks'[i] = locks[i]
    BY <1>4 DEF TearDownLock, Take, IInv, TierTypeOK
  <2> QED BY <2>1 DEF LocksInUse
<1>5. CASE TearDownCall
  <2>1. closing'.at = "called" /\ closing'.inst = closing.inst /\ UNCHANGED <<step, locks>>
    BY <1>5 DEF TearDownCall, IInv, TierTypeOK
  <2> QED BY <2>1 DEF LocksInUse
<1>6. CASE TearDownEnds
  <2>1. step' = step /\ locks' = [locks EXCEPT ![closing.inst] = Unheld]
    BY <1>6 DEF TearDownEnds, GiveUp
  <2> QED BY <2>1 DEF LocksInUse, IInv, TierTypeOK
<1> QED BY <1>1, <1>2, <1>3, <1>4, <1>5, <1>6 DEF RunNext

\* The teardown finds every step settled, its locks with them, and no thread in use but by
\* calls that were abandoned.
LEMMA ServedFollows == IInv /\ LocksInUse => TeardownServed
<1> SUFFICES ASSUME IInv, LocksInUse PROVE TeardownServed
  OBVIOUS
<1>1. closing.at # "none" => /\ closing.inst \in Instruments
                             /\ \A s \in Steps : step[s] \notin InFlight
  BY DEF IInv, Locked, TierByTier
<1>2. closing.at = "asking" => locks[closing.inst] = Unheld
  BY <1>1 DEF LocksInUse, Past, InFlight
<1>3. ASSUME closing.at = "queued", stray = {} PROVE Occupied < PoolSize
  <2>1. {s \in Steps : InThread(s)} = {}
    BY <1>1, <1>3 DEF InThread, InFlight
  <2>2. Occupied = 0
    BY <1>3, <2>1, FS_EmptySet DEF Occupied
  <2> QED BY <2>2, StepAssumption
<1> QED BY <1>2, <1>3 DEF TeardownServed

\* For any workflow, instruments and pool, whatever timed out or failed: the teardown, which
\* nothing cancels, is never kept waiting for an instrument, and for a thread only by calls
\* that were abandoned in theirs (the safety half of TiersEnd; _run_teardown, execute).
THEOREM TeardownServedHolds == TierSpec => []TeardownServed
<1>1. TierInit => LocksInUse
  BY DEF TierInit, LocksInUse
<1>2. IInv /\ LocksInUse /\ [TierNext]_tvars => LocksInUse'
  <2> SUFFICES ASSUME IInv, LocksInUse, [TierNext]_tvars PROVE LocksInUse'
    OBVIOUS
  <2>1. CASE \E s \in Steps : StepNext(s)
    BY <2>1, StepFreesLock
  <2>2. CASE RunNext
    BY <2>2, RunFreesLock
  <2>3. CASE RunTiers \/ (\E x \in stray : StrayEnds(x)) \/ Pause \/ Resume \/ Abort
             \/ UNCHANGED tvars
    BY <2>3 DEF RunTiers, StrayEnds, Pause, Resume, Abort, PressTiers, tvars, LocksInUse
  <2> QED BY <2>1, <2>2, <2>3 DEF TierNext
<1> QED BY <1>1, <1>2, ServedFollows, Invariance, PTL DEF TierSpec
================================================================================
