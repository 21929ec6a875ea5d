--------------------------------- MODULE Tiers ----------------------------------
(***************************************************************************)
(* A workflow whose steps name their dependencies, run tier by tier        *)
(* (_build_dag, _topological_tiers, _run_tiers, _run_step and _run_teardown *)
(* of src/softae/workflows/workflow_executor.py), over the instruments     *)
(* they call (execute of src/softae/server/base_instrument.py).            *)
(*                                                                         *)
(*   a step   asks for its instrument's lock -> waits for a thread of the   *)
(*            shared pool -> is called in it -> done, tried again, failed  *)
(*                                                                         *)
(* A step that times out gives up whatever it waits for; a call that is in  *)
(* its thread by then goes on there, and the lock is free meanwhile.       *)
(***************************************************************************)
EXTENDS Naturals, FiniteSets

CONSTANTS
  Steps,        \* the steps of the workflow, setup and loop
  Needs,        \* per step, the steps it depends on
  Instruments,  \* what the steps call
  On,           \* per step, the instrument it calls
  Coroutine,    \* the steps whose method is a coroutine: no thread is used
  Teardown,     \* instruments the teardown steps call, one after the other
  Retry,        \* per step, its further attempts
  PoolSize,     \* threads in _io_pool
  Unheld        \* nobody holds the lock

ASSUME StepAssumption ==
  /\ Needs \in [Steps -> SUBSET Steps] /\ On \in [Steps -> Instruments]
  /\ Coroutine \subseteq Steps /\ Teardown \subseteq Instruments
  /\ Retry \in [Steps -> Nat] /\ PoolSize \in Nat \ {0}
  /\ Unheld \notin Steps \cup {"teardown"} /\ "teardown" \notin Steps

VARIABLES
  runState, \* ExecutorState
  passed,   \* the steps of the tiers that are over
  phase,    \* where run() is: at a tier's boundary, in a tier, tearing down, over
  step,     \* per step, what it is doing
  tries,    \* per step, the attempts it has used up
  locks,    \* per instrument, who holds its asyncio lock
  stray,    \* the abandoned calls that go on in their threads, by step and attempt
  undone,   \* the instruments the teardown has yet to call
  closing   \* the teardown's call in hand: where it is, and the instrument

tvars == <<runState, passed, phase, step, tries, locks, stray, undone, closing>>

InFlight == {"asking", "queued", "called"}
Caller   == Steps \cup {"teardown"}
NoCall   == [at |-> "none", inst |-> Unheld]

\* A circle of dependencies leaves, in some set of steps, each one waiting for another.
Acyclic ==
  \A C \in SUBSET Steps \ {{}} : \E s \in C : Needs[s] \cap C = {}

\* The steps that become ready once the ones in `passed` are over (Kahn's algorithm, a
\* tier at a time).
Tier == {s \in Steps \ passed : Needs[s] \subseteq passed}

--------------------------------------------------------------------------------
(* An instrument's execute: its lock, then a thread of the shared pool.    *)

TierTypeOK ==
  /\ runState \in {"idle", "running", "paused", "aborted", "completed", "error"}
  /\ passed \subseteq Steps
  /\ phase \in {"idle", "boundary", "tier", "teardown", "over"}
  /\ step \in [Steps -> {"waiting", "done", "failed"} \cup InFlight]
  /\ tries \in [Steps -> Nat] /\ \A s \in Steps : tries[s] <= Retry[s] + 1
  /\ locks \in [Instruments -> Caller \cup {Unheld}]
  /\ \A x \in stray : x[1] \in Steps \ Coroutine /\ x[2] \in 1..Retry[x[1]] + 1
  /\ undone \subseteq Teardown
  /\ closing \in [at : {"none"} \cup InFlight, inst : Instruments \cup {Unheld}]

TierInit ==
  /\ runState = "idle" /\ passed = {} /\ phase = "idle"
  /\ step = [s \in Steps |-> "waiting"] /\ tries = [s \in Steps |-> 0]
  /\ locks = [i \in Instruments |-> Unheld] /\ stray = {}
  /\ undone = Teardown /\ closing = NoCall

InThread(s) == s \notin Coroutine /\ step[s] = "called"

Occupied ==
  Cardinality({s \in Steps : InThread(s)}) + Cardinality(stray)
    + (IF closing.at = "called" THEN 1 ELSE 0)

Take(i, who) == locks[i] = Unheld /\ locks' = [locks EXCEPT ![i] = who]
GiveUp(i)    == locks' = [locks EXCEPT ![i] = Unheld]

Becomes(s, what) == step' = [step EXCEPT ![s] = what]

GetLock(s) ==
  /\ step[s] = "asking" /\ Take(On[s], s) /\ Becomes(s, "queued")
  /\ UNCHANGED <<runState, passed, phase, tries, stray, undone, closing>>

Call(s) ==
  /\ step[s] = "queued" /\ (s \in Coroutine \/ Occupied < PoolSize) /\ Becomes(s, "called")
  /\ UNCHANGED <<runState, passed, phase, tries, locks, stray, undone, closing>>

Answer(s) ==
  /\ step[s] = "called" /\ Becomes(s, "done") /\ GiveUp(On[s])
  /\ UNCHANGED <<runState, passed, phase, tries, stray, undone, closing>>

\* An attempt that failed is followed by the next at once, or the step has failed.
Fails(s) ==
  /\ tries' = [tries EXCEPT ![s] = @ + 1]
  /\ Becomes(s, IF tries[s] < Retry[s] THEN "asking" ELSE "failed")

Raise(s) ==
  /\ step[s] = "called" /\ Fails(s) /\ GiveUp(On[s])
  /\ UNCHANGED <<runState, passed, phase, stray, undone, closing>>

\* Mutant: the lock of an instrument is kept by a step that timed out in its call.
TimeoutKeeping(s) ==
  /\ step[s] \in InFlight /\ Fails(s) /\ UNCHANGED locks
  /\ stray' = IF InThread(s) THEN stray \cup {<<s, tries[s] + 1>>} ELSE stray
  /\ UNCHANGED <<runState, passed, phase, undone, closing>>

\* wait_for cancels the coroutine wherever it waits, and with it the lock is given up;
\* a call that runs in a thread cannot be cancelled.
Timeout(s) ==
  /\ step[s] \in InFlight /\ Fails(s)
  /\ IF step[s] = "asking" THEN UNCHANGED locks ELSE GiveUp(On[s])
  /\ stray' = IF InThread(s) THEN stray \cup {<<s, tries[s] + 1>>} ELSE stray
  /\ UNCHANGED <<runState, passed, phase, undone, closing>>

StrayEnds(x) ==
  /\ x \in stray /\ stray' = stray \ {x}
  /\ UNCHANGED <<runState, passed, phase, step, tries, locks, undone, closing>>

--------------------------------------------------------------------------------
(* run() and _run_tiers.                                                   *)

Unstarted == phase = "idle" /\ runState = "idle"

\* A cycle is found once the rig is taken, and the teardown runs all the same.
RunTiers ==
  /\ Unstarted
  /\ IF Acyclic THEN runState' = "running" /\ phase' = "boundary"
     ELSE runState' = "error" /\ phase' = "teardown"
  /\ UNCHANGED <<passed, step, tries, locks, stray, undone, closing>>

\* Paused, it waits; then an abort is looked for, then the tier is begun.
BeginTier ==
  /\ phase = "boundary" /\ runState = "running" /\ Tier # {}
  /\ phase' = "tier"
  /\ step' = [s \in Steps |-> IF s \in Tier THEN "asking" ELSE step[s]]
  /\ UNCHANGED <<runState, passed, tries, locks, stray, undone, closing>>

SeeAbort ==
  /\ phase = "boundary" /\ runState = "aborted" /\ Tier # {} /\ phase' = "teardown"
  /\ UNCHANGED <<runState, passed, step, tries, locks, stray, undone, closing>>

\* Mutant: the first step that fails ends the tier under the others (gather without
\* return_exceptions).
GatheredFirst == (\E s \in Tier : step[s] = "failed")
                 \/ \A s \in Tier : step[s] = "done"

Gathered == \A s \in Tier : step[s] \notin InFlight

EndTier ==
  /\ phase = "tier" /\ Gathered
  /\ IF \E s \in Tier : step[s] = "failed"
     THEN runState' = "error" /\ phase' = "teardown" /\ UNCHANGED passed
     ELSE passed' = passed \cup Tier /\ phase' = "boundary" /\ UNCHANGED runState
  /\ UNCHANGED <<step, tries, locks, stray, undone, closing>>

\* After the last tier it is completed, whatever the operator said meanwhile.
CompleteTiers ==
  /\ phase = "boundary" /\ Tier = {} /\ runState' = "completed" /\ phase' = "teardown"
  /\ UNCHANGED <<passed, step, tries, locks, stray, undone, closing>>

\* Teardown steps run one after the other, without a timeout, and may fail.
TearDownStep(i) ==
  /\ phase = "teardown" /\ closing = NoCall /\ i \in undone
  /\ undone' = undone \ {i} /\ closing' = [at |-> "asking", inst |-> i]
  /\ UNCHANGED <<runState, passed, phase, step, tries, locks, stray>>

TearDownLock ==
  /\ closing.at = "asking" /\ Take(closing.inst, "teardown")
  /\ closing' = [closing EXCEPT !.at = "queued"]
  /\ UNCHANGED <<runState, passed, phase, step, tries, stray, undone>>

TearDownCall ==
  /\ closing.at = "queued" /\ Occupied < PoolSize /\ closing' = [closing EXCEPT !.at = "called"]
  /\ UNCHANGED <<runState, passed, phase, step, tries, locks, stray, undone>>

TearDownEnds ==
  /\ closing.at = "called" /\ GiveUp(closing.inst) /\ closing' = NoCall
  /\ UNCHANGED <<runState, passed, phase, step, tries, stray, undone>>

Over ==
  /\ phase = "teardown" /\ closing = NoCall /\ undone = {} /\ phase' = "over"
  /\ UNCHANGED <<runState, passed, step, tries, locks, stray, undone, closing>>

PressTiers(from, to) ==
  /\ phase \notin {"idle", "over"} /\ runState \in from /\ runState' = to
  /\ UNCHANGED <<passed, phase, step, tries, locks, stray, undone, closing>>

Pause  == PressTiers({"running"}, "paused")
Resume == PressTiers({"paused"}, "running")
Abort  == PressTiers({"running", "paused"}, "aborted")

StepNext(s) == GetLock(s) \/ Call(s) \/ Answer(s) \/ Raise(s) \/ Timeout(s)

RunNext ==
  \/ BeginTier \/ SeeAbort \/ EndTier \/ CompleteTiers
  \/ (\E i \in Instruments : TearDownStep(i))
  \/ TearDownLock \/ TearDownCall \/ TearDownEnds \/ Over

TierNext ==
  \/ RunTiers \/ RunNext
  \/ \E s \in Steps : StepNext(s)
  \/ \E x \in stray : StrayEnds(x)
  \/ Pause \/ Resume \/ Abort

TierSpec == TierInit /\ [][TierNext]_tvars

\* Every step has a timeout and an abandoned call ends in the end, so that something can
\* always happen, and does; a run that is paused is answered, and nobody presses Pause
\* again before each look (every 50 ms).
Progress ==
  \/ RunNext \/ (\E s \in Steps : StepNext(s)) \/ (\E x \in stray : StrayEnds(x))

TierFairness ==
  WF_tvars(Progress) /\ SF_tvars(BeginTier \/ SeeAbort) /\ WF_tvars(Resume \/ Abort)

--------------------------------------------------------------------------------
(* What a tiered run is to the code that calls it (WorkflowRun.tla): a     *)
(* tier is what a step is to a linear one.                                 *)

TierInHand == [kind |-> "tier", ch |-> 0]
NoTier     == [kind |-> "none", ch |-> 0]

TiersState ==
  CASE phase \in {"idle", "over"} -> "none" [] phase = "teardown" -> "over" [] OTHER -> runState

\* The last tier is in hand until the run is completed: nothing at its end looks at Pause
\* or Abort any more.
TiersDoing ==
  IF phase = "tier" \/ (phase = "boundary" /\ Tier = {}) THEN TierInHand ELSE NoTier

TiersEnding ==
  IF phase # "teardown" THEN "none"
  ELSE IF runState = "completed" THEN "results"
  ELSE IF runState = "aborted" THEN "aborted" ELSE "failed"

TierContract == INSTANCE WorkflowRun
                  WITH Step <- {TierInHand}, Causes <- {"failed"},
                       ex <- TiersState, doing <- TiersDoing, ending <- TiersEnding

--------------------------------------------------------------------------------
(* What a tiered run promises.                                             *)

\* To its host a run by tiers keeps the contract of a linear one, with a tier for a step:
\* no tier begins but from a run that is running, a control that lands anywhere takes
\* effect at the next boundary but not after the last tier, and there is one ending, which
\* says what the tiers came to (run(), _run_tiers).
TiersKeepContract == TierContract!Spec

\* A step is in flight only when all it depends on is done, and in no tier but the
\* current one: nothing is attempted past a step that failed (_topological_tiers,
\* _run_tiers: the first unrecoverable step error aborts the run).
InOrder ==
  \A s \in Steps : step[s] # "waiting" =>
    /\ \A n \in Needs[s] : step[n] = "done"
    /\ step[s] \in InFlight => s \in Tier /\ phase = "tier"

\* A step has its instrument's lock from before it is called until after; two calls
\* drive one instrument only when one of them is a step's that timed out;
\* and the teardown finds no step in flight at all (execute, gather).
CallersOf(i) == {s \in Steps : On[s] = i /\ step[s] = "called"}
              \cup (IF closing = [at |-> "called", inst |-> i] THEN {"teardown"} ELSE {})

OneCaller ==
  /\ \A s \in Steps : step[s] \in {"queued", "called"} => locks[On[s]] = s
  /\ \A i \in Instruments : Cardinality(CallersOf(i)) <= 1
  /\ phase \in {"teardown", "over"} => \A s \in Steps : step[s] \notin InFlight

\* A run that was started comes to its end, whatever times out.
TiersEnd == phase = "boundary" ~> phase = "over"

\* How far a run is between two tiers, a step in an attempt, and the teardown in a call.
PhaseRank == [idle |-> 0, boundary |-> 1, tier |-> 2, teardown |-> 3, over |-> 4][phase]
StepRank(s) ==
  [waiting |-> 0, asking |-> 1, queued |-> 2, called |-> 3, done |-> 4, failed |-> 4][step[s]]
CallRank == [asking |-> 0, queued |-> 1, called |-> 2, none |-> 3][closing.at]

StepOnward(s) ==
  /\ \A t \in Steps \ {s} : step'[t] = step[t] /\ tries'[t] = tries[t]
  /\ tries'[s] > tries[s] \/ (tries'[s] = tries[s] /\ StepRank(s)' > StepRank(s))

TiersOnward ==
  \/ passed \subseteq passed' /\ passed' # passed
  \/ /\ passed' = passed
     /\ \/ PhaseRank' > PhaseRank
        \/ phase' = phase /\ \E s \in Steps : StepOnward(s) /\ UNCHANGED <<closing, undone>>
        \/ /\ UNCHANGED <<phase, step, tries>>
           /\ \/ undone' \subseteq undone /\ undone' # undone
              \/ undone' = undone /\ CallRank' > CallRank

\* Whatever the operator presses and whatever times out, a run by tiers never turns in a
\* circle: each of its moves passes a tier, or goes on towards the next boundary, in one
\* step's attempts, or in the teardown, and there is an end to all of them.
TiersRunOnward == [][TiersOnward]_<<passed, phase, step, tries, undone, closing>>

\* The teardown, which has no timeout, never waits for a lock, since every step that was
\* cancelled has given up its own; it waits for a thread only while abandoned calls have
\* them all (_run_teardown, execute).
TeardownServed ==
  /\ closing.at = "asking" => locks[closing.inst] = Unheld
  /\ closing.at = "queued" => Occupied < PoolSize \/ stray # {}

\* Two calls never drive one instrument (the instrument's lock, base_instrument.py).
NoStrayBeside ==
  \A i \in Instruments : \A x \in stray : On[x[1]] = i => CallersOf(i) = {}

================================================================================
