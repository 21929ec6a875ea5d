# A TLA+ verification project for SoftAE

SoftAE runs a formulation rig: it casts drops onto plates of electrodes,
anneals and measures them, tells an optimizer, and goes on, for hours and often
unattended. What can go wrong is physical. Two programs drive one rig; a drop is
cast onto a drop; a step starts while an operator's hand is in the enclosure; an
aborted campaign goes on casting; a crash forgets which wells are used. This
directory holds models of the code that has to prevent that, the runs that check
them with TLC, and the proofs that TLAPS checks. Paths below are relative to the
repository's `src/softae/` unless they say otherwise.

    tlc -config MCRunLock.cfg MCRunLock        # one run, and so on for every cfg
    tlapm RunLockProofs.tla                    # the proofs of one module

1. [Inventory](#1-inventory)
2. [Modules](#2-modules)
3. [Runs](#3-runs)
4. [Proofs](#4-proofs)
5. [Where the code and what it says disagree](#5-where-the-code-and-what-it-says-disagree)
6. [What is not modelled](#6-what-is-not-modelled)
7. [Plan](#7-plan)

## 1. Inventory

### Components

| component | state it keeps | operations | what makes it correct |
|---|---|---|---|
| rig lock, `core/run_lock.py` | one JSON file, `rig.lock` | read (and repair), acquire, retitle, release, break, `held_run_lock` | one owner; a claim stays on disk while it is held; nested blocks do not free it; a dead owner never locks the rig out |
| session claim, `core/rig_session.py` | whether this process's session holds the lock | claim on Connect All, release on Disconnect All | a session and a run of one process share the claim |
| workflow executor, linear, `workflows/workflow_executor.py` | `ExecutorState`, step index, per-channel retries, skipped channels, failure streak, purge window, hold | run, pause, resume, abort, hold for the operator | a handed-over rig is still; abort before the next step; no double dispense; lock around all motion; every channel accounted for |
| tier strategy, same file | per-step results in tiers | run a tier concurrently, gather, tear down | a step starts only with all it depends on done; one call in an instrument; it ends |
| campaign loop, `core/autonomous_loop.py` | `LoopState`, iteration, streak, control flags, executor handle, round in hand | run, pause, resume, abort, approve, decline, exchange a plate | budget; each granted well closed once; occupancy before reuse; refusals and streaks park; abort ends it; parked once and cold |
| electrode allocator, `core/electrode_allocator.py` | plate number, cursor, occupied set | allocate, swap | no electrode twice on a plate |
| campaign wiring, `core/autonomous_wiring.py` | claim, checkpoint, hooks | start, resume, finish a campaign | a resume point exists exactly when something can be resumed |
| control channel, `core/campaign_events.py` | control slot file with a sequence number, event log, last acted number | request, poll, acknowledge | a request acts at most once, the last one wins, none is acted on in a later run |
| resume and discovery, `core/campaign_resume.py`, `core/campaign_discovery.py` | reads checkpoint, occupancy, active board | plan a resume, find live campaigns | never below the true well count, never onto a used well |
| rig activity, `core/rig_activity.py` | who is doing what inside the process | claim, suspend, conflicts | no two activities drive one instrument |
| purging, `core/purge.py`, `core/purge_runner.py`, `core/rig_pose.py` | due times, pose | idle tick, offer beside a step | never beside a step that moves, never from an unknown pose |
| ledgers, `core/reservoir.py`, `core/consumables.py`, `core/overflow.py` | a level per pump, in memory and in the store; waste; spare boards | check and debit, refill | a pump is never commanded past the margin that keeps its plunger off the stop |
| park and shutdown, `core/safe_park.py`, `core/shutdown.py` | once-guard, unclean-shutdown mark | park, signal handler, recovery | a rig left driven is parked by the next launch, or somebody is told |
| arming, `core/hardware_safety.py` | process-wide flag | arm, probe | nothing drives while disarmed |
| instrument server, `server/base_instrument.py`, `server/manager.py` | one lock per instrument, connection state | call, connect, disconnect all | calls on one instrument do not overlap |
| drivers, `drivers/` | serial ports; the heater's write lock, cancel event and `_stop_wait`; the humidity loop's thread and flags | device commands | what a park writes is not written over; a stopped chamber stays dry |
| equilibration workflow, `workflows/equilibration.py`, `tools/equilibration.py` | setpoint and round in hand, teardown errors | run a night, tear it down | handed back at ambient, or the operator told to look |
| data store, `core/data_store.py` | SQLite tables | insert, checkpoint, occupancy | what a later session reads agrees with the plate |
| optimizers, analysis, EIS engine | trial history, numerics | suggest, tell, fit | numerical, see section 6 |
| recipes and plans, catalog, preflight | none | compile, check | pure functions |
| desktop GUI, `gui/` | widgets; the E-Stop ladder | buttons call the executor or the control channel; E-Stop asks, waits and takes over | "parked" is shown only when it is so; a campaign is killed only as the last resort |
| command line, simulator, web | none of their own | entry points | |

### How they interact

A process starts a campaign (CLI or GUI), which takes the **rig lock** (a file,
shared by all processes on all machines that mount the data root) and runs the
**campaign loop**, one asyncio task. For each round the loop asks the optimizer,
waits at a gate, asks the allocator for electrodes, compiles a workflow and
awaits a **workflow executor** on it, whose callbacks (`on_step_complete`,
`on_cast`, `on_pause_hold`) call back into the loop and the data store. The
executor calls instruments through the **instrument server** and runs a purge
loop beside a step. What the loop may rely on of a run, and nothing more, is `WorkflowRun`. The
operator reaches a running campaign through the **control
channel**, a file that a watcher task polls, or, in the HT tab, by calling the
executor directly from the GUI thread. Everything the next session learns comes
from the **data store**: the checkpoint, the occupied wells, the active plate, and
the level of each pump. Inside a window the runs, the idle purge and manual control
announce themselves to **rig activity**, which blocks nobody; a **park** drives the
instruments directly, beside whatever is running.

### Behaviours that are hard

- *Processes* that interleave on the lock file with no atomic operation but the
  exclusive create; that die in between; whose pid is reused; that cannot see
  each other's pids; that share one slot for requests, with no queue behind it.
- *Tasks* on one event loop: a control lands wherever the loop awaits, and what
  was checked before the await is used after it.
- *Threads*: the HT tab's buttons; driver calls in a thread pool that outlive the
  timeout that gave up on them; ramps, sweeps and the humidity loop, which a park
  must not be undone by; Ctrl-C, which takes a command out of an await while the
  awaited call goes on.
- *Caches*: a ledger that reads a level once and writes it back for ever.
- *Recovery*: a retried step, a replayed channel, a skipped channel, against
  material that cannot be taken back.
- *Failure of one part of a round*: wells are spent when they are allocated,
  long before the round closes.
- *Waiting for a person*, who may never answer, or answer late.

`PROJECT.json` lists the hazards one by one, each at its line, with the
properties that would catch it.

## 2. Modules

| module | models | proofs |
|---|---|---|
| `RigOwner` | what the rig lock promises | |
| `RunLock` | `core/run_lock.py`, `core/rig_session.py`: one file operation per step | `RunLockProofs` |
| `WorkflowRun` | what a run of a workflow promises to whoever started it | |
| `Executor` | `workflows/workflow_executor.py`, linear: one run of one workflow | `ExecutorProofs` |
| `Tiers` | the same file, by tiers, over `server/base_instrument.py` | `TiersProofs` |
| `WellLife` | what single use of a well means | |
| `CampaignLoop` | `core/autonomous_loop.py`, `core/electrode_allocator.py`: one campaign | `CampaignLoopProofs` |
| `CampaignLifecycle` | `tools/campaign.py`, `core/autonomous_wiring.py`, `core/shutdown.py`, `core/data_store.py`: its launches | `CampaignLifecycleProofs` |
| `ControlChannel` | `core/campaign_events.py` (the control file), `gui/campaign_control.py` | `EstopLadderProofs` |
| `EstopLadder` | `gui/estop_ladder.py`, over `ControlChannel` | `EstopLadderProofs` |
| `RigActivity` | `core/rig_activity.py`, `core/purge_runner.py`, `core/rig_pose.py`, the run and manual seams of the GUI | `RigProofs` |
| `Ledgers` | `core/reservoir.py`, under `drivers/contracts.py` | `RigProofs` |
| `Heater` | `drivers/async_temp_controller.py`, `drivers/temp_ramp.py`, and all who write the setpoint | `InstrumentProofs` |
| `Humidifier` | `drivers/async_rh_controller.py` | `InstrumentProofs` |
| `Characterization` | `workflows/equilibration.py`, `tools/equilibration.py` | `InstrumentProofs` |

`MCRunLock`, `MCExecutor`, `MCDesktop` and `MCInstruments` give constants to the
configurations. The last three each hold several modules that share no state. They
extend them all and add one variable, `followed`: a behaviour follows one of the
modules from its initial state on and leaves the others as they were, so every state
and every behaviour of each module is checked, and no meaningless product of them.

Operators that begin with the comment `Mutant:` are not part of a model. Each
is a plausible mistake in the definition that follows it, and `PROJECT.json`
names the property that exposes it.

### RigOwner and RunLock

`owner` and `torn` are the file: who is named in it, and whether its content is
not written yet (between `open` and `write` it is empty and does not parse). `pc`
is the next file operation of each process, `call` the function it is in,
`seen` the owner it read. `blocks[p]` is the stack of `held_run_lock` blocks p is in,
each with its `mine_already`. `claims` is what the processes have been *told*: p is
in it from the moment `acquire_run_lock` returns to p until p's release ends. The
file and `claims` are different things, and the properties relate them.

`read_run_lock` is Exists, ReadText, Judge, Unlink: it does not only read, it
repairs, and every question asked by a GUI poll (`Query`) may unlink. What each
caller does with the answer is `Returns`, which is taken in the same step, because
between the last file operation and the caller's next there is nothing another
process can see. `acquire_run_lock` goes on with Create and Write,
`retitle_run_lock` with Truncate and Write, `release_run_lock` is RelExists,
RelRead, RelUnlink.

Two windows are unprotected: "clear", from reading a lock to unlinking it, and
"write", from creating the file to writing it. The constant `Open` says in which of
them another process may step. With `Open = {}` the windows are atomic, which is what
the code relies on; `rig_lock_race` opens one.

`Breaks` lets the operator take another process's rig, `MidRunSession` allows
Connect All or Disconnect All during a run of the same process. Both end a claim that is in
use, by an explicit act; the GUI confirms the first and disables the second.

### WorkflowRun and Executor

`WorkflowRun` is the seam between a run and its host: `ex` the state it is in, `doing` the
step in flight, `ending` how it ends. Steps begin one at a time and only while it runs,
a control takes effect at the next boundary, it ends once. `Executor` implements it
(`KeepsContract`: retries, purges and a channel's replay are invisible, the hold for the
operator is one more thing in flight), and `CampaignLoop` builds its trials from the same
actions. What one shows of a run is what the other assumes. The contract leaves out how
long things take: that steps end is a fairness assumption of each.

`pc` is where `run()` is suspended or about to be. One step of the model is the
code between two awaits. The operator's calls are two steps, the check
(`Press`) and the assignment (`Land`); on one event loop (`Threaded = FALSE`)
nothing else may happen between them, and from another thread anything may.

A step of the workflow is `[ch, phase, tries, window]`: the channel it belongs to,
what it does, how often it is attempted, and whether purges may run beside it. Only
`"deposit"` casts (`Elute`): it counts a drop on its electrode before it ends, so it
can fail with or without a drop, and `Tag` says whether the exception carries
`dispense_committed`. Errors are "comm" and "timeout", which recovery handles, and
"other", which ends the run.

`held` is what `on_pause_hold` last told the host, i.e. whether the operator has been
told that the rig is theirs. The purge loop (`purge`) offers once before it looks at
its stop flag, and is joined when the step ends.

### Tiers

A workflow whose steps name what they depend on (`Needs`). `phase` is where `run()` is:
at the boundary between two tiers, in a tier, in the teardown, over. A step that is
attempted first asks for its instrument's asyncio lock, then queues for one of the
`PoolSize` threads, then is called (`step`); a coroutine needs no thread. A timeout may
come at each of these. What is then already in its thread goes on there without the
lock (`stray`) until the device answers, and a retry may drive the instrument beside it:
`OneCaller` is about the calls the executor still waits for.

To its host a run by tiers is a `WorkflowRun` too, with a tier where the linear run has
a step (`TiersKeepContract`): the boundaries between tiers are where controls take
effect. The last tier counts as in hand until the run is completed, because nothing after
it looks at Pause or Abort any more.

### CampaignLoop

The campaign with an allocator (the board-aware path), from `run()` to the point where
`run_autonomous_campaign` has decided about the checkpoint. `at` is the place
in the code. `Awaits` are the places where a control can land; at the others the loop
runs on until the next await, so controls are not enabled there. The one
operation that the code runs through in pieces without awaiting, and where the
order matters, is closing the wells of a round: `CloseWell` one by one, each with its
checkpoint, then `RoundClosed`, because a crash can fall between them.

A trial is a `WorkflowRun`. Each of its steps here is one of the contract's with what the
loop's callbacks do at that moment: `RecordCast` at the end of a deposit, the hold at the
end of a step. What the step recovery does inside is Executor's subject; here it shows as
`LoseStep`, a step that ended badly and after which the workflow went on. A campaign's
executor has no channel ceiling, so `AskOperator` does not occur. Each `Park` counts in `parks`. `wet` is the
physical truth (material has, or may have, gone into a well), `rows` what the
database says of it. The store may refuse both writes that the next session depends on,
and the code logs that and goes on (`StoreFails`): `Write` then leaves some of the
rows out, and `lost` remembers of which wells; `PersistBoard` leaves `pointer` on the plate before,
and `stale` remembers that.

`ExchangeControls` says whether Pause and Abort may land during a plate
exchange. The exchange swallows both, which is the subject of a run that
finds a violation, so the run that checks everything else keeps them out of it.

`WellLife` is the campaign as its wells see it: fresh, in the hand of one round, given up,
and nothing leads back. `CampaignLoop` implements it (`OneLife`) with a `Well` for each
electrode of each plate, `hand` for the allocated batch and `gone` for what was closed or was
occupied before. A well in hand is cast only when every well cast before has a row, or was
refused one, and is given up on the same terms. The allocator, the rounds and their
failures, the exchange of plates and the checkpoint are below that level.

### CampaignLifecycle

The same campaign from outside: `softae-campaign run`, then `resume` as often as it
takes. What survives is `store` (the run rows, the checkpoint, the occupancy rows, the
active board) and `rig` (the plate and the drops on it, whether it is driven, whether
its sessions are open); everything else is a process that a kill takes away. At every
place the process may be killed, get a signal, or raise, and the store may refuse an
occupancy row or the active board (`StoreRefuses`). `EndCast` may keep the well in hand, as
the executor's recovery does when it replays a channel, so a well can be cast again inside its
own session as well. `unrecorded` remembers the wells whose deposit was cut short before there was
a row, and those whose row was refused. A signal or an exception leaves along `Unwind`, through the handlers the code has at that place: the park
guard, the catch-all of `run_autonomous_campaign`, the caller's `except`, the closing of
the row. The next launch reads the open rows, warns, marks them and parks
(`record_unclean_shutdown`, `MarkRows`, `RecoveryPark`), and plans from the store.

Three constants switch what the code leaves open. `ParkLeaves` is what a park may leave
when a driver call fails; `EventsRaise` lets a listener's exception leave `_on_park`
before its park; `PlateChanged` says that nobody relaunches onto a full plate
without changing it, which the code takes for granted.

### ControlChannel and EstopLadder

A request is a file, `control.json`, which replaces whatever was there. Writing it is
five file operations (the cursor into the event stream, the last number, the temporary
file opened, written and renamed), each a step; the watcher in the campaign's process
reads once when it is built and then, at every poll, compares the file's signature
before it reads. `edit` stands for that signature. `obeyed` and `answers` are history: what
was handed to the loop's handlers, and what each press was told. `Slips` names what may
fail in the watcher, each of which it swallows: a read of a file that is whole (which it
acknowledges as unreadable and does not repeat), a handler after it has set its flags
(acknowledged as `handler_failed`), the write of an answer. `lapse` remembers the change of the
file that was last read in vain, and the one that was last left unanswered. `Overlap` (two
processes write at once), `Gap` (a rename between the new watcher's read and its
stat) and `RenameOpen` (POSIX or NT) open or close windows the code leaves to luck.

`EstopLadder` adds the window's E-Stop: rung 1 writes an abort like any surface, rungs 2
and 3 wait for the answer and the park, and rung 4 terminates the campaign and parks
from here. Which rungs a window can reach is fixed when it is built (`reach`). A budget
that runs out is a nondeterministic `late`: it only changes what is offered.

### RigActivity

Inside a window. `claims` and `suspended` are the registry; `head` and `place` are where
the rig physically is; each run walks through rest, its steps and rest again, and each
purge from its look at the due lines to its last drop. The registry is asked and
obeyed by the purge tick and by manual commands only, on the window's thread; a run
enters itself on its own thread. So somebody may come after the tick looked: `late`
remembers who, and `LateOnly` says that nobody else is ever met. Leaving rest and putting
the head back after a purge both lift it, and both go on if it does not go up (`RetractHead`);
`mover` is then "fault". `refused` remembers whose fault it is when a run's first move is refused
because the head is down.

### Ledgers

Every process that drives the syringe has a ledger (`levels`), which reads a pump's row
once and then keeps it and writes it back whole. `stock` is what the barrel really
holds. A dispense is checked, booked, and drawn, three steps a process can die between;
a read or a write of the store may fail, and is then only logged. `slipped` remembers the
pumps for which that happened, until they are declared again: after an unread row the
pump counts as undeclared and passes, after an unstored level a restart finds the old
one. `Together` is whether a window's ledger lives beside a campaign's.

### Heater, Humidifier, Characterization

`Heater`: the manual Set and Ramp, an anneal, a sweep and a park, each on a thread
of its own. Each write is a step of its own under `_sp_write_lock`; a ramp looks at
`cancel` again under the lock; `stop` (`_stop_wait`) makes the controller refuse
everybody. `since` is who has written since the last park's write landed. The
writers share a window or a campaign (`host`), which differ in who resets what.

`Humidifier`: a PID thread whose tick may wedge, and callers that start, stop, dry and
disconnect it statement by statement, for none of them takes a lock. A start comes after a
setpoint of its own, or bare, as a sweep's does that finds the loop stopped. `wire` is the last
duty the valves got; when the port is gone the device's deadman shuts them.

`Characterization`: a night of setpoints under the command that hosts it. `doing` is
the call the run awaits, `thread` how far each call's thread is. Ctrl-C takes the run
out of the await, into the teardown or, there, out of it; the thread goes on. `told` is what
the operator has read. A half of the teardown that failed is first a `problem`, and
becomes `unrestored`, which is what the operator is told of, when both halves are over. `Straddles` lets a press come before a setpoint's thread has
the driver's lock.

## 3. Runs

| run | cfg | shows | distinct states |
|---|---|---|---|
| rig_lock | MCRunLock | claims stay on disk and cover their blocks; the lock implements `RigOwner`, hence one owner | 1,052,598 |
| rig_lock_live | MCRunLockLive | the rig is never wedged | 59,298 |
| executor | MCExecutor | a linear workflow with an operator, and that it implements `WorkflowRun`; a tiered one with timeouts | 66,260 |
| loop | MCCampaignLoop | a campaign with plate exchanges, failures, a store that may refuse, and an operator, and that it implements `WellLife` | 400,715 |
| lifecycle | MCCampaignLifecycle | three launches of a campaign with two kills, signals, exceptions or refused writes | 23,309,489 |
| desktop | MCDesktop | the control file and the E-Stop; the activities of a window; the stock | 1,223,661 |
| instruments | MCInstruments | the heater, the humidifier, an equilibration night | 830,704 |
| rig_lock_race | MCRunLockRace | finding: two owners | |
| exec_recast | MCExecutorRecast | finding: cast twice, by a replay | |
| loop_abort | MCCampaignLoopAbort | finding: an abort swallowed | |
| sweep_left_hot | MCInstrumentsSweep | finding: a park refused after an aborted sweep | |
| stock_stale | MCDesktopStock | finding: two ledgers, one barrel | |

### Bounds

**rig_lock**: three processes, of which one is on another machine, two crashes, one
reused pid, blocks nested twice. Two crashes make a stale lock that is read while its
second owner dies; the reused pid makes a process that finds its own name in a
file it never wrote; the visitor's pid reads as alive for ever. Three is what the
interesting race takes (a judge, a successor, a third claimant), and nested
depth two is the first at which an inner block can free an outer claim.

**rig_lock_live**: two processes with every window open on a system where a file that is
open cannot be unlinked (the rig's PC runs Windows), one crash, and an operator at each
who may take the rig from the other (`Breaks`). This is the worst
case for getting stuck: a crash between create and write leaves an empty file.

**executor**, linear: eight steps on two channels in the deferred layout (cast all, anneal
with purges, measure all), which has campaign-level steps before and between, two
separate blocks per channel, a step with two attempts and steps with a purge window.
One replay per channel and a ceiling of two make the sequence replay, skip,
ceiling, hold, park reachable. `exec_recast` uses the pointwise layout, in
which a channel is cast and measured in one block. By tiers: a sweep as
`workflows/temp_eis_sweep.py` builds it, five steps in four tiers of which one has two
readings on one instrument with a retry each, and a pool of two threads, so that abandoned
calls can use it up.

**loop**: four wells, two at a time, on plates of three of which one is used: the
first plate yields a full round, the next round meets a full plate, the exchange gives
one with room to spare, and the budget cuts a round. A failure limit of
two lets two failing rounds park, or one round of two failed wells. Any row, and the
number of the second plate, may be refused. `LastBoard = 2` is
enough for the whole budget.

**lifecycle**: three wells, two at a time, on plates of two, and a failure limit of two:
a round that fills a plate and one that needs another, a streak that spans two
launches. Three launches and two faults make a launch that is killed while it
repairs what an earlier one left. A refused write is one of the faults, so one refused
row and one kill, and two refused writes, are within the bound.

**desktop**: two presses, by any two of a bar, the command line and the E-Stop, at any
moment of the campaign, one after the other; two requests suffice for one to replace
another, or to carry a number seen before. Any read, handler and answer of the watcher may
fail. The window has some rung in reach: one that has none does what the others do
without an E-Stop. A run that casts and one that only
measures, one fluid line, which has the same three answers (none, partly, all) as more.
One barrel of four volumes with a margin of one and doses of one and two, a window and a
campaign one at a time, and two failing store calls. Pumps share nothing.

**instruments**: three setpoints (safe, working, hot), every program a window or a
campaign runs, and any number of parks; two PID threads, of which a second can exist only
beside a wedged one, with a hand and a park calling; a night of two setpoints of two
rounds with three presses (one into the run, one into the teardown, one more) and two
failing calls.

Deadlock is not checked, as a finished run, a run that waits for an operator, and a
machine whose processes have all died really do stop.

### Fairness

Each liveness property assumes only what the code's scheduling gives.

- `NeverWedged`: a process inside a call of `run_lock.py` takes its next file
  operation (there is no waiting in it); a block ends; a process that is refused
  asks again. Nobody is obliged to start, and crashes are allowed.
- `RunEnds`: the executor's task gets its turn again and again although buttons are
  pressed (strong fairness of `Advance`: a button between check and assignment
  occupies the loop for a moment); steps end, as a step without a
  timeout of its own gets the default one; purges end; a pressed button takes effect. The
  operator is not obliged to press anything, hence "ends *or waits*".
- `TiersEnd`: steps are attempted, and a step in flight ends or times out; an abandoned
  call and a teardown's call return, for they have no timeout and a device that never
  answers them does keep `run()` from ending. Section 5 says so.
- `AbortEnds`, `PauseLands`: the loop's task runs, gates time out, and a workflow
  gets to its last step in the end. The last is `RunEnds`, assumed here as strong
  fairness of that one step.
- `LastWordObeyed`, `PressAnswered`: a write that was begun goes on, the watcher polls
  every second and the bar every two, a park comes to its end.
- `PurgeServed`: the window's timer keeps ticking, and a pump that is asked again
  and again answers in the end (strong fairness of the dispense).
- `ParkedDry`: the PID thread goes round unless it is wedged, the deadman falls.
- `RigHandedBack`: the run's steps and the threads go on; every driver call has its
  retries and every watched wait its deadline, so each thread ends.

### What the properties say

The definitions at the end of each module carry their statement. Those that took
thought:

- `Implements` includes `OneOwner`, which the finding `rig_lock_race` checks by itself:
  `RigOwner` has one owner or none.
- `ClaimOnDisk` is the reason why OneOwner holds and the first thing that would break: a
  retitle truncates the file, a nested block releases it, a GUI poll repairs
  it, a visitor cannot judge it.
- `CompletedAccounts`: "completed" with a channel that was neither done nor recorded as
  skipped is a well that the loop would report as real.
- `KeepsContract` says at once that an abort is seen before the next step, that a pause
  holds the run where it is, that a run ends once, and that what it ends with is what its
  last step came to. An abort during the last step is accepted and the run ends with its
  results all the same: so it is in the contract, and what the loop makes of it is checked
  there.
- `KeepsContract` and `CeilingHolds` hold on one event loop. With the buttons of the HT
  tab, on another thread, they do not: a press that was checked against the old state lands
  after the executor's own pause or abort and overwrites it. `HeldIsQuiet`,
  `PurgeJoined` and `CompletedAccounts` survive that.
- `WellsKept` counts the round in hand. A round that is aborted or ends in a hard
  fault stays in hand for ever: its wells are in neither the iteration count nor the
  checkpoint, although the comment at `core/autonomous_loop.py:427` lists "aborted"
  among what goes through `_advance_iteration`. The wells themselves are safe
  (`CastOnceEver`); a resumed campaign has that many more to spend.
- `OneLife` says in one formula what single use is: no well is granted twice, nothing is cast
  onto a well that is not in hand, and before a second well is wetted, or one is given up with
  material on it, its row was written or the store refused it.
- `PlateRecorded` and `CastOnceEver` do not say that every used well has a row, because a write
  that fails is swallowed. They say that nothing else loses one. `PlateRecorded` excepts the
  well being cast and the wells in `lost`; what a next session takes for the active plate is the
  one in the rig, unless the store refused its number and has no row on it either.
  `CastOnceEver` excepts the wells in `unrecorded`: those whose very deposit was cut
  short, or whose own row was refused. A refused row of one well costs no other well.
- `ParkedOnce` does not say that every end is a park: a campaign that is declined, or
  whose plate exchange is cancelled, or that finishes, is not parked by the loop.
- `LeftDrivenIsOwed` is what all the parks are for: when the instruments are out of reach
  and the rig was left driven, the store still says so, in an open run row or in an alert.
- `FaultEscalates` follows one number, the failures in a row nobody was told of, through
  the loop, the checkpoint, and the restart that reads it back; it excepts a session
  cut short between the last failure and its report.
- `LastWordObeyed` and `PressAnswered` are different promises: the last request is obeyed
  though nobody could be told, while a bar whose request was replaced waits for ever. Each
  excepts one slip: a request whose one read failed is never obeyed, but answered; an answer that
  could not be written is not waited for.
- `LateOnly` does not say that two never drive one instrument, which nothing
  ensures, but who they can be: somebody who came after the tick had looked.
- `StepsMove` is about what a run does to itself, at its ends and in its purge windows. A head
  that failed to go up, a step that raised with the head down and a visitor's drop are excepted,
  and each does have a step refused.
- `DryAfterPark` excepts a bare start: the park clears the setpoint but not the controller's
  integral, so the loop that such a start spawns may ask for humidity once more.
  `ParkedDry` holds with it.
- `ParkLandsLast` excepts in a window those that no park tells: a Set already waiting for
  the lock, and an anneal or a sweep of the window's own.
- `HandedBackCold` is stated for a teardown that was not itself interrupted; one that was
  prints what section 5 quotes.
- `KeptOffStop` compares the barrel with the program about to be written, not the ledger
  with itself.

Some properties are proved and not run, as the proof covers every instance:
`LockCoversDriving`, `NoStepAfterAbort`, `InOrder`, `PausedIsQuiet`, `TiersKeepContract`,
`HeardItself`, `StillToHear`, `StillToAnswer`, `RunsOnward`, `TiersRunOnward`,
`RoundsOnward`, `NoGhost`, `TeardownServed`, `NoCallLost`, `NightOnward`, `OneOwner` where it
holds, and the type invariants of all modules. (`OwnAnswer` is run, as a conjunct of
`PressAnswered`.) Four are defined and do not hold, and describe section 5: `NoStrayBeside`,
`PauseLeavesHead`, `RecoveryMoves`, `RestoredIsTrue`.

## 4. Proofs

Every theorem holds for all values of the constants that satisfy the assumptions in the
modules: any number of processes on any machines, any workflow, batch, plate and
budget, any number of launches, pumps, setpoints and retries.

| module | theorem | states `Spec =>` | assuming |
|---|---|---|---|
| `RunLockProofs` | `TypeCorrect` | `[]TypeOK` | |
| | `OneOwnerHolds` | `[]OneOwner` | `Guarded` |
| | `ClaimStaysOnDisk` | `[]ClaimOnDisk` | `Guarded` |
| | `BlocksStayCovered` | `[]BlocksCovered` | `Guarded` |
| | `RefinesRigOwner` | `Implements` | `Guarded` |
| | `NoGhostHolds` | `[]NoGhost` | |
| `ExecutorProofs` | `ExecutorTyped` | `[]TypeOK` | |
| | `LockCovers` | `[]LockCoversDriving` | |
| | `HeldRigIsQuiet` | `[]HeldIsQuiet` | |
| | `PurgeIsJoined` | `[]PurgeJoined` | |
| | `CeilingKept` | `[]CeilingHolds` | `~Threaded` |
| | `NoStepOnceAborted` | `NoStepAfterAbort` | `~Threaded` |
| | `KeepsContractHolds` | `KeepsContract` | `~Threaded`, a plan with steps |
| | `CompletedAccountsHolds` | `[]CompletedAccounts` | |
| | `CastOnceHolds` | `[]CastOnce` | `DepositsApart`, no timeouts |
| | `RunsOnwardHolds` | `RunsOnward` | |
| `TiersProofs` | `TiersTyped` | `[]TierTypeOK` | |
| | `InOrderHolds` | `[]InOrder` | |
| | `OneCallerHolds` | `[]OneCaller` | |
| | `TiersKeepContractHolds` | `TiersKeepContract` | `Acyclic`, a plan with steps |
| | `TiersRunOnwardHolds` | `TiersRunOnward` | |
| | `TeardownServedHolds` | `[]TeardownServed` | |
| `CampaignLoopProofs` | `CampaignLoopTyped` | `[]TypeOK` | |
| | `ParksOnce` | `[]ParkedOnce` | |
| | `OneLifeHolds` | `OneLife` | |
| | `WellsKeptHolds` | `[]WellsKept` | |
| | `RoundsOnwardHolds` | `RoundsOnward` | |
| | `PlateRecordedHolds` | `[]PlateRecorded` | |
| | `ResumePointHolds` | `[]ResumePoint` | |
| | `NothingAfterEnd` | `NoWorkflowAfterEnd` | `Heeded` |
| | `HoldIsQuiet` | `[]PausedIsQuiet` | `Undisturbed` |
| `CampaignLifecycleProofs` | `TypeCorrect` | `[]TypeInv` | |
| | `LeftDrivenIsOwedHolds` | `[]LeftDrivenIsOwed` | `ParksTake` |
| | `FaultEscalatesHolds` | `[]FaultEscalates` | |
| | `CastOnceEverHolds` | `[]CastOnceEver` | `PlateChanged` |
| `EstopLadderProofs` | `LadderTyped` | `[]LadderTypeOK` | |
| | `InOrderOnceHolds` | `[]InOrderOnce` | |
| | `ParkedIsTrueHolds` | `[]ParkedIsTrue` | |
| | `KillIsLastResortHolds` | `KillIsLastResort` | |
| | `OwnAnswerHolds` | `[]OwnAnswer` | `~Overlap` |
| | `HeardItselfHolds` | `[]HeardItself` | `~Overlap` |
| | `StillToHearHolds` | `[]StillToHear` | `~Overlap`, `~Gap` |
| | `StillToAnswerHolds` | `[]StillToAnswer` | `~Overlap`, `~Gap` |
| `RigProofs` | `RigTypedHolds` | `[]RigTypeOK` | |
| | `ClaimCoversHolds` | `[]ClaimCovers` | |
| | `LateOnlyHolds` | `[]LateOnly` | |
| | `StepsMoveHolds` | `[]StepsMove` | `Fluidic = {Host}` |
| | `StockTyped` | `[]StockTypeOK` | |
| | `KeptOffStopHolds` | `[]KeptOffStop` | `~Together` |
| `InstrumentProofs` | `HeatTyped` | `[]HeatTypeOK` | |
| | `ParkLandsLastHolds` | `[]ParkLandsLast` | |
| | `AbortParkLandsHolds` | `[]AbortParkLands` | |
| | `DryAfterParkHolds` | `[]DryAfterPark` | |
| | `ChTyped` | `[]ChTypeOK` | |
| | `HandedBackColdHolds` | `[]HandedBackCold` | `~Straddles` |
| | `NoCallLostHolds` | `[]NoCallLost` | |
| | `NightOnwardHolds` | `NightOnward` | |

`Spec` is the module's own: `BarSpec` for the control file and the ladder, `RigSpec`,
`StockSpec`, `HeatSpec`, `HumidSpec`, `ChSpec`. None of them states fairness.

The assumptions on the right are what the code relies on without enforcing it. Each
is backed by a counterexample or an observation of what happens without it: `Guarded`
by `rig_lock_race`, `Heeded` and `Undisturbed` (no Pause or Abort during a plate exchange) by
`loop_abort`, `~Together` by `stock_stale`, `Fluidic = {Host}` by the Sandbox tab, `DepositsApart` (the deferred layout: a channel's
block ends with its deposit) by `exec_recast`; that no deposition times out by section 5; `~Threaded` by the buttons of the HT tab,
`ParksTake`, `PlateChanged`, `~Straddles`, `~Overlap` and `~Gap` by the observations in
section 5. `Acyclic` is what `_topological_tiers` enforces: a circle raises before any tier.

They are as weak as TLC let them be. Each conjunct of `Guarded` dropped alone has a
counterexample to `OneOwner`, `ClaimOnDisk` or `BlocksCovered`. `Heeded` asks
that no control lands while the operator is asked for a plate, and while its
chamber equilibrates only in campaigns without an approval gate: with one, the gate after the
exchange sees the abort. `HoldIsQuiet` needs both places quiet (`Undisturbed`). With `Overlap`, `HeardItself` and `StillToHear` fail; with `Gap`,
`StillToHear` and `StillToAnswer` do.

### The rig lock

`Guarded` is `Open = {} /\ ~Breaks /\ ~MidRunSession`. The first conjunct cannot be
dropped: `rig_lock_race` is the counterexample. The theorems so locate the
weakness: whatever else happens, the two windows are the only way to two owners.

The last clause of `TypeOK` is not about types: a process is inside a call exactly while it has a
next file operation, so no path through the functions of `run_lock.py` forgets to end.

`OneOwner` is not inductive. From a state in which p owns the rig, the file does not
name it, and q is about to create the file, q becomes a second owner; what
excludes that state is the file. So `IInv` says what every place in the code may rely on:

- `ClaimWritten`: a claim is on disk, and written unless its owner is rewriting it. The
  file names one owner, so OneOwner follows at once.
- `FileKnown`: what a place learnt about the file is still so. The lock being judged is
  the lock on disk, the file about to be unlinked is nobody's claim, and who is
  about to write or truncate is the owner.
- `OneInWindow`: with the windows closed at most one process is in one. FileKnown
  rests on it.
- `CallsKnown`: which call reaches which place, and what it has given up by then: a
  process that releases has no block or session left that relies on the claim, and still has the claim
  until its release ends.
- `Covered`, with `OuterOwns`: whoever is in a block or a session has a claim,
  and of its blocks and its session only the outermost releases. This is what lets an
  inner block end without freeing the outer claim.
- `DeadHoldNothing`: a dead process has no claim, no block, and no operation to take.

The proof has one lemma per action, each in the same shape: the variables the action changes, then
one step per conjunct of `IInv` it can disturb. What the end of `read_run_lock` does on
behalf of its callers is common to three actions and is proved once
(`ReturnsType`, `ReturnStep`, with `GrantStack` and `GrantStep` for the return of
`acquire_run_lock`). `RefinesRigOwner` needs one more fact, that a step changes
`claims` by at most one process and never exchanges one for another (`ClaimsStep`).

`NoGhostHolds` is the other promise of the lock, that it keeps nobody out in vain, and needs
no assumption at all: two owners may come of the windows, a ghost may not. It asks what a
process knows of its own lock (`OwnLockKnown`), and one fact about steps, that nobody
else changes its place or its claim (`OthersKept`). It leaves out a pid that is given to a
new process, whose predecessor's lock does read as alive (`is_alive` asks for the pid only).

### The executor

Linear: four invariants. `IInv` needs no assumption: the lock is held wherever `run()` is
between its arming check and its end, a purge window is open only at `step` and `joining`
of a first attempt, and `held` is true only where `run()` waits. That nothing else is
needed says that these three properties do not depend on when buttons are pressed.
`ControlInv` is about the operator on one event loop: a control between check and
assignment still finds the state it was checked against, an accepted abort stays in
`state` until the run is over, and a streak at the ceiling means that `run()` is in the
hold, or parked by it. With another thread the first part is false, and the other two
with it.

`PlaceInv` is about the plan: every step the run has passed was done or its channel is
given up. A replay goes back and a skip goes forward, so it rests on where blocks begin
and end (`BlockBegins`, `BlockEnds`, each by the least element of a set of naturals), and
`CompletedAccounts` is its last case. `CastKnown` adds which step a drop came from, and that the
run never comes back to it: a replay begins behind every deposit (`ReplayStaysAfter`), and a
deposit that cast before it failed is tagged. `KeepsContractHolds` needs `ControlInv` and
`PlaceInv`, and has one step per action: what the host sees of it is a step of the contract
or nothing. `ExecutorTyped` takes the types in groups that no action disturbs together;
what is not a type in it, that a step is tried no more often than it may be and a channel
replayed no more often, needs `PlaceInv` to know the step at hand.

By tiers: `TierByTier` says that what is passed is done with all it depends on, and that
in-flight steps exist only during their tier; `Locked` that whoever is past a lock has it;
`Attempts` bounds the retries. `InOrder` and `OneCaller` follow from them, whatever times out.
`TiersKeepContractHolds` adds `StateKnown`, the state a run reports at each place, and
that while there is something left to do there is a tier to do (`TierThere`, where `Acyclic`
comes in): a run that found no tier before its last step would be over
without a last step, which the contract does not know. `TeardownServedHolds` is about the one
caller without a timeout: no lock is left behind by a step that was cancelled
(`LocksInUse`, the converse of `Locked`), so the teardown waits for nobody's lock, and for a
thread only behind calls that were abandoned in theirs.

### The campaign loop

`ParksKnown`: a park has a reason and is followed by leaving only. `LoopInv`: where the loop
can be once the campaign is over or is to be (`EndKnown`), and while it has announced
that it holds (`HoldKnown`). `WellsKnown`: the round in hand is empty except between placing
and closing, and a round that is about to be placed fits the budget. `RecordInv`: what holds
material, has no row and was refused none is the well being cast (`InFlight`); the allocator's plate is
the one in the rig wherever something can be cast, and the pointer is that plate unless it
is `stale` (`PlateKnown`). `CheckpointKnown`: the checkpoint moves only with the
counts it stores. Each is inductive by itself or over `WellsKnown`.

`OneLifeHolds` needs `GrantInv` besides (together `LifeInv`): the round in hand has no
electrode twice and none that is still on offer, and what may hold material was in a round. It
has one step per action, of which most are `NoLife`: they change nothing a well
sees. The allocator grants the first n free electrodes in the order of the plate. That there
are n such electrodes when the plate has room is an induction on n, and the prover has none; so
`FirstExists` takes the least n for which there are not, and `OneMore` refutes it.

`CampaignLoopTyped` takes the types in groups: places and what is in hand (`PlacesTyped`),
the flags (`FlagsTyped`), the plates (`BoardsTyped`, which rests on `LifeInv`), and the counts
(`CountsTyped`, which rests on `WellsKnown`: no more failures than rounds, and no trial begins
with nothing in hand).

### The launches of a campaign

Three invariants over the common `TypeInv`, one for each question the next launch asks.

- `DrivenInv`: a rig that is driven with nobody told is in a trial, on its way to the
  park, or lies open in a run row (`DrivenKnown`). What it rests on: the row of a running
  campaign is open until it is closed (`RowOpen`), a launch sees all open rows before it
  drives (`OwedKnown`), and a park guard that was used up has parked (`GuardKnown`,
  `LoopParkKnown`).
- `EscalationInv`: the failures in a row that nobody was told of are at most the streak
  the loop counts (`StreakKnown`), at most the one in the checkpoint while no process
  lives (`ResumeKnown`), and below the limit everywhere but between the round that
  reaches it and its park (`LimitKnown`).
- `CastInv`: what is on the plate in the rig is written for the active board and for the one
  the allocator is on, being cast, or `unrecorded` (`CastWritten`, which is what a pointer
  that was refused must not break: the board is then the highest with a row); the allocator offers nothing of what is written
  (`OffersUnused`); other plates are unused (`PlatesKnown`).

`ParksTake` is `ParkLeaves = {FALSE} /\ ~EventsRaise`: a park turns off what is connected,
and no listener's exception comes before it.

### The control file and the emergency stop

Requests are numbered by whoever writes them, and two writers can choose one number, so the
numbers do not order what is obeyed. `edit`, the count of changes of the file, does. `ObeyKnown`
says that a file the watcher would still hand over is newer than everything obeyed
and than the watcher itself; once it is obeyed, `acted` is its number and it is fresh no
longer. What was on file when the watcher was built and could not be read then is fresh, and is
not read: `seen` is its signature (`PassedOver`). Every write makes a newer file, whatever its number, and a watcher is
built once, by looking at what is there. The ladder adds two facts: a record of the park on the
stream, or in what the ladder read of it, means that the campaign has parked and does
nothing but end (`ParkTold`, over `DoneStays` and `NewsIsTrue`); and what it offers
has not been overtaken by a park it read, the takeover only past T2 (`OffersKnown`).

Whose answer an answer is, is a matter of the numbers. While one surface writes at a
time the file's number is the count of its changes (`SlotKnown`, `WriterKnown`). So a number
names one press and a press has one number, in the file, in what is waited for, and in every
answer that quotes one (`Numbered`), and what is being written has none yet
(`Unnumbered`). `OwnAnswer` and `HeardItself` follow. An answer that quotes none,
from the campaign's end, answers everybody.

That nothing is forgotten rests on the watcher's two marks. `seen`, the signature it
compares, never runs ahead of the file, and `acted`, the last number it acted on, is what was there
when it was built (or 0, if that could not be read) or what it handed over (`MarksKnown`). `ToldInTime` is the chain a waiting
window hangs on: as long as its request is on file and its answer was not lost in the writing, either the watcher is about to read it, or has
a newer signature to find, or an answer lies in the stream beyond the window's cursor.
Renaming the file, reading it and answering each hand the obligation to the next link.
These two are the safety halves of `LastWordObeyed` and `PressAnswered`; what TLC adds is
that the watcher and the window do go on.

### The rig's claims

Three invariants, each resting on the one before. `ClaimsKnown`: a run has its one claim from
entering it to giving it back and is suspended only while held, and the purges' claims, all
under one name, are as many as the purges at work. `LateInv`: a tick that goes on found no
claim in its way, so a run that drives beside it came later (`WhoDrives`); and
alone it finds the head and the stage where it put them, until it dispenses
(`TickPose`). `MoveInv`: whoever left the head down is in its drop, or lifts it on
leaving rest, or is the purge window that is about to lift it (`MoverKnown`); what fails to be
lifted is charged to the fault (`HeadRetracts`). The last one needs that
syringe and stage have one run, `Fluidic = {Host}`. Nothing in the code sees to that
(section 5, Activities).

### The ledgers

The one ledger there is agrees with its row (`Agrees`), the row of a pump that is
accounted for never says more than the barrel holds (`Covered`), and a dispense in hand is
covered by what is left beyond the margin (`Booked`). Booking before
drawing is what makes `Covered` survive a crash: what dies between them is a volume
written off that is still there.

### Heater, humidifier, equilibration night

- Heater: one writer has the lock (`Locked`), and whoever orders a park has first
  made sure that what it must outlast will yield or is over (`Ordered`, `Released`). The
  two properties are part of the invariant, as a park that is over leaves nothing else
  behind than that it landed last.
- Humidifier: a loop that a stop can find is known to be running, but while it is being
  started (`HandleKnown`). So a stop that returns at once leaves no loop behind
  (`NothingLeft`), and one that joins leaves none that is not wedged. `ParkKnown` carries
  this through a park: with no excuse nobody is past the first statement of a start, the
  only loop is the one the stop will find, and past the stop there is none. The one caller
  that parks, `Parker`, is the assumption of the model: two parks at a time would each
  clear the other's `parked`.
- Night: at work only the setpoint in hand is being written
  (`AtWork`); once the restore has the driver's lock nothing else writes (`OneWriter`); the
  chamber is at ambient, or a problem is noted, or the operator was told (`SentBack`). A second Ctrl-C (`cut`) voids
  the last two, as the property says. `ChTyped` needs only the types and `AtWork`, so it
  holds with `Straddles` as well, and so do `NoCallLostHolds`, which is inductive over the types, and
  `NightOnwardHolds`.

### Only model-checked

All liveness: `NeverWedged`, `RunEnds`, `TiersEnd`, `AbortEnds`, `PauseLands`,
`LastWordObeyed`, `PressAnswered`, `PurgeServed`, `ParkedDry`, `RigHandedBack`. The prover
has no rule for fairness with `ENABLED`. Every safety property of a passing run is proved.
Nothing proved depends on a recursive definition: the prover cannot do induction over data
with the provers at hand, and no module here declares a `RECURSIVE` operator.
Of some the safety halves are proved. For `LastWordObeyed` and `PressAnswered` they are
`StillToHear` and `StillToAnswer`: nothing is lost on the way. For `NeverWedged` it is `NoGhost`: whom the lock names has the rig or is
gone. For `RunEnds`, `TiersEnd`, `RigHandedBack` and the
campaign as a whole they are `RunsOnward`, `TiersRunOnward`, `NightOnward` and `RoundsOnward`: every move of
the run's own goes up in a lexicographic order, whatever the operator and the faults do
between, so that nothing goes round for ever. The first component is what the code
charges for its one way back: a replay to its channel, a tier to the tiers passed, a round
to the budget. That the order has an end follows from the bounds in the type invariants
(finitely many channels, steps and tries); to conclude that the run ends takes, besides,
that it does move, which is fairness and TLC's part. What `RoundsOnward` leaves out, the
steps of a trial, is `RunsOnward`. `TeardownServed` and `NoCallLost` say besides that nothing is
waited for that nobody will do.

## 5. Where the code and what it says disagree

Each of these is a run that TLC ends with a counterexample; `PROJECT.json` quotes the
lines.

1. **Two owners** (`rig_lock_race`). A judges a dead owner's lock stale; B clears it
   and takes the rig; A unlinks B's lock. The exclusive create does not help, as
   the unlink before it is not exclusive.
2. **A drop on a drop, by replay** (`exec_recast`). In the pointwise layout an EIS read
   that loses communication replays its channel from the first step of the
   block, which is before the deposit.
3. **An abort swallowed** (`loop_abort`). During the equilibration of a new plate the
   exchange's `except Exception` takes the AbortedError for a failure of
   no consequence, and the round is cast.
4. **A park refused** (`sweep_left_hot`). An aborted Arrhenius sweep leaves `_stop_wait`
   set. Every later write of a setpoint raises, the park of E-Stop and Safe Exit included,
   until the next sweep begins.
5. **Two ledgers, one barrel** (`stock_stale`). A window and the campaign it launched each
   keep the level they read first. What one draws the other does not see.

What follows was met on the way. It comes out of the models, with the switch or the
property named where there is one, or out of reading the code they stand for.

**Rig lock.** A retitle truncates the live claim, and a reader in that window removes it
(`Open = {"write"}`). "Take the rig?" removes a live owner's lock, whose run goes on (`Breaks`).

**Executor, linear.** A deposit that times out is cancelled, and the cancellation passes the
handler that attaches `dispense_committed`, so a retry casts again. An abort during the
last step is overwritten by COMPLETED (`workflow_executor.py:433`). A drop that raises after
the head went down leaves it down, and the next channel's first move is refused
(`RecoveryMoves`; `workflow_executor.py:693-694`, `async_liquid_handler.py:266`).

**Executor, tiers.** A threaded call that timed out goes on after its lock is released;
the retry, the teardown, and the next run drive the instrument beside it, even after the rig
lock is gone (`NoStrayBeside`). The teardown's calls have no timeout, so a hung device keeps
`run()` from ending. An abort during the last tier is overwritten here too.

**Campaign loop.** A Pause during a plate exchange is noted as taken by a workflow that is
over. The hold flags are released only when the abort itself parks, not when a round does.
The executor wraps a SafetyError in a WorkflowError; `_is_hard_fault` looks at the outer
class (`autonomous_loop.py:1535`), so a refusal counts as an ordinary failure and the next
wells are cast; `tests/test_autonomous_loop.py:324-352` bypasses the executor. Resume and then
Pause at the held gate is not announced again; a Pause before an abort survives it. A
resumed campaign may end "converged" before its first round.

**Launches.** If `on_event` raises on the park event, `_on_park` is left before `safe_park`, with
the loop convinced that it parked (`EventsRaise`; `autonomous_wiring.py:5101-5107`,
`autonomous_loop.py:1549-1553`). A full plate at launch with nobody to ask is taken for a changed
one and cast onto again (`~PlateChanged`; `autonomous_wiring.py:3640-3645`, against "never
silently re-cast" at 3614-3616). A signal's park that fails is only printed and the row closed as
"error" (`ParkLeaves`). The loop's own park and the recovery park bypass the once-guard.
`connect_all` is outside the `try` of `_go` although the comment above it says otherwise. A
deposit that was cut short has no occupancy row, and the next session casts there; so it does on a
well whose row the store refused, which is only logged (`unrecorded`; `autonomous_loop.py:1334-1341`).
A refused active board leaves the pointer behind until the first row on the new plate
(`stale`; `autonomous_loop.py:1290-1294`). A
process killed between the last failure it allows and the park it then owes goes unreported
(`cut`); killed between marking the open rows and the recovery park it leaves only the alert.

**Control channel.** The comment above `DEFAULT_CONTROL_POLL_S` says "A poll cannot miss an
edit; it can only be late by one interval" (`campaign_events.py:693-694`). The watcher stores the new signature before it reads
(955-968), so an edit whose one read fails is acknowledged as unreadable and not looked at again
(`"read"` in `Slips`). A request written between the new watcher's read and its stat is never
noticed (`Gap`; `campaign_events.py:920-921`). Two writers share the temporary file and the
number (`Overlap`). A bar whose press is replaced, or whose campaign ends, waits for ever. An abort written
before the watcher exists is acknowledged as pre-existing and ignored
(`campaign_events.py:923-925`), and the ladder takes that for the campaign stopping
(`estop_ladder.py:125-127`, `773`); with `Overlap` it may also take the answer to somebody
else's request for its own. An E-Stop pressed between the `park` and the `safe_park`
event never shows PARKED; a `safe_park` with `ok=False` does.

**Activities.** A paused run makes the purge dispense without asking, though the docstring of
`rig_activity.py` (29-41) says it is to ask: `suspended_conflict` has no caller in production
(`purge_runner.py:238`). It leaves the head down while it does (`PauseLeavesHead`). `rig_run`
never asks `conflicts`, so a Sandbox workflow that casts runs beside an HT run and is
refused its first move while that run's purge window has the head down (`StepsMove` with
both in `Fluidic`). `reset_locks` replaces locks that a live run holds. The head guard is
attached by the main window alone. The runs of the other tabs do not manage the
rest pose. The manual worker claims nothing, so a tick may run beside it.

**Ledgers.** Waste has two caches even in one process (`main_window.py:149-154`,
`autonomous_wiring.py:5169-5171`), so additions are lost; its `check` has no caller. The board
inventory of the autonomous tab is never set (`_autonomous_run.py:176`), so spare boards are
neither checked nor consumed there. A level that could not be stored is only logged, and a
restart restores one that is too high; a row that could not be read passes unchecked
(`reservoir.py:116-120`). `tests/test_reservoir.py:225-226` says stock "must outlive the process
that declared it".

**Heater.** An anneal of the HT tab, or a sweep nobody aborts, in the window of an E-Stop or
Safe Exit is not told; its ramp and its restoring write land after the park
(`Untold`; `async_temp_controller.py:68-70`). So does a Set that already waits for the lock. A
campaign that parks for a fault with an abort pending has its write refused. An anneal whose restore failed and is
retried takes the anneal's target for the original. The mock controller ignores
`_stop_wait` in `write_sp`, so tests do not meet item 4.

**Humidifier.** A start after a stop that gave up on a wedged thread revives that thread: two
loops. After `safe_dry` with a wedged thread, `stop()` returns early and the dry duty stays
the exit duty, against its docstring. A start that races a stop or a park is lost, and the
loop goes on; with a Set's worker behind it the chamber stays wet after the park.

**Equilibration.** `RestoredIsTrue` does not hold: a Ctrl-C during the teardown's restore
prints "Ambient restored" although the write failed or was never awaited
(`tools/equilibration.py:1896-1905`); one during `connect_all`, which is outside the `try`, prints
it and disconnects nothing. A press between the humidifier's start and `_rh_started_by_run = True`
leaves it on; one before a setpoint's thread has the lock lets the setpoint land after the
restore (`Straddles`). A run whose restore failed ends "done" with exit status 0. Nobody calls
`EquilibrationRun.abort()`, so the thread of an interrupted hold polls on until its
deadline; a further Ctrl-C gives the rig's claim back meanwhile. One unreadable gap ends the night as
a dead sensor. `sidecar_written` stays true when a later write fails, and that write truncates first.

## 6. What is not modelled

- Numerics: optimizers, circuit fitting, quality, equilibration criteria, the simulator.
  They are most of the repository's lines. The loop sees how many suggestions come back and
  one of four verdicts per well, a night sees whether a round settled.
- The construction of workflows, specs and extractors, the task catalogue, preflight:
  pure functions that run to their end before anything moves.
- Serial protocols, registers and reading of the drivers; the order of the park's driver
  calls and its per-axis errors; the stage and syringe beyond where they are left.
- Widgets, dashboards, reports, the web view, all read-only.
- `Executor`: routing of results, booking of waste. `CampaignLoop`: the batch and pointwise
  paths without an allocator, which share the helpers; the alert on a streak of untold
  wells, which changes nothing; a checkpoint write that fails, which is logged and
  swallowed; `_track_occupancy = False`, which production sets only without an allocator
  (`autonomous_wiring.py:4905`). The GUI's board gate (`gui/tabs/_autonomous_run.py`) blocks the loop while it
  waits, so nothing else lands there; the CLI has no handler and cancels the exchange.
- `CampaignLifecycle`: campaigns inside a window, which have a guard of their own; the replay
  of trials into the optimizer; the fingerprint that decides whether a checkpoint fits.
- `ControlChannel`: a `stat` of the control file that fails, which reads as "no file" for one poll and
  has the same file read again, so that a request already obeyed is answered once more, as
  stale.
- `RigActivity`: a retract, move or descent of a purge's journey or of entering rest that raises
  for another reason than the guard's refusal; a journey that is refused ends in the
  same way, with an error in the log, no dispense and no belief to be at rest.
- `Ledgers`: waste and spare boards (the same cache, but nothing in production asks them
  before it acts, so a model would only say that), and the overflow allowance.
- `Humidifier`: a fallback for an output range that is empty. `Characterization`: the
  humidity axis's approach, the sidecar, the stream of progress, the fitting commands.
- The other bench tools (commission, env_hold, the EIS validation), which are sequences of driver calls
  under the rig claim.
- Hardware arming is a flag that is asked; `Executor` shows its refusal.

## 7. Plan

What would come next, in this order.

1. Sessions in `RunLock` with `MidRunSession`, and a run of their own.
2. Campaigns inside a window in `CampaignLifecycle`, with the window's guard.
3. Waste and boards, once something asks them.
