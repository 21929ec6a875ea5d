-------------------------------- MODULE RunLock --------------------------------
(***************************************************************************)
(* The rig lock of src/softae/core/run_lock.py and the session claim of    *)
(* core/rig_session.py: one file, rig.lock, that every process on the      *)
(* machine reads, creates, rewrites and unlinks.  Nothing in the code makes*)
(* a group of file operations atomic except the exclusive create, so each  *)
(* process here takes one file operation per step:                         *)
(*                                                                         *)
(*   read_run_lock     exists -> read -> judge -> (unlink)                 *)
(*   acquire_run_lock  a read, then create -> write                        *)
(*   retitle_run_lock  a read, then truncate -> write                      *)
(*   release_run_lock  relexists -> relread -> relunlink                   *)
(*                                                                         *)
(* and call[p] says on whose behalf read_run_lock runs.  A process may     *)
(* crash between any two steps; a process whose pid is reused starts with  *)
(* the dead one's name.                                                    *)
(***************************************************************************)
EXTENDS Naturals, Sequences

CONSTANTS
  Proc,        \* processes (a pid on a host)
  NoOne,       \* no owner: the file is absent, or a read that yields no lock
  Host,        \* Host[p]: the machine p runs on
  Open,        \* the unprotected windows another process can step into
  UnlinkOpen,  \* TRUE: a file can be unlinked while open (POSIX); FALSE: not (NT)
  MaxDepth,    \* bound: nested held_run_lock blocks per process
  MaxCrashes,  \* bound: processes that die
  Breaks,      \* TRUE: the operator may take the rig from another process
  MidRunSession,  \* TRUE: Connect/Disconnect All may be pressed during a run
  Reused       \* the dead processes whose pid may be given to a new one

ASSUME NoOneAssumption == NoOne \notin Proc
ASSUME OpenAssumption  == Open \subseteq {"clear", "write"}
ASSUME BoundAssumption == MaxDepth \in Nat /\ MaxCrashes \in Nat
ASSUME SwitchAssumption ==
  /\ UnlinkOpen \in BOOLEAN /\ Breaks \in BOOLEAN /\ MidRunSession \in BOOLEAN
  /\ Reused \subseteq Proc

VARIABLES
  owner,    \* the pid in the lock file; NoOne when there is no file
  torn,     \* the file exists but its content is not written yet (or never was)
  alive,    \* the processes that exist
  pc,       \* the next file operation of each process
  call,     \* the function on whose behalf it reads the lock
  seen,     \* the owner it read; NoOne when absent or unparseable
  mine,     \* held_run_lock's mine_already, between its two reads
  blocks,   \* per process, mine_already of each held_run_lock block it is in
  session,  \* the processes whose GUI session claimed the rig
  claims,   \* the processes that were told they own the rig and have not given it back
  crashes   \* how many processes died

file == <<owner, torn>>
vars == <<owner, torn, alive, pc, call, seen, mine, blocks, session, claims, crashes>>

Places == {"idle", "exists", "read", "judge", "unlink", "create", "write",
           "truncate", "relexists", "relread", "relunlink"}
Calls  == {"none", "before", "acquire", "session", "lost", "retitle",
           "giveback", "query", "breaking", "force", "leave"}

\* The variables keep their types, and a process is inside a call of run_lock.py
\* exactly while it has a next file operation: no path of a function forgets to end.
TypeOK ==
  /\ owner \in Proc \cup {NoOne}
  /\ torn \in BOOLEAN
  /\ alive \in SUBSET Proc
  /\ pc \in [Proc -> Places]
  /\ call \in [Proc -> Calls]
  /\ seen \in [Proc -> Proc \cup {NoOne}]
  /\ mine \in [Proc -> BOOLEAN]
  /\ blocks \in [Proc -> Seq(BOOLEAN)]
  /\ session \in SUBSET Proc
  /\ claims \in SUBSET Proc
  /\ crashes \in Nat
  /\ \A p \in Proc : pc[p] = "idle" <=> call[p] = "none"

Init ==
  /\ owner = NoOne /\ torn = FALSE
  /\ alive = Proc
  /\ pc = [p \in Proc |-> "idle"]
  /\ call = [p \in Proc |-> "none"]
  /\ seen = [p \in Proc |-> NoOne]
  /\ mine = [p \in Proc |-> FALSE]
  /\ blocks = [p \in Proc |-> <<>>]
  /\ session = {} /\ claims = {}
  /\ crashes = 0

--------------------------------------------------------------------------------
(* Windows.  Between reading a lock and unlinking it, and between creating *)
(* (or truncating) the file and writing it, the code relies on nobody else *)
(* touching the file.  Open names the windows in which somebody may.       *)

Window(p) == IF pc[p] \in {"judge", "unlink"} THEN "clear"
             ELSE IF pc[p] = "write" THEN "write" ELSE "none"

\* p's file operations wait while another process is in a window that is not open.
Turn(p) == \A q \in alive \ {p} : Window(q) \in Open \cup {"none"}

Goto(p, place) == pc' = [pc EXCEPT ![p] = place]

Begin(p, place, fn) ==
  /\ Goto(p, place)
  /\ call' = [call EXCEPT ![p] = fn]

\* p's call ends; its local variables go out of scope.
Finish(p) ==
  /\ Begin(p, "idle", "none")
  /\ seen' = [seen EXCEPT ![p] = NoOne]

\* Mutant: the pid is looked up on the reader's machine whatever the lock's host.
SeesAliveLocally(p, o) == Host[p] = Host[o] /\ o \in alive

\* is_alive: a foreign host's pid cannot be checked, so it reads as alive.
SeesAlive(p, o) == Host[p] # Host[o] \/ o \in alive

--------------------------------------------------------------------------------
(* What each function does with the lock read_run_lock returned (r).       *)

Idle(p) == p \in alive /\ pc[p] = "idle"

Raise(p) ==                       \* RunLockHeld
  /\ Finish(p)
  /\ UNCHANGED <<mine, blocks, session, claims>>

Grant(p) ==                       \* acquire_run_lock returns
  /\ claims' = claims \cup {p}
  /\ IF call[p] = "session"
     THEN session' = session \cup {p} /\ UNCHANGED blocks
     ELSE blocks' = [blocks EXCEPT ![p] = Append(@, mine[p])] /\ UNCHANGED session
  /\ Finish(p)
  /\ UNCHANGED mine

\* held_run_lock reads once to learn whether the claim is its process's already,
\* then acquires.
AfterBefore(p, r) ==
  /\ call[p] = "before"
  /\ mine' = [mine EXCEPT ![p] = (r = p)]
  /\ Begin(p, "exists", "acquire")
  /\ seen' = [seen EXCEPT ![p] = NoOne]
  /\ UNCHANGED <<blocks, session, claims>>

AfterAcquire(p, r) ==
  /\ call[p] \in {"acquire", "session"}
  /\ \/ /\ r = NoOne
        /\ Goto(p, "create")
        /\ UNCHANGED <<call, seen, mine, blocks, session, claims>>
     \/ r = p /\ Grant(p)                       \* re-entrant
     \/ r \notin {p, NoOne} /\ Raise(p)

AfterLostRace(p) == call[p] = "lost" /\ Raise(p)

\* Retitling, giving back and breaking go on only on the answer they need.
AfterLook(p, r) ==
  /\ \/ call[p] = "query" /\ Finish(p)
     \/ call[p] = "retitle" /\ IF r = p THEN Goto(p, "truncate") /\ UNCHANGED <<call, seen>>
                               ELSE Finish(p)
     \/ call[p] = "giveback" /\ IF r = p THEN Goto(p, "relexists") /\ UNCHANGED <<call, seen>>
                                ELSE Finish(p)
     \/ call[p] = "breaking" /\ IF r = NoOne THEN Finish(p)
                                ELSE Begin(p, "relexists", "force") /\ UNCHANGED seen
  /\ UNCHANGED <<mine, blocks, session, claims>>

Returns(p, r) == AfterBefore(p, r) \/ AfterAcquire(p, r) \/ AfterLostRace(p) \/ AfterLook(p, r)

--------------------------------------------------------------------------------
(* read_run_lock: the live lock or nothing, clearing an unparseable or     *)
(* stale file on the way.                                                  *)

Exists(p) ==
  /\ pc[p] = "exists" /\ Turn(p)
  /\ IF owner = NoOne
     THEN Returns(p, NoOne)
     ELSE Goto(p, "read") /\ UNCHANGED <<call, seen, mine, blocks, session, claims>>
  /\ UNCHANGED <<owner, torn, alive, crashes>>

\* An absent or empty file does not parse: the code goes on to unlink it.
ReadText(p) ==
  /\ pc[p] = "read" /\ Turn(p)
  /\ IF owner = NoOne \/ torn
     THEN Goto(p, "unlink") /\ UNCHANGED seen
     ELSE Goto(p, "judge") /\ seen' = [seen EXCEPT ![p] = owner]
  /\ UNCHANGED <<owner, torn, alive, call, mine, blocks, session, claims, crashes>>

\* Mutant: a dead owner's lock is handed to the caller like a live one.
JudgeTrusting(p) ==
  /\ pc[p] = "judge"
  /\ Returns(p, seen[p])
  /\ UNCHANGED <<owner, torn, alive, crashes>>

Judge(p) ==
  /\ pc[p] = "judge"
  /\ IF SeesAlive(p, seen[p])
     THEN Returns(p, seen[p])
     ELSE Goto(p, "unlink") /\ UNCHANGED <<call, seen, mine, blocks, session, claims>>
  /\ UNCHANGED <<owner, torn, alive, crashes>>

\* On NT a file somebody has open cannot be unlinked; the OSError is swallowed.
Unlinkable == UnlinkOpen \/ ~(torn /\ \E q \in alive : pc[q] = "write" /\ owner = q)

RemoveFile == IF Unlinkable THEN owner' = NoOne /\ torn' = FALSE ELSE UNCHANGED file

Unlink(p) ==
  /\ pc[p] = "unlink" /\ Turn(p)
  /\ RemoveFile
  /\ Returns(p, NoOne)
  /\ UNCHANGED <<alive, crashes>>

--------------------------------------------------------------------------------
(* acquire_run_lock's exclusive create, and the writes that follow it and  *)
(* the truncation of retitle_run_lock.  A write to a file that was         *)
(* unlinked meanwhile reaches nobody.                                      *)

\* Mutant: open(path, "w") in place of open(path, "x").
CreateShared(p) ==
  /\ pc[p] = "create" /\ Turn(p)
  /\ owner' = p /\ torn' = TRUE /\ Goto(p, "write")
  /\ UNCHANGED <<alive, call, seen, mine, blocks, session, claims, crashes>>

Create(p) ==
  /\ pc[p] = "create" /\ Turn(p)
  /\ IF owner = NoOne
     THEN owner' = p /\ torn' = TRUE /\ Goto(p, "write") /\ UNCHANGED call
     ELSE Begin(p, "exists", "lost") /\ UNCHANGED file
  /\ UNCHANGED <<alive, seen, mine, blocks, session, claims, crashes>>

Truncate(p) ==
  /\ pc[p] = "truncate" /\ Turn(p)
  /\ owner' = p /\ torn' = TRUE
  /\ Goto(p, "write")
  /\ UNCHANGED <<alive, call, seen, mine, blocks, session, claims, crashes>>

Write(p) ==
  /\ pc[p] = "write"
  /\ torn' = (torn /\ owner # p)
  /\ IF call[p] = "retitle"
     THEN Finish(p) /\ UNCHANGED <<mine, blocks, session, claims>>
     ELSE Grant(p)
  /\ UNCHANGED <<owner, alive, crashes>>

--------------------------------------------------------------------------------
(* release_run_lock.  An unparseable lock has pid 0 and is not refused.    *)

\* However release_run_lock ends, a process that was giving its claim back is done.
Released(p) ==
  /\ claims' = IF call[p] = "force" THEN claims ELSE claims \ {p}
  /\ Finish(p)
  /\ UNCHANGED <<alive, mine, blocks, session, crashes>>

RelExists(p) ==
  /\ pc[p] = "relexists" /\ Turn(p)
  /\ IF owner = NoOne
     THEN Released(p)
     ELSE /\ Goto(p, "relread")
          /\ UNCHANGED <<alive, call, seen, mine, blocks, session, claims, crashes>>
  /\ UNCHANGED file

RelRead(p) ==
  /\ pc[p] = "relread" /\ Turn(p)
  /\ IF call[p] # "force" /\ owner \notin {p, NoOne} /\ ~torn
     THEN Released(p)
     ELSE /\ Goto(p, "relunlink")
          /\ UNCHANGED <<alive, call, seen, mine, blocks, session, claims, crashes>>
  /\ UNCHANGED file

RelUnlink(p) ==
  /\ pc[p] = "relunlink" /\ Turn(p)
  /\ RemoveFile
  /\ Released(p)

--------------------------------------------------------------------------------
(* The callers.                                                            *)

\* with held_run_lock(...), and WorkflowExecutor.run's own copy of it.
Enter(p) ==
  /\ Idle(p) /\ Len(blocks[p]) < MaxDepth
  /\ Begin(p, "exists", "before")
  /\ UNCHANGED <<owner, torn, alive, seen, mine, blocks, session, claims, crashes>>

\* Mutant: every block releases, its own claim or not.
LeaveReleasing(p) ==
  /\ Idle(p) /\ blocks[p] # <<>>
  /\ blocks' = [blocks EXCEPT ![p] = SubSeq(@, 1, Len(@) - 1)]
  /\ Begin(p, "relexists", "leave")
  /\ UNCHANGED <<owner, torn, alive, seen, mine, session, claims, crashes>>

\* The block ends.  It releases only what it created.
Leave(p) ==
  /\ Idle(p) /\ blocks[p] # <<>>
  /\ blocks' = [blocks EXCEPT ![p] = SubSeq(@, 1, Len(@) - 1)]
  /\ IF blocks[p][Len(blocks[p])]
     THEN UNCHANGED <<pc, call>>
     ELSE Begin(p, "relexists", "leave")
  /\ UNCHANGED <<owner, torn, alive, seen, mine, session, claims, crashes>>

\* claim_rig_session (Connect All) and release_rig_session (Disconnect All).
SessionClaim(p) ==
  /\ Idle(p) /\ p \notin session
  /\ blocks[p] = <<>> \/ MidRunSession
  /\ Begin(p, "exists", "session")
  /\ UNCHANGED <<owner, torn, alive, seen, mine, blocks, session, claims, crashes>>

GiveBack(p) ==
  /\ Idle(p) /\ p \in session
  /\ blocks[p] = <<>> \/ MidRunSession
  /\ session' = session \ {p}
  /\ Begin(p, "exists", "giveback")
  /\ UNCHANGED <<owner, torn, alive, seen, mine, blocks, claims, crashes>>

\* foreign_run_lock and the GUI's polls: a question that repairs the answer.
Query(p) ==
  /\ Idle(p)
  /\ Begin(p, "exists", "query")
  /\ UNCHANGED <<owner, torn, alive, seen, mine, blocks, session, claims, crashes>>

\* run_autonomous_campaign names the claim it was started under.
Retitle(p) ==
  /\ Idle(p) /\ blocks[p] # <<>>
  /\ Begin(p, "exists", "retitle")
  /\ UNCHANGED <<owner, torn, alive, seen, mine, blocks, session, claims, crashes>>

\* "Take the rig?": offered for another process's lock only.
Break(p) ==
  /\ Breaks /\ Idle(p) /\ owner # p
  /\ Begin(p, "exists", "breaking")
  /\ UNCHANGED <<owner, torn, alive, seen, mine, blocks, session, claims, crashes>>

--------------------------------------------------------------------------------
(* Processes end and pids are given out again.  The file stays.            *)

Die(p) ==
  /\ alive' = alive \ {p}
  /\ crashes' = crashes + 1
  /\ Finish(p)
  /\ mine' = [mine EXCEPT ![p] = FALSE]
  /\ blocks' = [blocks EXCEPT ![p] = <<>>]
  /\ session' = session \ {p} /\ claims' = claims \ {p}
  /\ UNCHANGED file

Crash(p) == p \in alive /\ crashes < MaxCrashes /\ Die(p)

Start(p) ==
  /\ p \in Reused \ alive
  /\ alive' = alive \cup {p}
  /\ UNCHANGED <<owner, torn, pc, call, seen, mine, blocks, session, claims, crashes>>

--------------------------------------------------------------------------------

\* A process that is inside a call takes its next file operation.
Continue(p) ==
  \/ Exists(p) \/ ReadText(p) \/ Judge(p) \/ Unlink(p)
  \/ Create(p) \/ Truncate(p) \/ Write(p)
  \/ RelExists(p) \/ RelRead(p) \/ RelUnlink(p)

Next == \E p \in Proc :
  \/ Continue(p)
  \/ Enter(p) \/ Leave(p) \/ SessionClaim(p) \/ GiveBack(p)
  \/ Query(p) \/ Retitle(p) \/ Break(p)
  \/ Crash(p) \/ Start(p)

Spec == Init /\ [][Next]_vars

\* Processes do not stop inside a call, blocks end, and whoever is refused the
\* rig keeps asking for it.
Fairness == \A p \in Proc :
  /\ WF_vars(Continue(p))
  /\ SF_vars(Leave(p)) /\ SF_vars(GiveBack(p)) /\ SF_vars(Enter(p))

FairSpec == Spec /\ Fairness

--------------------------------------------------------------------------------
(* Properties.                                                             *)

\* Two processes never both believe they own the rig (run_lock.py:217).
OneOwner == \A p, q \in claims : p = q

\* A claim is on disk for as long as it is held, so every other process that
\* reads the file is refused: no read, retitle or nested block loses it.
ClaimOnDisk == \A p \in claims : owner = p

\* Whatever a process runs inside held_run_lock or a GUI session runs under its
\* process's claim: a nested block that ends does not hand the rig away mid-run.
BlocksCovered == \A p \in alive : (blocks[p] # <<>> \/ p \in session) => p \in claims

\* Who drives the rig, as the processes themselves were told.
Holder == IF claims = {} THEN NoOne ELSE CHOOSE p \in claims : TRUE

\* The rig lock keeps the promise of RigOwner: the rig passes from one process to
\* another only through a moment in which nobody claims it.
Rig == INSTANCE RigOwner WITH owner <- Holder
Implements == Rig!Spec

\* No live process is named in the file without a claim or a write in hand: what a release,
\* a refusal or a lost race leaves behind would read as alive, and keep the rig, for as long
\* as that process lives (release_run_lock, acquire_run_lock).
NoGhost == owner \in alive \ Reused => owner \in claims \/ pc[owner] = "write"

\* A crashed or finished run cannot leave the rig unusable: as long as somebody
\* alive keeps asking, somebody gets it.
NeverWedged == []<>(owner \in claims \/ alive = {})
================================================================================
