----------------------------- MODULE RunLockProofs -----------------------------
(***************************************************************************)
(* Theorems about RunLock.  TypeOK holds as it is.  That two processes     *)
(* never both own the rig holds when nobody steps into the unprotected     *)
(* windows, nobody breaks another's lock, and Connect/Disconnect All stay  *)
(* out of runs (Guarded); it needs the strengthening IInv, which says what *)
(* a process may rely on at each place of its call.                        *)
(***************************************************************************)
EXTENDS RunLock, SequenceTheorems, TLAPS

\* The circumstances in which the lock keeps its promise.
Guarded == Open = {} /\ ~Breaks /\ ~MidRunSession

Releasing == {"relexists", "relread", "relunlink"}

\* A process that does not exist holds nothing.
DeadHoldNothing ==
  \A p \in Proc \ alive :
    pc[p] = "idle" /\ p \notin claims /\ p \notin session /\ blocks[p] = <<>>

\* At most one process is between its check of the file and its act on it.
OneInWindow ==
  \A p, q \in Proc : Window(p) # "none" /\ Window(q) # "none" => p = q

\* A claim is on disk, and its text too unless its owner is rewriting it.
ClaimWritten == \A p \in claims : owner = p /\ (torn => pc[p] = "write")

\* What each place of a call knows about the file.
FileKnown ==
  \A p \in Proc :
    /\ pc[p] = "judge"    => seen[p] = owner /\ owner # NoOne /\ ~torn
    /\ pc[p] = "unlink"   => owner \notin claims /\ \A q \in Proc : pc[q] = "truncate" => owner # q
    /\ pc[p] = "write"    => owner = p
    /\ pc[p] = "truncate" => owner = p /\ ~torn

\* Which call reaches which place, and what it has already given up.
CallsKnown ==
  \A p \in Proc :
    /\ call[p] \notin {"breaking", "force"}
    /\ pc[p] = "create"    => call[p] \in {"acquire", "session"}
    /\ pc[p] = "write"     => call[p] \in {"acquire", "session", "retitle"}
    /\ pc[p] = "truncate"  => call[p] = "retitle"
    /\ pc[p] \in Releasing => call[p] \in {"leave", "giveback"}
    /\ call[p] = "leave"   => pc[p] \in Releasing
    /\ call[p] = "session" => blocks[p] = <<>>
    /\ call[p] \in {"leave", "giveback"} =>
         p \in claims /\ blocks[p] = <<>> /\ p \notin session
    /\ call[p] = "acquire" /\ p \in claims => mine[p]

\* Only the outermost claim of a process is its own to release.
OuterOwns ==
  \A p \in Proc :
    /\ \A i \in 2..Len(blocks[p]) : blocks[p][i]
    /\ p \in session => \A i \in 1..Len(blocks[p]) : blocks[p][i]

Covered == \A p \in Proc : (blocks[p] # <<>> \/ p \in session) => p \in claims

IInv ==
  /\ TypeOK /\ DeadHoldNothing /\ OneInWindow /\ ClaimWritten
  /\ FileKnown /\ CallsKnown /\ OuterOwns /\ Covered

--------------------------------------------------------------------------------
(* Type correctness.                                                       *)

\* A stack of booleans with its top removed.
LEMMA Popped ==
  ASSUME NEW s \in Seq(BOOLEAN), s # <<>>
  PROVE  LET t == SubSeq(s, 1, Len(s) - 1)
         IN  /\ t \in Seq(BOOLEAN) /\ Len(t) = Len(s) - 1
             /\ \A i \in 1..Len(t) : t[i] = s[i]
<1>1. Len(s) \in Nat /\ Len(s) # 0 /\ \A i \in 1..Len(s) - 1 : s[i] \in BOOLEAN
  BY EmptySeq
<1> DEFINE n == Len(s) - 1
           t == SubSeq(s, 1, n)
<1>2. n \in Nat
  BY <1>1
<1> HIDE DEF n
<1>3. /\ t \in Seq(BOOLEAN)
      /\ Len(t) = IF 1 <= n THEN n - 1 + 1 ELSE 0
      /\ \A i \in 1..n - 1 + 1 : t[i] = s[1 + i - 1]
  BY <1>1, <1>2, SubSeqProperties DEF n
<1>4. Len(t) = n /\ \A i \in 1..n : t[i] = s[i]
  BY <1>2, <1>3
<1> QED BY <1>3, <1>4 DEF n

\* A granted claim keeps the types.
LEMMA GrantType ==
  ASSUME TypeOK, NEW p \in Proc, Grant(p)
  PROVE  /\ pc' \in [Proc -> Places] /\ call' \in [Proc -> Calls]
         /\ seen' \in [Proc -> Proc \cup {NoOne}]
         /\ mine' \in [Proc -> BOOLEAN]
         /\ blocks' \in [Proc -> Seq(BOOLEAN)]
         /\ session' \in SUBSET Proc /\ claims' \in SUBSET Proc
         /\ \A q \in Proc : pc'[q] = "idle" <=> call'[q] = "none"
<1>1. blocks[p] \in Seq(BOOLEAN) /\ mine[p] \in BOOLEAN
  BY DEF TypeOK
<1>2. Append(blocks[p], mine[p]) \in Seq(BOOLEAN)
  BY <1>1, AppendProperties, Zenon
<1>3. [blocks EXCEPT ![p] = Append(@, mine[p])] \in [Proc -> Seq(BOOLEAN)]
  BY <1>2 DEF TypeOK
<1>4. blocks' \in [Proc -> Seq(BOOLEAN)]
  BY <1>3 DEF Grant, TypeOK
<1> QED BY <1>4 DEF TypeOK, Grant, Finish, Begin, Goto, Places, Calls

\* Whatever a caller does with the lock it read keeps the types, and only the
\* variables it owns change.
LEMMA ReturnsType ==
  ASSUME TypeOK, NEW p \in Proc, NEW r \in Proc \cup {NoOne}, Returns(p, r)
  PROVE  /\ pc' \in [Proc -> Places] /\ call' \in [Proc -> Calls]
         /\ seen' \in [Proc -> Proc \cup {NoOne}]
         /\ mine' \in [Proc -> BOOLEAN]
         /\ blocks' \in [Proc -> Seq(BOOLEAN)]
         /\ session' \in SUBSET Proc /\ claims' \in SUBSET Proc
         /\ \A q \in Proc : pc'[q] = "idle" <=> call'[q] = "none"
<1>1. CASE AfterBefore(p, r)
  BY <1>1 DEF TypeOK, AfterBefore, Begin, Goto, Places, Calls
<1>2. CASE AfterAcquire(p, r)
  <2>1. CASE r = NoOne /\ Goto(p, "create")
                       /\ UNCHANGED <<call, seen, mine, blocks, session, claims>>
    BY <1>2, <2>1 DEF TypeOK, AfterAcquire, Goto, Places, Calls
  <2>2. CASE Grant(p)
    BY <2>2, GrantType
  <2>3. CASE Raise(p)
    BY <1>2, <2>3 DEF TypeOK, AfterAcquire, Raise, Finish, Begin, Goto, Places, Calls
  <2> QED BY <1>2, <2>1, <2>2, <2>3 DEF AfterAcquire
<1>3. CASE AfterLostRace(p)
  BY <1>3 DEF TypeOK, AfterLostRace, Raise, Finish, Begin, Goto, Places, Calls
<1>4. CASE AfterLook(p, r)
  BY <1>4 DEF TypeOK, AfterLook, Finish, Begin, Goto, Places, Calls
<1> QED BY <1>1, <1>2, <1>3, <1>4 DEF Returns

\* The program starts in the types.
LEMMA TypeInit == Init => TypeOK
<1> SUFFICES ASSUME Init PROVE TypeOK
  OBVIOUS
<1>1. blocks \in [Proc -> Seq(BOOLEAN)]
  BY EmptySeq DEF Init
<1> QED BY <1>1 DEF Init, TypeOK, Places, Calls

\* Every file operation, call and crash keeps them.
LEMMA TypeStep == TypeOK /\ [Next]_vars => TypeOK'
<1> SUFFICES ASSUME TypeOK, [Next]_vars PROVE TypeOK'
  OBVIOUS
<1>1. CASE UNCHANGED vars
  BY <1>1 DEF TypeOK, vars
<1>2. ASSUME NEW p \in Proc, Continue(p) PROVE TypeOK'
  <2>1. CASE Exists(p)
    BY <2>1, ReturnsType DEF TypeOK, Exists, Goto, Places
  <2>2. CASE ReadText(p)
    BY <2>2 DEF TypeOK, ReadText, Goto, Places
  <2>3. CASE Judge(p)
    BY <2>3, ReturnsType DEF TypeOK, Judge, Goto, Places
  <2>4. CASE Unlink(p)
    BY <2>4, ReturnsType DEF TypeOK, Unlink, RemoveFile, file
  <2>5. CASE Create(p)
    BY <2>5 DEF TypeOK, Create, Begin, Goto, Places, Calls, file
  <2>6. CASE Truncate(p)
    BY <2>6 DEF TypeOK, Truncate, Goto, Places
  <2>7. CASE Write(p)
    <3>1. torn' \in BOOLEAN
      BY <2>7 DEF Write
    <3>2. CASE call[p] = "retitle"
      BY <2>7, <3>1, <3>2 DEF TypeOK, Write, Finish, Begin, Goto, Places, Calls
    <3>3. CASE call[p] # "retitle"
      BY <2>7, <3>1, <3>3, GrantType DEF TypeOK, Write
    <3> QED BY <3>2, <3>3
  <2>8. CASE RelExists(p)
    BY <2>8 DEF TypeOK, RelExists, Released, Finish, Begin, Goto, Places, Calls, file
  <2>9. CASE RelRead(p)
    BY <2>9 DEF TypeOK, RelRead, Released, Finish, Begin, Goto, Places, Calls, file
  <2>10. CASE RelUnlink(p)
    BY <2>10 DEF TypeOK, RelUnlink, RemoveFile, Released, Finish, Begin, Goto, Places,
                 Calls, file
  <2> QED BY <1>2, <2>1, <2>2, <2>3, <2>4, <2>5, <2>6, <2>7, <2>8, <2>9, <2>10 DEF Continue
<1>3. ASSUME NEW p \in Proc, Enter(p) PROVE TypeOK'
  BY <1>3 DEF TypeOK, Enter, Idle, Begin, Goto, Places, Calls
<1>4. ASSUME NEW p \in Proc, Leave(p) PROVE TypeOK'
  <2>1. SubSeq(blocks[p], 1, Len(blocks[p]) - 1) \in Seq(BOOLEAN)
    BY <1>4, Popped DEF Leave, TypeOK
  <2> QED BY <1>4, <2>1 DEF TypeOK, Leave, Idle, Begin, Goto, Places, Calls
<1>5. ASSUME NEW p \in Proc, SessionClaim(p) \/ GiveBack(p) PROVE TypeOK'
  BY <1>5 DEF TypeOK, SessionClaim, GiveBack, Idle, Begin, Goto, Places, Calls
<1>6. ASSUME NEW p \in Proc, Query(p) \/ Retitle(p) \/ Break(p) PROVE TypeOK'
  BY <1>6 DEF TypeOK, Query, Retitle, Break, Idle, Begin, Goto, Places, Calls
<1>7. ASSUME NEW p \in Proc, Crash(p) PROVE TypeOK'
  BY <1>7 DEF TypeOK, Crash, Die, Finish, Begin, Goto, Places, Calls, file
<1>8. ASSUME NEW p \in Proc, Start(p) PROVE TypeOK'
  BY <1>8, SwitchAssumption DEF TypeOK, Start
<1> QED BY <1>1, <1>2, <1>3, <1>4, <1>5, <1>6, <1>7, <1>8 DEF Next

\* The state of the lock protocol keeps its types, and a process is inside a call
\* exactly while it has a next file operation.
THEOREM TypeCorrect == Spec => []TypeOK
BY TypeInit, TypeStep, PTL DEF Spec

--------------------------------------------------------------------------------
(* The operations keep IInv, each by itself.                               *)

\* With the windows closed, whoever takes a turn knows that nobody else is in one.
LEMMA TurnIsExclusive ==
  ASSUME Guarded, IInv, NEW p \in Proc, Turn(p)
  PROVE  \A q \in Proc \ {p} : Window(q) = "none"
BY DEF Guarded, IInv, DeadHoldNothing, Turn, Window

\* Entering held_run_lock has only begun a read.
LEMMA EnterStep ==
  ASSUME Guarded, IInv, TypeOK', NEW p \in Proc, Enter(p)
  PROVE  IInv'
BY DEF IInv, DeadHoldNothing, OneInWindow, ClaimWritten, FileKnown, CallsKnown, OuterOwns,
       Covered, Window, Releasing, Enter, Idle, Begin, Goto

\* A block that ends takes its own mine_already from the stack: the outermost one, which
\* alone releases, leaves nothing behind that relies on the claim.
LEMMA LeaveStep ==
  ASSUME Guarded, IInv, TypeOK', NEW p \in Proc, Leave(p)
  PROVE  IInv'
<1>1. DeadHoldNothing'
  BY DEF IInv, TypeOK, DeadHoldNothing, Leave, Idle, Begin, Goto
<1>2. OneInWindow'
  BY DEF IInv, TypeOK, OneInWindow, Window, Leave, Idle, Begin, Goto
<1>3. ClaimWritten'
  BY DEF IInv, TypeOK, ClaimWritten, Leave, Idle, Begin, Goto
<1>4. FileKnown'
  BY DEF IInv, TypeOK, FileKnown, Leave, Idle, Begin, Goto
<1>5. CallsKnown'
  BY DEF IInv, TypeOK, CallsKnown, OuterOwns, Covered, Releasing, Leave, Idle, Begin, Goto
<1>6. OuterOwns'
  BY DEF IInv, OuterOwns, Leave, Idle, Begin, Goto
<1>7. Covered'
  BY DEF IInv, Covered, Leave, Idle, Begin, Goto
<1> QED BY <1>1, <1>2, <1>3, <1>4, <1>5, <1>6, <1>7 DEF IInv

\* Connect All is pressed outside a run.
LEMMA SessionClaimStep ==
  ASSUME Guarded, IInv, TypeOK', NEW p \in Proc, SessionClaim(p)
  PROVE  IInv'
BY DEF Guarded, IInv, DeadHoldNothing, OneInWindow, ClaimWritten, FileKnown, CallsKnown,
       OuterOwns, Covered, Window, Releasing, SessionClaim, Idle, Begin, Goto

\* Disconnect All is pressed outside a run, so no block relies on the claim.
LEMMA GiveBackStep ==
  ASSUME Guarded, IInv, TypeOK', NEW p \in Proc, GiveBack(p)
  PROVE  IInv'
BY DEF Guarded, IInv, TypeOK, DeadHoldNothing, OneInWindow, ClaimWritten, FileKnown,
       CallsKnown, OuterOwns, Covered, Window, GiveBack, Idle, Begin, Goto

\* A poll has only begun a read.
LEMMA QueryStep ==
  ASSUME Guarded, IInv, TypeOK', NEW p \in Proc, Query(p)
  PROVE  IInv'
BY DEF IInv, DeadHoldNothing, OneInWindow, ClaimWritten, FileKnown, CallsKnown, OuterOwns,
       Covered, Window, Releasing, Query, Idle, Begin, Goto

\* A retitle has only begun a read.
LEMMA RetitleStep ==
  ASSUME Guarded, IInv, TypeOK', NEW p \in Proc, Retitle(p)
  PROVE  IInv'
BY DEF IInv, DeadHoldNothing, OneInWindow, ClaimWritten, FileKnown, CallsKnown, OuterOwns,
       Covered, Window, Releasing, Retitle, Idle, Begin, Goto

\* A crash takes the claim and the blocks with it and leaves the file.
LEMMA CrashStep ==
  ASSUME Guarded, IInv, TypeOK', NEW p \in Proc, Crash(p)
  PROVE  IInv'
BY DEF IInv, TypeOK, DeadHoldNothing, OneInWindow, ClaimWritten, FileKnown, CallsKnown,
       OuterOwns, Covered, Window, Releasing, Crash, Die, Finish, Begin, Goto, file

\* A process that gets a used pid holds nothing, whatever the file says.
LEMMA StartStep ==
  ASSUME Guarded, IInv, TypeOK', NEW p \in Proc, Start(p)
  PROVE  IInv'
BY DEF IInv, DeadHoldNothing, OneInWindow, ClaimWritten, FileKnown, CallsKnown, OuterOwns,
       Covered, Window, Start

\* What does not parse is no claim: a claimant that rewrites its file is in a window.
LEMMA ReadTextStep ==
  ASSUME Guarded, IInv, TypeOK', NEW p \in Proc, ReadText(p)
  PROVE  IInv'
BY NoOneAssumption, TurnIsExclusive
   DEF IInv, TypeOK, DeadHoldNothing, OneInWindow, ClaimWritten, FileKnown, CallsKnown,
       OuterOwns, Covered, Window, Releasing, ReadText, Goto

\* The exclusive create succeeds when there is no file, so when nobody has a claim.
LEMMA CreateStep ==
  ASSUME Guarded, IInv, TypeOK', NEW p \in Proc, Create(p)
  PROVE  IInv'
<1>1. DeadHoldNothing'
  BY DEF IInv, TypeOK, DeadHoldNothing, Create, Begin, Goto, file
<1>2. OneInWindow'
  BY TurnIsExclusive
     DEF TypeOK, OneInWindow, FileKnown, CallsKnown, Covered, Window, Create, Begin, Goto
<1>3. ClaimWritten'
  BY NoOneAssumption DEF IInv, TypeOK, ClaimWritten, Create, Begin, Goto, file
<1>4. FileKnown'
  BY NoOneAssumption, TurnIsExclusive
     DEF IInv, TypeOK, FileKnown, Window, Create, Begin, Goto, file
<1>5. CallsKnown'
  BY DEF IInv, TypeOK, CallsKnown, Releasing, Create, Begin, Goto, file
<1>6. OuterOwns'
  BY DEF IInv, OuterOwns, Create, Begin, Goto, file
<1>7. Covered'
  BY DEF IInv, Covered, Create, Begin, Goto, file
<1> QED BY <1>1, <1>2, <1>3, <1>4, <1>5, <1>6, <1>7 DEF IInv

\* A retitle truncates the file of the process that retitles.
LEMMA TruncateStep ==
  ASSUME Guarded, IInv, TypeOK', NEW p \in Proc, Truncate(p)
  PROVE  IInv'
BY TurnIsExclusive
   DEF IInv, TypeOK, DeadHoldNothing, OneInWindow, ClaimWritten, FileKnown, CallsKnown,
       OuterOwns, Covered, Window, Releasing, Truncate, Goto

\* A release that finds a file goes on, and one that finds none has nothing to lose.
LEMMA RelExistsStep ==
  ASSUME Guarded, IInv, TypeOK', NEW p \in Proc, RelExists(p)
  PROVE  IInv'
<1>1. DeadHoldNothing'
  BY DEF IInv, TypeOK, DeadHoldNothing, RelExists, Released, Finish, Begin, Goto, file
<1>2. OneInWindow'
  BY NoOneAssumption
     DEF IInv, TypeOK, OneInWindow, FileKnown, Covered, Window, Guarded, RelExists,
         Released, Finish, Begin, Goto
<1>3. ClaimWritten'
  BY DEF IInv, TypeOK, ClaimWritten, RelExists, Released, Finish, Begin, Goto, file
<1>4. FileKnown'
  BY DEF IInv, TypeOK, FileKnown, RelExists, Released, Finish, Begin, Goto, file
<1>5. CallsKnown'
  BY DEF IInv, TypeOK, CallsKnown, Releasing, RelExists, Released, Finish, Begin, Goto, file
<1>6. OuterOwns'
  BY DEF IInv, OuterOwns, RelExists, Released, Finish, Begin, Goto, file
<1>7. Covered'
  BY DEF IInv, CallsKnown, Covered, Releasing, RelExists, Released, Finish, Begin, Goto,
         file
<1> QED BY <1>1, <1>2, <1>3, <1>4, <1>5, <1>6, <1>7 DEF IInv

\* A release never finds another owner: until it ends the claim is its own.
LEMMA RelReadStep ==
  ASSUME Guarded, IInv, TypeOK', NEW p \in Proc, RelRead(p)
  PROVE  IInv'
BY NoOneAssumption
   DEF IInv, TypeOK, DeadHoldNothing, OneInWindow, ClaimWritten, FileKnown, CallsKnown,
       OuterOwns, Covered, Window, Releasing, RelRead, Released, Finish, Begin, Goto, file

\* A release removes its own claim and gives it up in the same step.
LEMMA RelUnlinkStep ==
  ASSUME Guarded, IInv, TypeOK', NEW p \in Proc, RelUnlink(p)
  PROVE  IInv'
BY TurnIsExclusive
   DEF IInv, TypeOK, DeadHoldNothing, OneInWindow, ClaimWritten, FileKnown, CallsKnown,
       OuterOwns, Covered, Window, Releasing, RelUnlink, Released, Finish, Begin, Goto

\* A granted block's mine_already is true whenever its process owned the rig before it.
LEMMA GrantStack ==
  ASSUME IInv, NEW p \in Proc, Grant(p), call[p] \in {"acquire", "session"}
  PROVE  OuterOwns'
<1>1. CASE call[p] = "session"
  BY <1>1 DEF IInv, ClaimWritten, FileKnown, CallsKnown, OuterOwns, Releasing, Grant
<1>2. CASE call[p] = "acquire"
  <2>1. /\ blocks[p] \in Seq(BOOLEAN) /\ mine[p] \in BOOLEAN
        /\ blocks' = [blocks EXCEPT ![p] = Append(blocks[p], mine[p])] /\ session' = session
    BY <1>2 DEF IInv, TypeOK, Grant
  <2>2. /\ Len(blocks[p]) \in Nat
        /\ Len(blocks'[p]) = Len(blocks[p]) + 1
        /\ \A i \in 1..Len(blocks[p]) : blocks'[p][i] = blocks[p][i]
        /\ blocks'[p][Len(blocks[p]) + 1] = mine[p]
    BY <2>1, AppendProperties DEF IInv, TypeOK
  <2>3. Len(blocks[p]) # 0 \/ p \in session => mine[p]
    <3>1. Len(blocks[p]) # 0 => blocks[p] # <<>>
      OBVIOUS
    <3> QED BY <1>2, <3>1 DEF IInv, Covered, CallsKnown
  <2>4. \A i \in 2..Len(blocks'[p]) : blocks'[p][i]
    BY <2>2, <2>3 DEF IInv, OuterOwns
  <2>5. p \in session' => \A i \in 1..Len(blocks'[p]) : blocks'[p][i]
    BY <2>1, <2>2, <2>3 DEF IInv, OuterOwns
  <2>6. \A q \in Proc \ {p} : blocks'[q] = blocks[q]
    BY <2>1
  <2> QED BY <2>1, <2>4, <2>5, <2>6 DEF IInv, OuterOwns
<1> QED BY <1>1, <1>2

\* acquire_run_lock returns to a process whose lock is on disk, and to no other.
LEMMA GrantStep ==
  ASSUME IInv, TypeOK', NEW p \in Proc, p \in alive, Grant(p),
         call[p] \in {"acquire", "session"},
         owner' = p, torn' = FALSE, alive' = alive,
         \A q \in claims : q = p,
         \A q \in Proc \ {p} : Window(q) = "none" /\ pc[q] # "truncate"
  PROVE  IInv'
<1>1. DeadHoldNothing'
  BY DEF IInv, TypeOK, DeadHoldNothing, Grant, Finish, Begin, Goto
<1>2. OneInWindow'
  BY DEF IInv, OneInWindow, Window, Grant, Finish, Begin, Goto
<1>3. ClaimWritten'
  BY DEF IInv, ClaimWritten, Grant, Finish, Begin, Goto
<1>4. FileKnown'
  BY DEF IInv, TypeOK, FileKnown, Window, Grant, Finish, Begin, Goto
<1>5. CallsKnown'
  BY DEF IInv, TypeOK, CallsKnown, Releasing, Grant, Finish, Begin, Goto
<1>6. OuterOwns'
  BY GrantStack
<1>7. Covered'
  BY DEF IInv, TypeOK, Covered, Grant, Finish, Begin, Goto
<1> QED BY <1>1, <1>2, <1>3, <1>4, <1>5, <1>6, <1>7 DEF IInv

\* A caller that is refused the rig leaves everything as it is.
LEMMA RaiseStep ==
  ASSUME IInv, TypeOK', NEW p \in Proc, p \in alive, Raise(p),
         pc[p] \in {"exists", "judge", "unlink"}, alive' = alive,
         \A q \in claims : owner' = q /\ (torn' => torn),
         \A q \in Proc : pc[q] = "truncate" => owner' = q /\ torn' = FALSE,
         \A q \in Proc \ {p} : Window(q) = "none"
  PROVE  IInv'
<1>1. DeadHoldNothing'
  BY DEF IInv, TypeOK, DeadHoldNothing, Raise, Finish, Begin, Goto
<1>2. OneInWindow'
  BY DEF IInv, TypeOK, OneInWindow, Window, Raise, Finish, Begin, Goto
<1>3. ClaimWritten'
  BY DEF IInv, TypeOK, ClaimWritten, Raise, Finish, Begin, Goto
<1>4. FileKnown'
  BY DEF IInv, TypeOK, FileKnown, Window, Raise, Finish, Begin, Goto
<1>5. CallsKnown'
  BY DEF IInv, TypeOK, CallsKnown, Releasing, Raise, Finish, Begin, Goto
<1>6. OuterOwns'
  BY DEF IInv, OuterOwns, Raise
<1>7. Covered'
  BY DEF IInv, Covered, Raise
<1> QED BY <1>1, <1>2, <1>3, <1>4, <1>5, <1>6, <1>7 DEF IInv

\* Whatever a caller does with the lock it read keeps IInv, as long as the answer is
\* true: r is on disk, and nobody else has a claim that the answer does not name.
LEMMA ReturnStep ==
  ASSUME IInv, TypeOK', NEW p \in Proc, p \in alive,
         pc[p] \in {"exists", "judge", "unlink"}, alive' = alive,
         NEW r \in Proc \cup {NoOne}, r # NoOne => owner' = r /\ torn' = FALSE,
         p \in claims => r = p,
         \A q \in claims : owner' = q /\ (torn' => torn),
         \A q \in Proc : pc[q] = "truncate" => owner' = q /\ torn' = FALSE,
         \A q \in Proc \ {p} : Window(q) = "none",
         Returns(p, r)
  PROVE  IInv'
<1>1. CASE AfterBefore(p, r)
  <2>1. DeadHoldNothing'
    BY <1>1 DEF IInv, DeadHoldNothing, AfterBefore, Begin, Goto
  <2>2. OneInWindow'
    BY <1>1 DEF OneInWindow, Window, AfterBefore, Begin, Goto
  <2>3. ClaimWritten'
    BY <1>1 DEF IInv, ClaimWritten, AfterBefore, Begin, Goto
  <2>4. FileKnown'
    BY <1>1 DEF TypeOK, FileKnown, Window, AfterBefore, Begin, Goto
  <2>5. CallsKnown'
    <3>1. p \in claims => mine'[p]
      BY <1>1, Zenon DEF AfterBefore, TypeOK
    <3>2. mine' \in [Proc -> BOOLEAN] /\ \A q \in Proc \ {p} : mine'[q] = mine[q]
      BY <1>1 DEF AfterBefore, TypeOK
    <3> QED BY <1>1, <3>1, <3>2 DEF IInv, CallsKnown, AfterBefore, Begin, Goto, Releasing
  <2>6. OuterOwns'
    BY <1>1 DEF IInv, OuterOwns, AfterBefore
  <2>7. Covered'
    BY <1>1 DEF IInv, Covered, AfterBefore
  <2> QED BY <2>1, <2>2, <2>3, <2>4, <2>5, <2>6, <2>7 DEF IInv
<1>2. CASE AfterAcquire(p, r)
  <2>1. CASE r = NoOne /\ Goto(p, "create")
                       /\ UNCHANGED <<call, seen, mine, blocks, session, claims>>
    <3>1. DeadHoldNothing'
      BY <1>2, <2>1 DEF IInv, DeadHoldNothing, AfterAcquire, Goto
    <3>2. OneInWindow'
      BY <1>2, <2>1 DEF OneInWindow, Window, AfterAcquire, Goto
    <3>3. ClaimWritten'
      BY <1>2, <2>1 DEF IInv, ClaimWritten, AfterAcquire, Goto
    <3>4. FileKnown'
      BY <1>2, <2>1 DEF TypeOK, FileKnown, Window, AfterAcquire, Goto
    <3>5. CallsKnown'
      BY <1>2, <2>1 DEF IInv, CallsKnown, Releasing, AfterAcquire, Goto
    <3>6. OuterOwns'
      BY <1>2, <2>1 DEF IInv, OuterOwns, AfterAcquire
    <3>7. Covered'
      BY <1>2, <2>1 DEF IInv, Covered, AfterAcquire
    <3> QED BY <3>1, <3>2, <3>3, <3>4, <3>5, <3>6, <3>7 DEF IInv
  <2>2. CASE r = p /\ Grant(p)
    <3>1. /\ call[p] \in {"acquire", "session"} /\ owner' = p /\ torn' = FALSE
          /\ \A q \in claims : q = p
          /\ \A q \in Proc \ {p} : pc[q] # "truncate"
      BY <1>2, <2>2, NoOneAssumption DEF AfterAcquire
    <3> QED BY <2>2, <3>1, GrantStep
  <2>3. CASE Raise(p)
    BY <2>3, RaiseStep
  <2> QED BY <1>2, <2>1, <2>2, <2>3 DEF AfterAcquire
<1>3. CASE AfterLostRace(p)
  BY <1>3, RaiseStep DEF AfterLostRace
<1>4. CASE AfterLook(p, r)
  <2>1. DeadHoldNothing'
    BY <1>4 DEF IInv, TypeOK, DeadHoldNothing, AfterLook, Finish, Begin
  <2>2. OneInWindow'
    BY <1>4
       DEF TypeOK, OneInWindow, ClaimWritten, FileKnown, OuterOwns, Window, AfterLook,
           Finish, Begin, Goto
  <2>3. ClaimWritten'
    BY <1>4 DEF IInv, TypeOK, ClaimWritten, AfterLook, Finish, Begin, Goto
  <2>4. FileKnown'
    BY <1>4, NoOneAssumption DEF TypeOK, FileKnown, Window, AfterLook, Finish, Begin, Goto
  <2>5. CallsKnown'
    BY <1>4 DEF IInv, TypeOK, CallsKnown, Releasing, AfterLook, Finish, Begin, Goto
  <2>6. OuterOwns'
    BY <1>4 DEF IInv, OuterOwns, AfterLook
  <2>7. Covered'
    BY <1>4 DEF IInv, Covered, AfterLook
  <2> QED BY <2>1, <2>2, <2>3, <2>4, <2>5, <2>6, <2>7 DEF IInv
<1> QED BY <1>1, <1>2, <1>3, <1>4 DEF Returns

\* No file, no claim: the answer "nothing" is true.
LEMMA ExistsStep ==
  ASSUME Guarded, IInv, TypeOK', NEW p \in Proc, Exists(p)
  PROVE  IInv'
<1>1. p \in alive /\ \A q \in Proc \ {p} : Window(q) = "none"
  BY TurnIsExclusive DEF IInv, DeadHoldNothing, Exists
<1>2. CASE owner = NoOne
  <2>1. claims = {} /\ \A q \in Proc : pc[q] # "truncate"
    BY <1>2, NoOneAssumption DEF IInv, TypeOK, ClaimWritten, FileKnown
  <2>2. Returns(p, NoOne) /\ owner' = owner /\ torn' = torn /\ alive' = alive
    BY <1>2 DEF Exists
  <2> QED BY <1>1, <2>1, <2>2, ReturnStep DEF Exists
<1>3. CASE owner # NoOne
  BY <1>1, <1>3
     DEF IInv, TypeOK, DeadHoldNothing, OneInWindow, ClaimWritten, FileKnown, CallsKnown,
         OuterOwns, Covered, Window, Releasing, Exists, Goto
<1> QED BY <1>2, <1>3

\* The lock that was read is still the lock on disk, alive or stale.
LEMMA JudgeStep ==
  ASSUME Guarded, IInv, TypeOK', NEW p \in Proc, Judge(p)
  PROVE  IInv'
<1>1. /\ p \in alive /\ seen[p] = owner /\ owner \in Proc /\ ~torn
      /\ \A q \in Proc \ {p} : Window(q) = "none"
  BY DEF IInv, TypeOK, DeadHoldNothing, OneInWindow, ClaimWritten, FileKnown, CallsKnown,
         OuterOwns, Covered, Window, Releasing, Judge
<1>2. CASE SeesAlive(p, seen[p])
  <2>1. Returns(p, owner) /\ owner' = owner /\ torn' = torn /\ alive' = alive
    BY <1>1, <1>2 DEF Judge
  <2>2. /\ \A q \in claims : owner = q
        /\ \A q \in Proc : pc[q] = "truncate" => owner = q
    BY DEF IInv, ClaimWritten, FileKnown
  <2>3. torn' = FALSE /\ pc[p] = "judge"
    BY <1>1, <2>1 DEF Judge
  <2> QED BY <1>1, <2>1, <2>2, <2>3, ReturnStep
<1>3. CASE ~SeesAlive(p, seen[p])
  <2>9. owner \notin alive
    BY <1>1, <1>3 DEF SeesAlive
  <2>1. DeadHoldNothing'
    BY <1>1, <1>3, <2>9 DEF IInv, TypeOK, DeadHoldNothing, Judge
  <2>2. OneInWindow'
    BY <1>1, <1>3, <2>9
       DEF IInv, TypeOK, DeadHoldNothing, OneInWindow, FileKnown, OuterOwns, Covered,
           Window, Judge, Goto
  <2>3. ClaimWritten'
    BY <1>1, <1>3, <2>9 DEF IInv, ClaimWritten, Judge
  <2>4. FileKnown'
    BY <1>1, <1>3, <2>9 DEF IInv, TypeOK, DeadHoldNothing, FileKnown, Judge, Goto
  <2>5. CallsKnown'
    BY <1>1, <1>3, <2>9 DEF IInv, TypeOK, CallsKnown, Releasing, Judge, Goto
  <2>6. OuterOwns'
    BY <1>1, <1>3, <2>9 DEF IInv, OuterOwns, Judge
  <2>7. Covered'
    BY <1>1, <1>3, <2>9 DEF IInv, Covered, Judge
  <2> QED BY <2>1, <2>2, <2>3, <2>4, <2>5, <2>6, <2>7 DEF IInv
<1> QED BY <1>2, <1>3

\* What is unlinked is nobody's claim, so there is none, and "nothing" is true.
LEMMA UnlinkStep ==
  ASSUME Guarded, IInv, TypeOK', NEW p \in Proc, Unlink(p)
  PROVE  IInv'
<1>1. /\ p \in alive /\ owner \notin claims /\ \A q \in Proc \ {p} : Window(q) = "none"
  BY TurnIsExclusive DEF IInv, DeadHoldNothing, FileKnown, Unlink
<1>2. claims = {} /\ \A q \in Proc : pc[q] # "truncate"
  BY <1>1 DEF IInv, ClaimWritten, FileKnown, Unlink
<1>3. Returns(p, NoOne) /\ alive' = alive /\ pc[p] = "unlink"
  BY DEF Unlink
<1> QED BY <1>1, <1>2, <1>3, ReturnStep

\* The write completes a claim that the exclusive create made, or a retitle.
LEMMA WriteStep ==
  ASSUME Guarded, IInv, TypeOK', NEW p \in Proc, Write(p)
  PROVE  IInv'
<1>1. /\ p \in alive /\ owner = p
      /\ torn' = FALSE /\ owner' = p /\ alive' = alive
      /\ \A q \in claims : q = p
      /\ \A q \in Proc \ {p} : Window(q) = "none" /\ pc[q] # "truncate"
  BY DEF IInv, TypeOK, DeadHoldNothing, OneInWindow, ClaimWritten, FileKnown, CallsKnown,
         OuterOwns, Covered, Window, Releasing, Write
<1>2. CASE call[p] = "retitle"
  <2>1. DeadHoldNothing'
    BY <1>1, <1>2 DEF IInv, TypeOK, DeadHoldNothing, Write, Finish, Begin
  <2>2. OneInWindow'
    BY <1>1, <1>2
       DEF IInv, TypeOK, OneInWindow, FileKnown, CallsKnown, Window, Write, Finish, Begin,
           Goto
  <2>3. ClaimWritten'
    BY <1>1, <1>2 DEF ClaimWritten, Write
  <2>4. FileKnown'
    BY <1>1, <1>2 DEF IInv, TypeOK, FileKnown, Write, Finish, Begin, Goto
  <2>5. CallsKnown'
    BY <1>1, <1>2 DEF IInv, TypeOK, CallsKnown, Releasing, Write, Finish, Begin, Goto
  <2>6. OuterOwns'
    BY <1>1, <1>2 DEF IInv, OuterOwns, Write
  <2>7. Covered'
    BY <1>1, <1>2 DEF IInv, Covered, Write
  <2> QED BY <2>1, <2>2, <2>3, <2>4, <2>5, <2>6, <2>7 DEF IInv
<1>3. CASE call[p] # "retitle"
  <2>1. call[p] \in {"acquire", "session"} /\ Grant(p)
    BY <1>3 DEF IInv, CallsKnown, Write
  <2> QED BY <1>1, <2>1, GrantStep
<1> QED BY <1>2, <1>3

\* With the windows closed and no claim ended by hand, every step keeps IInv.
LEMMA InvStep == Guarded /\ IInv /\ [Next]_vars => IInv'
<1> SUFFICES ASSUME Guarded, IInv, [Next]_vars PROVE IInv'
  OBVIOUS
<1>1. TypeOK'
  BY TypeStep DEF IInv
<1>2. CASE UNCHANGED vars
  BY <1>1, <1>2
     DEF IInv, DeadHoldNothing, OneInWindow, ClaimWritten, FileKnown, CallsKnown, OuterOwns,
         Covered, Window, vars
<1>3. ASSUME NEW p \in Proc, Continue(p) PROVE IInv'
  BY <1>1, <1>3, ExistsStep, ReadTextStep, JudgeStep, UnlinkStep, CreateStep, TruncateStep,
     WriteStep, RelExistsStep, RelReadStep, RelUnlinkStep DEF Continue
<1>4. ASSUME NEW p \in Proc, Enter(p) \/ Leave(p) \/ SessionClaim(p) \/ GiveBack(p)
      PROVE IInv'
  BY <1>1, <1>4, EnterStep, LeaveStep, SessionClaimStep, GiveBackStep
<1>5. ASSUME NEW p \in Proc, Query(p) \/ Retitle(p) \/ Crash(p) \/ Start(p) PROVE IInv'
  BY <1>1, <1>5, QueryStep, RetitleStep, CrashStep, StartStep
<1>6. \A p \in Proc : ~Break(p)
  BY DEF Guarded, Break
<1> QED BY <1>2, <1>3, <1>4, <1>5, <1>6 DEF Next

\* IInv holds before anyone asks for the rig.
LEMMA InvInit == Init => IInv
<1> SUFFICES ASSUME Init PROVE IInv
  OBVIOUS
<1>1. TypeOK
  BY TypeInit
<1>2. \A p \in Proc : Len(blocks[p]) = 0 /\ blocks[p] = <<>> /\ Window(p) = "none"
  BY EmptySeq DEF Init, Window
<1> QED BY <1>1, <1>2
           DEF Init, IInv, DeadHoldNothing, OneInWindow, ClaimWritten, FileKnown,
               CallsKnown, OuterOwns, Covered, Releasing

\* IInv holds throughout.
LEMMA InvHolds == ASSUME Guarded PROVE Spec => []IInv
<1>1. Init => IInv
  BY InvInit
<1>2. IInv /\ [Next]_vars => IInv'
  BY InvStep
<1> QED BY <1>1, <1>2, PTL DEF Spec

\* Two processes never both believe they own the rig, for any number of processes,
\* machines, crashes and reused pids, if nobody steps into a window (run_lock.py:217).
THEOREM OneOwnerHolds == ASSUME Guarded PROVE Spec => []OneOwner
<1>1. IInv => OneOwner
  BY DEF IInv, ClaimWritten, OneOwner
<1> QED BY <1>1, InvHolds, PTL

--------------------------------------------------------------------------------
(* The lock implements RigOwner, and what else follows from IInv.          *)

\* A step changes the claims by at most one process.
LEMMA ClaimsStep ==
  ASSUME TypeOK, [Next]_vars
  PROVE  \/ claims' = claims
         \/ \E p \in Proc : claims' = claims \cup {p} \/ claims' = claims \ {p}
<1>1. CASE UNCHANGED vars
  BY <1>1 DEF vars
<1>2. ASSUME NEW p \in Proc, Continue(p)
      PROVE claims' = claims \/ claims' = claims \cup {p} \/ claims' = claims \ {p}
  BY <1>2
     DEF Continue, Exists, ReadText, Judge, Unlink, Create, Truncate, Write, RelExists,
         RelRead, RelUnlink,
     Returns, AfterBefore, AfterAcquire, AfterLostRace, AfterLook, Grant, Raise, Released
<1>3. ASSUME NEW p \in Proc, Crash(p) PROVE claims' = claims \ {p}
  BY <1>3 DEF Crash, Die
<1>4. ASSUME NEW p \in Proc,
             Enter(p) \/ Leave(p) \/ SessionClaim(p) \/ GiveBack(p) \/ Query(p) \/ Retitle(p)
               \/ Break(p) \/ Start(p)
      PROVE claims' = claims
  BY <1>4 DEF Enter, Leave, SessionClaim, GiveBack, Query, Retitle, Break, Start
<1> QED BY <1>1, <1>2, <1>3, <1>4 DEF Next

\* While at most one process claims the rig, a step of the lock is a step of RigOwner.
LEMMA RigStep ==
  ASSUME TypeOK, TypeOK', OneOwner, OneOwner', [Next]_vars
  PROVE  [Rig!Next]_Holder
<1>1. \A p \in Proc : claims = {p} => Holder = p
  BY DEF Holder
<1>2. \A p \in Proc : claims' = {p} => Holder' = p
  BY DEF Holder
<1>3. (claims = {} => Holder = NoOne) /\ (claims' = {} => Holder' = NoOne)
  BY DEF Holder
<1>4. CASE claims' = claims
  BY <1>4 DEF Holder
<1>5. ASSUME NEW p \in Proc, claims' = claims \cup {p}, claims' # claims
      PROVE  Rig!Next
  <2>1. claims' = {p}
    BY <1>5 DEF OneOwner
  <2>2. claims = {}
    BY <1>5, <2>1
  <2> QED BY <1>2, <1>3, <2>1, <2>2 DEF Rig!Next, Rig!Take
<1>6. ASSUME NEW p \in Proc, claims' = claims \ {p}, claims' # claims
      PROVE  Rig!Next
  <2>1. claims = {p} /\ claims' = {}
    BY <1>6 DEF OneOwner
  <2> QED BY <1>1, <1>3, <2>1 DEF Rig!Next, Rig!Drop
<1> QED BY <1>4, <1>5, <1>6, ClaimsStep

\* Under the same proviso the lock file keeps the promise of RigOwner.
THEOREM RefinesRigOwner == ASSUME Guarded PROVE Spec => Implements
<1>1. Init => Rig!Init
  BY DEF Init, Rig!Init, Holder
<1>2. IInv /\ IInv' /\ [Next]_vars => [Rig!Next]_Holder
  <2> SUFFICES ASSUME IInv, IInv', [Next]_vars PROVE [Rig!Next]_Holder
    OBVIOUS
  <2>1. TypeOK /\ TypeOK' /\ OneOwner /\ OneOwner'
    BY DEF IInv, ClaimWritten, OneOwner
  <2> QED BY <2>1, RigStep
<1> QED BY <1>1, <1>2, InvHolds, PTL DEF Spec, Rig!Spec, Implements

\* Under the same proviso a claim is on disk for as long as it is held.
THEOREM ClaimStaysOnDisk == ASSUME Guarded PROVE Spec => []ClaimOnDisk
<1>1. IInv => ClaimOnDisk
  BY DEF IInv, ClaimWritten, ClaimOnDisk
<1> QED BY <1>1, InvHolds, PTL

\* Under the same proviso nested blocks and sessions run under their process's claim, to
\* any depth.
THEOREM BlocksStayCovered == ASSUME Guarded PROVE Spec => []BlocksCovered
<1>1. IInv => BlocksCovered
  BY DEF IInv, TypeOK, Covered, BlocksCovered
<1> QED BY <1>1, InvHolds, PTL
--------------------------------------------------------------------------------
(* What a process leaves in the file.  Here every window is open, every    *)
(* prompt may be confirmed, and Connect All may be pressed during a run:   *)
(* nothing is assumed.                                                     *)

\* A process that keeps its own pid to itself: only its own steps change its claim and its
\* place, and nobody else writes its name.
Itself == alive \ Reused

\* What p knows of its own claim while it judges its own lock, or rewrites it.
OwnLockKnown ==
  \A p \in Itself :
    /\ pc[p] = "judge" /\ seen[p] = p => p \in claims
    /\ call[p] = "retitle" /\ pc[p] \in {"truncate", "write"} => p \in claims
    /\ pc[p] = "create" => call[p] # "retitle"

GhostInv == TypeOK /\ NoGhost /\ OwnLockKnown

\* Such a process is one of the processes.
LEMMA ItselfReal == GhostInv => Itself \subseteq Proc
BY DEF GhostInv, TypeOK, Itself

\* What a step of p leaves of the others: their places, their calls and their claims.
OthersKept(p) ==
  \A q \in Proc \ {p} :
    /\ pc'[q] = pc[q] /\ call'[q] = call[q] /\ seen'[q] = seen[q]
    /\ q \in claims' <=> q \in claims

\* What the caller does with the lock it read ends no claim, writes nothing, and goes on to
\* rewrite the lock only if it is its own.
LEMMA ReturnsOwn ==
  ASSUME TypeOK, NEW p \in Proc, NEW r \in Proc \cup {NoOne}, Returns(p, r)
  PROVE  /\ OthersKept(p) /\ claims \subseteq claims'
         /\ pc'[p] \notin {"judge", "write"}
         /\ pc'[p] = "truncate" => r = p
         /\ pc'[p] = "create" => call'[p] # "retitle"
<1>1. CASE AfterBefore(p, r)
  BY <1>1 DEF TypeOK, AfterBefore, OthersKept, Begin, Goto
<1>2. CASE AfterAcquire(p, r)
  BY <1>2 DEF TypeOK, AfterAcquire, Grant, Raise, OthersKept, Finish, Begin, Goto
<1>3. CASE AfterLostRace(p)
  BY <1>3 DEF TypeOK, AfterLostRace, Raise, OthersKept, Finish, Begin, Goto
<1>4. CASE AfterLook(p, r)
  BY <1>4 DEF TypeOK, AfterLook, OthersKept, Finish, Begin, Goto
<1> QED BY <1>1, <1>2, <1>3, <1>4 DEF Returns

\* A step of p that ends no claim and writes no file keeps GhostInv if p, where it gets to
\* judging or rewriting its own lock, has the claim.
LEMMA GhostKept ==
  ASSUME GhostInv, TypeOK', NEW p \in Proc, OthersKept(p), claims \subseteq claims',
         alive' \subseteq alive \cup Reused, owner' \in {owner, NoOne}, pc[p] # "write",
         pc'[p] = "judge" /\ seen'[p] = p /\ p \in Itself' => p \in claims',
         pc'[p] \in {"truncate", "write"} /\ p \in Itself' => p \in claims',
         pc'[p] = "create" => call'[p] # "retitle"
  PROVE  GhostInv'
<1>1. Itself' \subseteq Itself
  BY DEF Itself
<1>2. NoGhost'
  BY <1>1, NoOneAssumption DEF GhostInv, TypeOK, NoGhost, Itself, OthersKept
<1>3. OwnLockKnown'
  BY <1>1 DEF GhostInv, TypeOK, OwnLockKnown, Itself, OthersKept
<1> QED BY <1>2, <1>3 DEF GhostInv

\* An answer about its own lock is an answer about its own claim.
LEMMA GhostReturns ==
  ASSUME GhostInv, TypeOK', NEW p \in Proc, NEW r \in Proc \cup {NoOne}, Returns(p, r),
         alive' = alive, owner' \in {owner, NoOne}, pc[p] # "write",
         r = p /\ p \in Itself => p \in claims
  PROVE  GhostInv'
<1>1. Itself' = Itself
  BY DEF Itself
<1>2. /\ OthersKept(p) /\ claims \subseteq claims'
      /\ pc'[p] \notin {"judge", "write"} /\ (pc'[p] = "truncate" => r = p)
      /\ pc'[p] = "create" => call'[p] # "retitle"
  BY ReturnsOwn DEF GhostInv
<1> QED BY <1>1, <1>2, GhostKept

\* A read of its own lock by a process that is not rewriting it finds its own claim.
LEMMA GhostReads ==
  ASSUME GhostInv, TypeOK', NEW p \in Proc, Exists(p) \/ ReadText(p) \/ Judge(p) \/ Unlink(p)
  PROVE  GhostInv'
<1>1. CASE Exists(p)
  <2>1. CASE owner = NoOne
    BY <1>1, <2>1, GhostReturns, NoOneAssumption DEF Exists
  <2>2. CASE owner # NoOne
    <3>1. /\ OthersKept(p) /\ claims' = claims /\ alive' = alive /\ owner' = owner
          /\ pc'[p] = "read" /\ pc[p] # "write"
      BY <1>1, <2>2 DEF Exists, Goto, OthersKept, GhostInv, TypeOK
    <3> QED BY <3>1, GhostKept
  <2> QED BY <2>1, <2>2
<1>2. CASE ReadText(p)
  <2>1. /\ OthersKept(p) /\ claims' = claims /\ alive' = alive /\ owner' = owner
        /\ pc'[p] \in {"judge", "unlink"} /\ pc[p] = "read"
        /\ pc'[p] = "judge" => seen'[p] = owner
    BY <1>2 DEF ReadText, Goto, OthersKept, GhostInv, TypeOK
  <2>2. owner = p /\ p \in Itself => p \in claims
    BY <2>1 DEF GhostInv, NoGhost, Itself
  <2>3. Itself' = Itself
    BY <2>1 DEF Itself
  <2> QED BY <2>1, <2>2, <2>3, GhostKept
<1>3. CASE Judge(p)
  <2>1. CASE SeesAlive(p, seen[p])
    <3>1. seen[p] = p /\ p \in Itself => p \in claims
      BY <1>3 DEF GhostInv, OwnLockKnown, Judge
    <3>2. /\ Returns(p, seen[p]) /\ seen[p] \in Proc \cup {NoOne}
          /\ alive' = alive /\ owner' = owner /\ pc[p] # "write"
      BY <1>3, <2>1 DEF GhostInv, TypeOK, Judge
    <3> QED BY <3>1, <3>2, GhostReturns
  <2>2. CASE ~SeesAlive(p, seen[p])
    <3>1. /\ OthersKept(p) /\ claims' = claims /\ alive' = alive /\ owner' = owner
          /\ pc'[p] = "unlink" /\ pc[p] # "write"
      BY <1>3, <2>2 DEF Judge, Goto, OthersKept, GhostInv, TypeOK
    <3> QED BY <3>1, GhostKept
  <2> QED BY <2>1, <2>2
<1>4. CASE Unlink(p)
  <2>1. /\ Returns(p, NoOne) /\ alive' = alive /\ owner' \in {owner, NoOne}
        /\ pc[p] # "write"
    BY <1>4 DEF Unlink, RemoveFile, file
  <2> QED BY <2>1, GhostReturns, NoOneAssumption
<1> QED BY <1>1, <1>2, <1>3, <1>4

\* A process that writes its name is at the write, and then has its claim: the exclusive
\* create is an acquire's, the truncation is of its own lock.
LEMMA GhostWrites ==
  ASSUME GhostInv, TypeOK', NEW p \in Proc, Create(p) \/ Truncate(p) \/ Write(p)
  PROVE  GhostInv'
<1>1. CASE Create(p)
  <2>1. CASE owner = NoOne
    <3>1. Itself' = Itself /\ OthersKept(p) /\ claims' = claims /\ owner' = p
          /\ pc'[p] = "write" /\ call'[p] = call[p] /\ pc[p] = "create"
      BY <1>1, <2>1 DEF Itself, Create, Goto, OthersKept, GhostInv, TypeOK
    <3>2. NoGhost'
      BY <3>1 DEF NoGhost
    <3>3. OwnLockKnown'
      BY <3>1, ItselfReal DEF GhostInv, OwnLockKnown, OthersKept
    <3> QED BY <3>2, <3>3 DEF GhostInv
  <2>2. CASE owner # NoOne
    <3>1. /\ OthersKept(p) /\ claims' = claims /\ alive' = alive /\ owner' = owner
          /\ pc'[p] = "exists" /\ pc[p] # "write"
      BY <1>1, <2>2 DEF Create, Begin, Goto, OthersKept, file, GhostInv, TypeOK
    <3> QED BY <3>1, GhostKept
  <2> QED BY <2>1, <2>2
<1>2. CASE Truncate(p)
  <2>1. Itself' = Itself /\ OthersKept(p) /\ claims' = claims /\ owner' = p
        /\ pc'[p] = "write" /\ call'[p] = call[p] /\ pc[p] = "truncate"
    BY <1>2 DEF Itself, Truncate, Goto, OthersKept, GhostInv, TypeOK
  <2>2. NoGhost'
    BY <2>1 DEF NoGhost
  <2>3. OwnLockKnown'
    BY <2>1, ItselfReal DEF GhostInv, OwnLockKnown, OthersKept
  <2> QED BY <2>2, <2>3 DEF GhostInv
<1>3. CASE Write(p)
  <2>1. /\ Itself' = Itself /\ alive' = alive /\ OthersKept(p) /\ claims \subseteq claims'
        /\ owner' = owner /\ pc'[p] = "idle"
    BY <1>3 DEF Itself, Write, Grant, Finish, Begin, Goto, OthersKept, GhostInv, TypeOK
  <2>2. p \in Itself => p \in claims'
    BY <1>3 DEF Write, Grant, Finish, GhostInv, OwnLockKnown
  <2>3. NoGhost'
    BY <2>1, <2>2, NoOneAssumption DEF GhostInv, TypeOK, NoGhost, OthersKept, Itself
  <2>4. OwnLockKnown'
    BY <2>1, ItselfReal DEF GhostInv, OwnLockKnown, OthersKept
  <2> QED BY <2>3, <2>4 DEF GhostInv
<1> QED BY <1>1, <1>2, <1>3

\* A claim that is given back is not in the file any more: its owner found no file, found
\* another's name, or unlinked it.
LEMMA GhostReleases ==
  ASSUME GhostInv, TypeOK', NEW p \in Proc, RelExists(p) \/ RelRead(p) \/ RelUnlink(p)
  PROVE  GhostInv'
<1>1. CASE pc'[p] # "idle"
  <2>1. /\ OthersKept(p) /\ claims' = claims /\ alive' = alive /\ owner' = owner
        /\ pc'[p] \in {"relread", "relunlink"} /\ pc[p] # "write"
    BY <1>1
       DEF RelExists, RelRead, RelUnlink, Released, Finish, Begin, Goto, OthersKept, file,
           GhostInv, TypeOK
  <2> QED BY <2>1, GhostKept
<1>2. CASE pc'[p] = "idle"
  <2>1. /\ OthersKept(p) /\ alive' = alive /\ owner' \in {owner, NoOne} /\ owner' # p
    BY <1>2, NoOneAssumption
       DEF RelExists, RelRead, RelUnlink, RemoveFile, Unlinkable, Released, Finish, Begin,
           Goto, OthersKept, file, GhostInv, TypeOK
  <2>2. Itself' = Itself
    BY <2>1 DEF Itself
  <2>3. NoGhost'
    BY <2>1, <2>2, NoOneAssumption DEF GhostInv, TypeOK, NoGhost, OthersKept, Itself
  <2>4. OwnLockKnown'
    BY <1>2, <2>1, <2>2, ItselfReal DEF GhostInv, OwnLockKnown, OthersKept
  <2> QED BY <2>3, <2>4 DEF GhostInv
<1> QED BY <1>1, <1>2

\* Beginning a call, a crash and a process with a used pid.
LEMMA GhostCalls ==
  ASSUME GhostInv, TypeOK', NEW p \in Proc,
         \/ Enter(p) \/ Leave(p) \/ SessionClaim(p) \/ GiveBack(p)
         \/ Query(p) \/ Retitle(p) \/ Break(p) \/ Crash(p) \/ Start(p)
  PROVE  GhostInv'
<1>1. CASE Crash(p)
  <2>1. /\ OthersKept(p) /\ alive' = alive \ {p} /\ owner' = owner
    BY <1>1 DEF Crash, Die, Finish, Begin, Goto, OthersKept, file, GhostInv, TypeOK
  <2>2. NoGhost' /\ OwnLockKnown'
    BY <2>1 DEF GhostInv, TypeOK, NoGhost, OwnLockKnown, OthersKept, Itself
  <2> QED BY <2>2 DEF GhostInv
<1>2. CASE Start(p)
  <2>1. Itself' = Itself /\ UNCHANGED <<owner, pc, call, seen, claims>>
    BY <1>2 DEF Start, Itself
  <2>2. NoGhost'
    BY <2>1 DEF GhostInv, NoGhost, Itself
  <2>3. OwnLockKnown'
    BY <2>1 DEF GhostInv, OwnLockKnown
  <2> QED BY <2>2, <2>3 DEF GhostInv
<1>3. CASE \/ Enter(p) \/ Leave(p) \/ SessionClaim(p) \/ GiveBack(p)
           \/ Query(p) \/ Retitle(p) \/ Break(p)
  <2>1. /\ OthersKept(p) /\ claims' = claims /\ alive' = alive /\ owner' = owner
        /\ pc'[p] \in {"idle", "exists", "relexists"} /\ pc[p] # "write"
    BY <1>3
       DEF Enter, Leave, SessionClaim, GiveBack, Query, Retitle, Break, Idle, Begin, Goto,
           OthersKept, GhostInv, TypeOK
  <2> QED BY <2>1, GhostKept
<1> QED BY <1>1, <1>2, <1>3

\* Whatever a process does, crashes included, it leaves no lock that reads as its own and
\* that it does not know of, with every window open and every prompt confirmed: the rig is
\* never refused in the name of a process that has no claim and is not about to have it
\* (run_lock.py:217; the safety half of NeverWedged).
THEOREM NoGhostHolds == Spec => []NoGhost
<1>1. Init => GhostInv
  <2> SUFFICES ASSUME Init PROVE GhostInv
    OBVIOUS
  <2>1. TypeOK
    BY TypeInit
  <2>2. NoGhost /\ OwnLockKnown
    BY NoOneAssumption DEF Init, NoGhost, OwnLockKnown, Itself
  <2> QED BY <2>1, <2>2 DEF GhostInv
<1>2. GhostInv /\ [Next]_vars => GhostInv'
  <2> SUFFICES ASSUME GhostInv, [Next]_vars PROVE GhostInv'
    OBVIOUS
  <2>1. TypeOK'
    BY TypeStep DEF GhostInv
  <2>2. CASE UNCHANGED vars
    BY <2>1, <2>2 DEF GhostInv, NoGhost, OwnLockKnown, Itself, vars
  <2>3. ASSUME NEW p \in Proc, Continue(p) PROVE GhostInv'
    BY <2>1, <2>3, GhostReads, GhostWrites, GhostReleases DEF Continue
  <2>4. ASSUME NEW p \in Proc,
               \/ Enter(p) \/ Leave(p) \/ SessionClaim(p) \/ GiveBack(p)
               \/ Query(p) \/ Retitle(p) \/ Break(p) \/ Crash(p) \/ Start(p)
        PROVE  GhostInv'
    BY <2>1, <2>4, GhostCalls
  <2> QED BY <2>2, <2>3, <2>4 DEF Next
<1>3. GhostInv => NoGhost
  BY DEF GhostInv
<1> QED BY <1>1, <1>2, <1>3, PTL DEF Spec
================================================================================
