------------------------- MODULE CampaignLifecycleProofs -------------------------
(***************************************************************************)
(* What a campaign of any size keeps over any number of launches, kills,   *)
(* signals and exceptions: a rig left driven is not forgotten, a well is   *)
(* cast once unless its first deposit was cut short or its row refused,    *)
(* and a fault that fails every well is reported.  The first needs parks that take and listeners  *)
(* that do not raise, the second that a full plate is changed before the   *)
(* next launch.                                                            *)
(***************************************************************************)
EXTENDS CampaignLifecycle, FiniteSetTheorems, SequenceTheorems, WellFoundedInduction, TLAPS

\* A park of a connected rig turns everything off, and no listener's exception takes
\* the loop's park with it.
ParksTake == ParkLeaves = {FALSE} /\ ~EventsRaise

--------------------------------------------------------------------------------
(* Types.                                                                  *)

\* What no step touches keeps its types.
LEMMA Untouched ==
  /\ StoreOK /\ UNCHANGED store => StoreOK'
  /\ RigOK /\ UNCHANGED rig => RigOK'
  /\ SessionOK /\ UNCHANGED session => SessionOK'
  /\ LoopOK /\ UNCHANGED loop => LoopOK'
  /\ EndingOK /\ UNCHANGED ending => EndingOK'
  /\ HistoryOK /\ UNCHANGED history => HistoryOK'
<1>1. StoreOK /\ UNCHANGED store => StoreOK'
  BY DEF StoreOK, store
<1>2. RigOK /\ UNCHANGED rig => RigOK'
  BY Zenon DEF RigOK, rig
<1>3. SessionOK /\ UNCHANGED session => SessionOK'
  BY DEF SessionOK, session
<1>4. LoopOK /\ UNCHANGED loop => LoopOK'
  BY DEF LoopOK, loop, round
<1>5. EndingOK /\ UNCHANGED ending => EndingOK'
  BY DEF EndingOK, ending
<1>6. HistoryOK /\ UNCHANGED history => HistoryOK'
  BY DEF HistoryOK, history
<1> QED
  BY <1>1, <1>2, <1>3, <1>4, <1>5, <1>6

\* Empty tables and a cold rig.
LEMMA TypeInit == Init => TypeOK
<1> SUFFICES ASSUME Init PROVE TypeOK
  OBVIOUS
<1> USE DEF Init
<1>1. StoreOK
  BY DEF StoreOK
<1>2. RigOK
  <2>1. drops \in [Well -> Nat]
    BY DEF Init
  <2>2. plate \in 1..LastPlate
    BY SizesAssumption
  <2> QED
    BY <2>1, <2>2 DEF RigOK
<1>3. SessionOK /\ EndingOK /\ HistoryOK
  BY DEF SessionOK, EndingOK, HistoryOK
<1>4. LoopOK
  BY DEF LoopOK
<1> QED
  BY <1>1, <1>2, <1>3, <1>4 DEF TypeOK, Places

\* The boards that have rows have a last one.
BoardKnown == \E n \in Nat : \A w \in occ : w[1] <= n

\* A run that is being closed has ended somehow.
StatusKnown == at = "finalizing" => status # "none"

TypeInv == TypeOK /\ BoardKnown /\ StatusKnown

\* A set of numbers that has a member has a least one.
LEMMA LeastOf ==
  ASSUME NEW T \in SUBSET Nat, T # {}
  PROVE  \E m \in T : \A n \in T : m <= n
<1>1. \E m \in T : \A n \in T : ~(<<n, m>> \in OpToRel(<, Nat))
  BY WFMin, NatLessThanWellFounded, Zenon
<1>2. PICK m \in T : \A n \in T : <<n, m>> \notin OpToRel(<, Nat)
  BY <1>1, Zenon
<1>3. \A n \in T : n < m => <<n, m>> \in OpToRel(<, Nat)
  BY Zenon DEF OpToRel
<1>4. \A n \in T : ~(n < m)
  BY <1>2, <1>3, Zenon
<1> QED BY <1>4

\* The last of the boards that a pointer and rows name is one of them.
LEMMA LastOf ==
  ASSUME NEW p \in Nat, NEW T \in SUBSET (Nat \X Electrode),
         NEW n \in Nat, \A w \in T : w[1] <= n
  PROVE  \E b \in Nat : /\ b = Max({p} \cup {w[1] : w \in T})
                        /\ p <= b /\ \A w \in T : w[1] <= b
                        /\ b = p \/ \E w \in T : w[1] = b
<1> DEFINE S == {p} \cup {w[1] : w \in T}
           U == {u \in Nat : \A x \in S : x <= u}
<1>1. S \subseteq Nat /\ p \in S
  OBVIOUS
<1>2. U # {}
  <2>1. n + p \in Nat /\ \A x \in S : x <= n + p
    OBVIOUS
  <2> QED BY <2>1
<1>3. PICK m \in U : \A u \in U : m <= u
  <2> HIDE DEF U
  <2>1. U \in SUBSET Nat
    BY DEF U
  <2> QED BY <1>2, <2>1, LeastOf
<1>4. m \in Nat /\ \A x \in S : x \in Nat /\ x <= m
  BY <1>1
<1>5. m \in S
  <2> SUFFICES ASSUME m \notin S PROVE FALSE
    OBVIOUS
  <2> HIDE DEF S
  <2>1. m - 1 \in Nat /\ \A x \in S : x <= m - 1
    <3>1. \A x \in S : x # m
      OBVIOUS
    <3> QED BY <1>1, <1>4, <3>1
  <2>2. m <= m - 1
    BY <1>3, <2>1
  <2> QED BY <1>4, <2>2
<1>6. Max(S) = m
  <2> HIDE DEF S, U
  <2>1. \A x \in S : (\A y \in S : x >= y) => x = m
    BY <1>4, <1>5
  <2> QED BY <1>4, <1>5, <2>1 DEF Max
<1> QED BY <1>4, <1>5, <1>6

\* The active board is the last of those the pointer and the rows name.
LEMMA CurrentIsLast ==
  ASSUME StoreOK, BoardKnown
  PROVE  /\ CurrentBoard \in Nat /\ pointer <= CurrentBoard
         /\ \A w \in occ : w[1] <= CurrentBoard
         /\ CurrentBoard = pointer \/ \E w \in occ : w[1] = CurrentBoard
<1>1. PICK n \in Nat : \A w \in occ : w[1] <= n
  BY DEF BoardKnown
<1>2. pointer \in Nat /\ occ \in SUBSET (Nat \X Electrode)
  BY DEF StoreOK
<1> QED BY <1>1, <1>2, LastOf DEF CurrentBoard

\* So it is after a step.
LEMMA CurrentIsLastNext ==
  ASSUME StoreOK', BoardKnown'
  PROVE  /\ CurrentBoard' \in Nat /\ pointer' <= CurrentBoard'
         /\ \A w \in occ' : w[1] <= CurrentBoard'
         /\ CurrentBoard' = pointer' \/ \E w \in occ' : w[1] = CurrentBoard'
<1>1. PICK n \in Nat : \A w \in occ' : w[1] <= n
  BY DEF BoardKnown
<1>2. pointer' \in Nat /\ occ' \in SUBSET (Nat \X Electrode)
  BY DEF StoreOK
<1> QED BY <1>1, <1>2, LastOf DEF CurrentBoard

\* The greater of two numbers is a number, no less than either.
LEMMA MaxOfTwo ==
  ASSUME NEW a \in Nat, NEW b \in Nat
  PROVE  Max({a, b}) \in {a, b} /\ Max({a, b}) >= a /\ Max({a, b}) >= b
<1>1. CASE a >= b
  BY <1>1 DEF Max
<1>2. CASE ~(a >= b)
  BY <1>2 DEF Max
<1> QED
  BY <1>1, <1>2

\* The size of a round is a number.
LEMMA RoundSizeIsNat ==
  ASSUME LoopOK, iter < Budget
  PROVE  RoundSize \in Nat
<1>1. IsFiniteSet(free)
  <2>1. IsFiniteSet(Electrode)
    BY FS_Interval, SizesAssumption DEF Electrode
  <2> QED
    BY <2>1, FS_Subset DEF LoopOK
<1>2. Cardinality(free) \in Nat
  BY <1>1, FS_CardinalityType
<1>3. Budget - iter \in Nat
  BY SizesAssumption DEF LoopOK
<1> DEFINE S == {BatchSize, Budget - iter, Cardinality(free)}
<1>4. BatchSize \in Nat
  BY SizesAssumption
<1> QED
  <2>1. \E x \in S : \A y \in S : x <= y
    <3> DEFINE m == IF BatchSize <= Budget - iter THEN BatchSize ELSE Budget - iter
               n == IF m <= Cardinality(free) THEN m ELSE Cardinality(free)
    <3>1. n \in S /\ n <= BatchSize /\ n <= Budget - iter /\ n <= Cardinality(free)
      BY <1>2, <1>3, <1>4
    <3> QED
      BY <3>1
  <2>2. \A x \in S : x \in Nat
    BY <1>2, <1>3, <1>4
  <2> QED
    BY <2>1, <2>2 DEF RoundSize, Min

\* A park leaves hot a truth value, and never turns anything on.
LEMMA ParkType ==
  ASSUME SafePark, RigOK
  PROVE  hot' \in BOOLEAN /\ (hot' => hot)
BY ChoicesAssumption DEF SafePark, RigOK

\* Writing to an entry of a table leaves a table of the same length; entries outside
\* of it are not written.
LEMMA Written ==
  ASSUME NEW S, NEW seq \in Seq(S), NEW i, NEW e \in S
  PROVE  /\ [seq EXCEPT ![i] = e] \in Seq(S)
         /\ Len([seq EXCEPT ![i] = e]) = Len(seq)
         /\ DOMAIN [seq EXCEPT ![i] = e] = DOMAIN seq
         /\ \A j \in DOMAIN seq : [seq EXCEPT ![i] = e][j] = IF j = i THEN e ELSE seq[j]
<1>1. CASE i \in 1..Len(seq)
  BY <1>1, ExceptSeq
<1>2. CASE i \notin 1..Len(seq)
  <2>1. [seq EXCEPT ![i] = e] = seq
    BY <1>2
  <2> QED
    BY <2>1, <1>2
<1> QED
  BY <1>1, <1>2

\* Closing a row leaves a table of rows.
LEMMA FinalizeType ==
  ASSUME NEW s \in Closed, Finalize(s), StoreOK
  PROVE  runs' \in Seq({"running"} \cup Closed) /\ finalized' = TRUE
<1>1. CASE finalized
  BY <1>1 DEF Finalize, StoreOK
<1>2. CASE ~finalized
  <2> DEFINE S == {"running"} \cup Closed
  <2>1. runs \in Seq(S) /\ s \in S
    BY DEF StoreOK
  <2> HIDE DEF S
  <2>2. [runs EXCEPT ![Len(runs)] = s] \in Seq(S)
    BY <2>1, Written
  <2> QED
    BY <1>2, <2>2 DEF Finalize, S
<1> QED
  BY <1>1, <1>2

\* So does marking rows.
LEMMA MarkedRows ==
  ASSUME NEW S, NEW seq \in Seq(S), NEW e \in S, NEW I
  PROVE  LET marked == [i \in DOMAIN seq |-> IF i \in I THEN e ELSE seq[i]]
         IN  marked \in Seq(S) /\ Len(marked) = Len(seq)
<1> DEFINE marked == [i \in DOMAIN seq |-> IF i \in I THEN e ELSE seq[i]]
<1>1. Len(seq) \in Nat /\ DOMAIN seq = 1..Len(seq) /\ \A i \in 1..Len(seq) : seq[i] \in S
  BY LenProperties, ElementOfSeq
<1>2. marked \in [1..Len(seq) -> S]
  BY <1>1
<1>3. marked \in Seq(S)
  BY <1>1, <1>2, SeqDef
<1> QED
  BY <1>1, <1>2, <1>3, LenProperties

\* What a fault leaves.
LEMMA LeavesType ==
  ASSUME Leaves, RigOK, LoopOK, HistoryOK
  PROVE  casting' = 0 /\ unrecorded' \in SUBSET Well /\ cut' \in BOOLEAN /\ faults' \in Nat
<1>1. casting # 0 => <<plate, casting>> \in Well
  BY DEF LoopOK, RigOK, Well
<1>2. casting' = 0 /\ unrecorded' \in SUBSET Well
  BY <1>1 DEF Leaves, HistoryOK
<1>3. cut' \in BOOLEAN /\ faults' \in Nat
  BY DEF Leaves, HistoryOK
<1> QED
  BY <1>2, <1>3

\* An exception is caught outside the campaign's own body, or by nobody.
LEMMA UnwindPlace ==
  ASSUME at \in Places
  PROVE  /\ Unwind(at) \in {"off"} \cup Raised
         /\ Unwind(at) = "raised" <=> at \in Running
         /\ at # "off" => (Unwind(at) = "off" <=> at = "connecting")
BY Zenon DEF Places, Before, Running, Raised, Unwind

\* A launch, its recovery and the start of a run keep the types.
LEMMA TypeStart ==
  ASSUME TypeInv, Start
  PROVE  TypeInv'
<1> USE DEF TypeInv, TypeOK
<1>1. ASSUME NEW r \in BOOLEAN, Launch(r) PROVE TypeInv'
  <2>1. at' \in Places
    BY <1>1 DEF Launch, Goto, Places, Before, Running, Raised
  <2>2. SessionOK'
    <3>1. Unfinished \in SUBSET Nat
      BY LenProperties DEF Unfinished, StoreOK
    <3> QED
      BY <1>1, <3>1 DEF Launch, SessionOK
  <2>3. EndingOK'
    BY <1>1 DEF Launch, EndingOK
  <2>4. HistoryOK'
    BY <1>1 DEF Launch, HistoryOK
  <2>5. BoardKnown'
    BY <1>1 DEF Launch, BoardKnown, store, loop, round
  <2>6. StatusKnown'
    BY <1>1 DEF Launch, StatusKnown, Goto, ending
  <2> QED
    BY <1>1, <2>1, <2>2, <2>3, <2>4, <2>5, <2>6, Untouched DEF Launch
<1>2. CASE ConnectAll
  <2>1. at' \in Places
    BY <1>2 DEF ConnectAll, Goto, Places, Before, Running, Raised
  <2>2. RigOK'
    BY <1>2 DEF ConnectAll, RigOK
  <2>3. BoardKnown'
    BY <1>2 DEF ConnectAll, BoardKnown, store, loop, round
  <2>4. StatusKnown'
    BY <1>2 DEF ConnectAll, StatusKnown, Goto, ending
  <2> QED
    BY <1>2, <2>1, <2>2, <2>3, <2>4, Untouched DEF ConnectAll
<1>3. CASE RecordAlert
  <2>1. at' \in Places
    BY <1>3 DEF RecordAlert, Goto, Places, Before, Running, Raised
  <2>2. HistoryOK'
    BY <1>3 DEF RecordAlert, HistoryOK
  <2>3. BoardKnown'
    BY <1>3 DEF RecordAlert, BoardKnown, store, loop, round
  <2>4. StatusKnown'
    BY <1>3 DEF RecordAlert, StatusKnown, Goto, ending
  <2> QED
    BY <1>3, <2>1, <2>2, <2>3, <2>4, Untouched DEF RecordAlert
<1>4. CASE MarkInterrupted
  <2>1. at' \in Places
    BY <1>4 DEF MarkInterrupted, Goto, Places, Before, Running, Raised
  <2>2. StoreOK'
    <3> DEFINE S == {"running"} \cup Closed
    <3>1. runs \in Seq(S) /\ "interrupted" \in S
      BY DEF StoreOK, Closed
    <3> HIDE DEF S
    <3>2. runs' \in Seq(S)
      BY <1>4, <3>1, MarkedRows DEF MarkInterrupted
    <3> QED
      BY <1>4, <3>2 DEF MarkInterrupted, StoreOK, S
  <2>3. BoardKnown'
    BY <1>4 DEF MarkInterrupted, BoardKnown, store, loop, round
  <2>4. StatusKnown'
    BY <1>4 DEF MarkInterrupted, StatusKnown, Goto, ending
  <2> QED
    BY <1>4, <2>1, <2>2, <2>3, <2>4, Untouched DEF MarkInterrupted
<1>5. CASE RecoveryPark
  <2>1. at' \in Places
    BY <1>5 DEF RecoveryPark, Goto, Places, Before, Running, Raised
  <2>2. RigOK'
    BY <1>5, ParkType DEF RecoveryPark, RigOK
  <2>3. BoardKnown'
    BY <1>5 DEF RecoveryPark, BoardKnown, store, loop, round
  <2>4. StatusKnown'
    BY <1>5 DEF RecoveryPark, StatusKnown, Goto, ending
  <2> QED
    BY <1>5, <2>1, <2>2, <2>3, <2>4, Untouched DEF RecoveryPark
<1>6. CASE StartRun
  <2>1. at' \in Places
    BY <1>6 DEF StartRun, Goto, Places, Before, Running, Raised
  <2>2. StoreOK'
    BY <1>6 DEF StartRun, StoreOK
  <2>3. BoardKnown'
    BY <1>6 DEF StartRun, BoardKnown, store, loop, round
  <2>4. StatusKnown'
    BY <1>6 DEF StartRun, StatusKnown, Goto, ending
  <2> QED
    BY <1>6, <2>1, <2>2, <2>3, <2>4, Untouched DEF StartRun
<1>7. CASE LoadResumePlan
  <2>1. at' \in Places
    BY <1>7 DEF LoadResumePlan, Goto, Places, Before, Running, Raised
  <2>2. LoopOK'
    <3>1. ckpt.iter \in Nat /\ ckpt.streak \in Nat
      BY DEF StoreOK
    <3>2. iter' \in Nat /\ streak' \in Nat
      BY <1>7, <3>1 DEF LoadResumePlan
    <3>3. todo' = {} /\ casting' = 0 /\ left' = 0 /\ due' = FALSE /\ UNCHANGED <<board, free>>
      BY <1>7 DEF LoadResumePlan
    <3> QED
      BY <3>2, <3>3 DEF LoopOK
  <2>3. BoardKnown'
    BY <1>7 DEF LoadResumePlan, BoardKnown, store, loop, round
  <2>4. StatusKnown'
    <3>1. at' = "boarding"
      BY <1>7 DEF LoadResumePlan, Goto
    <3> QED
      BY <3>1 DEF StatusKnown
  <2> QED
    BY <1>7, <2>1, <2>2, <2>3, <2>4, Untouched DEF LoadResumePlan
<1>8. CASE PrepareAllocator
  <2>1. at' \in Places
    BY <1>8 DEF PrepareAllocator, Goto, Places, Before, Running, Raised
  <2>2. StoreOK'
    BY <1>8, CurrentIsLast DEF PrepareAllocator, SameBoard, NewBoard, StoreOK
  <2>3. LoopOK'
    BY <1>8, CurrentIsLast
       DEF PrepareAllocator, SameBoard, NewBoard, OnBoard, StoreOK, LoopOK, round
  <2>4. BoardKnown'
    BY <1>8 DEF PrepareAllocator, BoardKnown
  <2>5. StatusKnown'
    BY <1>8 DEF PrepareAllocator, StatusKnown, Goto, ending
  <2> QED
    BY <1>8, <2>1, <2>2, <2>3, <2>4, <2>5, Untouched DEF PrepareAllocator
<1>9. CASE BoardCheckCancelled
  <2>1. at' \in Places
    BY <1>9 DEF BoardCheckCancelled, Goto, Places, Before, Running, Raised
  <2>2. BoardKnown'
    BY <1>9 DEF BoardCheckCancelled, BoardKnown, store, loop, round
  <2>3. StatusKnown'
    BY <1>9 DEF BoardCheckCancelled, StatusKnown, Goto, ending
  <2> QED
    BY <1>9, <2>1, <2>2, <2>3, Untouched DEF BoardCheckCancelled
<1> QED
  BY <1>1, <1>2, <1>3, <1>4, <1>5, <1>6, <1>7, <1>8, <1>9 DEF Start

\* So do the rounds: a well, its row, its checkpoint.
LEMMA TypeLoop ==
  ASSUME TypeInv, Loop
  PROVE  TypeInv'
<1> USE DEF TypeInv, TypeOK
<1>1. ASSUME NEW s \in {"stopped", "converged"}, LoopEnds(s) PROVE TypeInv'
  <2>1. at' \in Places
    BY <1>1 DEF LoopEnds, Goto, Places, Before, Running, Raised
  <2>2. EndingOK'
    BY <1>1 DEF LoopEnds, EndingOK
  <2>3. BoardKnown'
    BY <1>1 DEF LoopEnds, BoardKnown, store, loop, round
  <2>4. StatusKnown'
    BY <1>1 DEF LoopEnds, StatusKnown, Goto, ending
  <2> QED
    BY <1>1, <2>1, <2>2, <2>3, <2>4, Untouched DEF LoopEnds
<1>2. CASE FitPlate
  <2>1. at' \in Places
    BY <1>2 DEF FitPlate, Goto, Places, Before, Running, Raised
  <2>2. RigOK'
    BY <1>2, SizesAssumption DEF FitPlate, RigOK
  <2>3. BoardKnown'
    BY <1>2 DEF FitPlate, BoardKnown, store, loop, round
  <2>4. StatusKnown'
    BY <1>2 DEF FitPlate, StatusKnown, Goto, ending
  <2> QED
    BY <1>2, <2>1, <2>2, <2>3, <2>4, Untouched DEF FitPlate
<1>3. CASE PersistBoard
  <2>1. at' \in Places
    BY <1>3 DEF PersistBoard, Goto, Places, Before, Running, Raised
  <2>2. StoreOK'
    <3>1. CurrentBoard \in Nat /\ board + 1 \in Nat
      BY CurrentIsLast DEF LoopOK
    <3>2. Max({CurrentBoard, board + 1}) \in Nat
      BY <3>1, MaxOfTwo
    <3>3. pointer' \in Nat /\ UNCHANGED <<runs, ckpt, occ>>
      BY <1>3, <3>2 DEF PersistBoard, StoreOK
    <3> QED BY <3>3 DEF StoreOK
  <2>3. LoopOK'
    BY <1>3 DEF PersistBoard, OnBoard, LoopOK, round
  <2>4. BoardKnown'
    BY <1>3 DEF PersistBoard, BoardKnown
  <2>6. HistoryOK'
    BY <1>3 DEF PersistBoard, StoreRefuses, HistoryOK
  <2>5. StatusKnown'
    BY <1>3 DEF PersistBoard, StatusKnown, Goto, ending
  <2> QED
    BY <1>3, <2>1, <2>2, <2>3, <2>4, <2>5, <2>6, Untouched DEF PersistBoard
<1>4. CASE StartTrial
  <2>1. at' \in Places
    BY <1>4 DEF StartTrial, Goto, Places, Before, Running, Raised
  <2>2. RigOK'
    BY <1>4 DEF StartTrial, RigOK
  <2>3. LoopOK'
    <3>1. todo' \in SUBSET free /\ left' = RoundSize /\ free' = free \ todo'
      BY <1>4 DEF StartTrial
    <3>2. RoundSize \in Nat
      BY <1>4, RoundSizeIsNat DEF StartTrial
    <3>3. UNCHANGED <<iter, streak, board, casting, due>>
      BY <1>4 DEF StartTrial
    <3> QED
      BY <3>1, <3>2, <3>3 DEF LoopOK
  <2>4. HistoryOK'
    <3>1. told' = FALSE /\ UNCHANGED <<unrecorded, inRow, cut, faults>>
      BY <1>4 DEF StartTrial
    <3> QED
      BY <3>1 DEF HistoryOK
  <2>5. BoardKnown'
    <3>1. UNCHANGED <<store, board>>
      BY <1>4 DEF StartTrial
    <3> QED
      BY <3>1 DEF BoardKnown, store
  <2>6. StatusKnown'
    BY <1>4 DEF StartTrial, StatusKnown, Goto, ending
  <2> QED
    BY <1>4, <2>1, <2>2, <2>3, <2>4, <2>5, <2>6, Untouched DEF StartTrial
<1>5. ASSUME NEW e \in Electrode, BeginCast(e) PROVE TypeInv'
  <2>1. at' \in Places
    BY <1>5 DEF BeginCast, Goto, Places, Before, Running, Raised
  <2>2. RigOK'
    <3>1. drops' = [drops EXCEPT ![<<plate, e>>] = @ + 1] /\ UNCHANGED <<plate, hot, connected>>
      BY <1>5 DEF BeginCast
    <3>2. <<plate, e>> \in Well
      BY DEF Well, RigOK
    <3> QED
      BY <3>1, <3>2 DEF RigOK
  <2>3. LoopOK'
    BY <1>5 DEF BeginCast, LoopOK
  <2>4. BoardKnown'
    <3>1. UNCHANGED <<store, board>>
      BY <1>5 DEF BeginCast
    <3> QED
      BY <3>1 DEF BoardKnown, store
  <2>5. StatusKnown'
    BY <1>5 DEF BeginCast, StatusKnown, Goto, ending
  <2> QED
    BY <1>5, <2>1, <2>2, <2>3, <2>4, <2>5, Untouched DEF BeginCast
<1>6. CASE EndCast
  <2>1. at' \in Places
    BY <1>6 DEF EndCast, Goto, Places, Before, Running, Raised
  <2>2. StoreOK'
    BY <1>6 DEF EndCast, StoreOK, LoopOK
  <2>3. LoopOK'
    BY <1>6 DEF EndCast, LoopOK
  <2>4. BoardKnown'
    <3>1. PICK n \in Nat : \A w \in occ : w[1] <= n
      BY DEF BoardKnown
    <3>2. \A w \in occ' : w \in occ \/ w[1] = board
      BY <1>6 DEF EndCast
    <3>3. board \in Nat /\ \A w \in occ : w[1] \in Nat
      BY DEF LoopOK, StoreOK
    <3>4. n + board \in Nat /\ \A w \in occ' : w[1] <= n + board
      BY <3>1, <3>2, <3>3
    <3> QED BY <3>4 DEF BoardKnown
  <2>6. HistoryOK'
    <3>1. <<plate, casting>> \in Well
      BY <1>6 DEF EndCast, LoopOK, RigOK, Well
    <3> QED BY <1>6, <3>1 DEF EndCast, StoreRefuses, HistoryOK
  <2>5. StatusKnown'
    BY <1>6 DEF EndCast, StatusKnown, Goto, ending
  <2> QED
    BY <1>6, <2>1, <2>2, <2>3, <2>4, <2>5, <2>6, Untouched DEF EndCast
<1>7. ASSUME NEW place \in {"closing", "failing", "parking"}, TrialOver(place) PROVE TypeInv'
  <2>1. at' \in Places
    BY <1>7 DEF TrialOver, Goto, Places, Before, Running, Raised
  <2>2. RigOK'
    BY <1>7 DEF TrialOver, RigOK
  <2>3. LoopOK'
    BY <1>7 DEF TrialOver, LoopOK
  <2>4. EndingOK'
    BY <1>7 DEF TrialOver, EndingOK
  <2>5. BoardKnown'
    BY <1>7 DEF TrialOver, BoardKnown, store, loop, round
  <2>6. StatusKnown'
    BY <1>7 DEF TrialOver, StatusKnown, Goto, ending
  <2> QED
    BY <1>7, <2>1, <2>2, <2>3, <2>4, <2>5, <2>6, Untouched DEF TrialOver
<1>8. ASSUME NEW failed \in BOOLEAN, CloseWell(failed) PROVE TypeInv'
  <2>1. at' \in Places
    BY <1>8 DEF CloseWell, Goto, Places, Before, Running, Raised
  <2>2. StoreOK'
    <3>1. ckpt' = [kept |-> TRUE, iter |-> iter + 1, streak |-> streak', run |-> Len(runs)]
      BY <1>8 DEF CloseWell, Advance
    <3>2. streak' \in Nat /\ Len(runs) \in Nat
      BY <1>8, LenProperties DEF CloseWell, Count, LoopOK, StoreOK
    <3> QED
      BY <1>8, <3>1, <3>2 DEF CloseWell, StoreOK, LoopOK
  <2>3. LoopOK'
    BY <1>8 DEF CloseWell, Count, Advance, LoopOK
  <2>4. HistoryOK'
    BY <1>8 DEF CloseWell, Count, HistoryOK
  <2>5. BoardKnown'
    BY <1>8 DEF CloseWell, BoardKnown, store, loop, round
  <2>6. StatusKnown'
    BY <1>8 DEF CloseWell, StatusKnown, Goto, ending
  <2> QED
    BY <1>8, <2>1, <2>2, <2>3, <2>4, <2>5, <2>6, Untouched DEF CloseWell
<1>9. CASE CloseFailedRound
  <2>1. at' \in Places
    BY <1>9 DEF CloseFailedRound, Goto, Places, Before, Running, Raised
  <2>2. StoreOK'
    <3>1. ckpt' = [kept |-> TRUE, iter |-> iter + 1, streak |-> streak', run |-> Len(runs)]
      BY <1>9 DEF CloseFailedRound, Advance
    <3>2. streak' \in Nat /\ Len(runs) \in Nat
      BY <1>9, LenProperties DEF CloseFailedRound, Count, LoopOK, StoreOK
    <3> QED
      BY <1>9, <3>1, <3>2 DEF CloseFailedRound, StoreOK, LoopOK
  <2>3. LoopOK'
    BY <1>9 DEF CloseFailedRound, Count, Advance, LoopOK
  <2>4. HistoryOK'
    BY <1>9 DEF CloseFailedRound, Count, HistoryOK
  <2>5. BoardKnown'
    BY <1>9 DEF CloseFailedRound, BoardKnown, store, loop, round
  <2>6. StatusKnown'
    BY <1>9 DEF CloseFailedRound, StatusKnown, Goto, ending
  <2> QED
    BY <1>9, <2>1, <2>2, <2>3, <2>4, <2>5, <2>6, Untouched DEF CloseFailedRound
<1>10. CASE AdvancePastRest
  <2>1. at' \in Places
    BY <1>10 DEF AdvancePastRest, Goto, Places, Before, Running, Raised
  <2>2. StoreOK'
    <3>1. ckpt' = [kept |-> TRUE, iter |-> iter + 1, streak |-> streak', run |-> Len(runs)]
      BY <1>10 DEF AdvancePastRest, Advance
    <3>2. streak' \in Nat /\ Len(runs) \in Nat
      BY <1>10, LenProperties DEF AdvancePastRest, Count, LoopOK, StoreOK
    <3> QED
      BY <1>10, <3>1, <3>2 DEF AdvancePastRest, StoreOK, LoopOK
  <2>3. LoopOK'
    BY <1>10 DEF AdvancePastRest, Count, Advance, LoopOK
  <2>4. HistoryOK'
    BY <1>10 DEF AdvancePastRest, Count, HistoryOK
  <2>5. BoardKnown'
    BY <1>10 DEF AdvancePastRest, BoardKnown, store, loop, round
  <2>6. StatusKnown'
    BY <1>10 DEF AdvancePastRest, StatusKnown, Goto, ending
  <2> QED
    BY <1>10, <2>1, <2>2, <2>3, <2>4, <2>5, <2>6, Untouched DEF AdvancePastRest
<1>11. CASE RoundClosed
  <2>1. at' \in Places
    BY <1>11 DEF RoundClosed, Goto, Places, Before, Running, Raised
  <2>2. RigOK'
    BY <1>11 DEF RoundClosed, RigOK, LoopOK
  <2>3. EndingOK'
    BY <1>11 DEF RoundClosed, EndingOK, LoopOK
  <2>4. BoardKnown'
    BY <1>11 DEF RoundClosed, BoardKnown, store, loop, round
  <2>5. StatusKnown'
    BY <1>11 DEF RoundClosed, StatusKnown, Goto, ending
  <2> QED
    BY <1>11, <2>1, <2>2, <2>3, <2>4, <2>5, Untouched DEF RoundClosed
<1> QED
  BY <1>1, <1>2, <1>3, <1>4, <1>5, <1>6, <1>7, <1>8, <1>9, <1>10, <1>11 DEF Loop

\* So do the parks, the closing of the row and the way out.
LEMMA TypeEnd ==
  ASSUME TypeInv, End
  PROVE  TypeInv'
<1> USE DEF TypeInv, TypeOK
<1>1. CASE LoopPark
  <2>1. at' \in Places
    BY <1>1 DEF LoopPark, Goto, Places, Before, Running, Raised
  <2>2. RigOK'
    BY <1>1, ParkType DEF LoopPark, RigOK
  <2>3. EndingOK'
    BY <1>1 DEF LoopPark, EndingOK
  <2>4. BoardKnown'
    BY <1>1 DEF LoopPark, BoardKnown, store, loop, round
  <2>5. StatusKnown'
    BY <1>1 DEF LoopPark, StatusKnown, Goto, ending
  <2> QED
    BY <1>1, <2>1, <2>2, <2>3, <2>4, <2>5, Untouched DEF LoopPark
<1>2. CASE AnnouncePark
  <2>1. at' \in Places
    BY <1>2 DEF AnnouncePark, Goto, Places, Before, Running, Raised
  <2>2. EndingOK'
    BY <1>2 DEF AnnouncePark, EndingOK
  <2>3. HistoryOK'
    BY <1>2 DEF AnnouncePark, HistoryOK
  <2>4. BoardKnown'
    BY <1>2 DEF AnnouncePark, BoardKnown, store, loop, round
  <2>5. StatusKnown'
    BY <1>2 DEF AnnouncePark, StatusKnown, Goto, ending
  <2> QED
    BY <1>2, <2>1, <2>2, <2>3, <2>4, <2>5, Untouched DEF AnnouncePark
<1>3. CASE FinalizeRun
  <2>1. at' \in Places
    BY <1>3 DEF FinalizeRun, Goto, Places, Before, Running, Raised
  <2>2. StoreOK'
    <3>1. Finalize(status) /\ status \in Closed
      BY <1>3 DEF FinalizeRun, Closed, StatusKnown, EndingOK
    <3> QED
      BY <1>3, <3>1, FinalizeType DEF FinalizeRun, StoreOK
  <2>3. EndingOK'
    BY <1>3 DEF FinalizeRun, Finalize, EndingOK
  <2>4. HistoryOK'
    BY <1>3 DEF FinalizeRun, HistoryOK
  <2>5. BoardKnown'
    BY <1>3 DEF FinalizeRun, BoardKnown, store, loop, round
  <2>6. StatusKnown'
    BY <1>3 DEF FinalizeRun, StatusKnown, Goto, ending
  <2> QED
    BY <1>3, <2>1, <2>2, <2>3, <2>4, <2>5, <2>6, Untouched DEF FinalizeRun
<1>4. CASE ClearCheckpoint
  <2>1. at' \in Places
    BY <1>4 DEF ClearCheckpoint, Goto, Places, Before, Running, Raised
  <2>2. StoreOK'
    BY <1>4 DEF ClearCheckpoint, StoreOK
  <2>3. BoardKnown'
    BY <1>4 DEF ClearCheckpoint, BoardKnown, store, loop, round
  <2>4. StatusKnown'
    BY <1>4 DEF ClearCheckpoint, StatusKnown, Goto, ending
  <2> QED
    BY <1>4, <2>1, <2>2, <2>3, <2>4, Untouched DEF ClearCheckpoint
<1>5. CASE CatchAll
  <2>1. at' \in Places
    BY <1>5 DEF CatchAll, Goto, Places, Before, Running, Raised
  <2>2. RigOK'
    BY <1>5, ParkType DEF CatchAll, RigOK
  <2>3. SessionOK'
    BY <1>5 DEF CatchAll, SessionOK
  <2>4. BoardKnown'
    BY <1>5 DEF CatchAll, BoardKnown, store, loop, round
  <2>5. StatusKnown'
    BY <1>5 DEF CatchAll, StatusKnown, Goto, ending
  <2> QED
    BY <1>5, <2>1, <2>2, <2>3, <2>4, <2>5, Untouched DEF CatchAll
<1>6. CASE ReportPark
  <2>1. at' \in Places
    BY <1>6 DEF ReportPark, Goto, Places, Before, Running, Raised
  <2>2. HistoryOK'
    BY <1>6 DEF ReportPark, HistoryOK
  <2>3. BoardKnown'
    BY <1>6 DEF ReportPark, BoardKnown, store, loop, round
  <2>4. StatusKnown'
    BY <1>6 DEF ReportPark, StatusKnown, Goto, ending
  <2> QED
    BY <1>6, <2>1, <2>2, <2>3, <2>4, Untouched DEF ReportPark
<1>7. CASE FinalizeFailed
  <2>1. at' \in Places
    BY <1>7 DEF FinalizeFailed, Goto, Places, Before, Running, Raised
  <2>2. StoreOK'
    <3>1. Finalize("error") /\ "error" \in Closed
      BY <1>7 DEF FinalizeFailed, Closed
    <3> QED
      BY <1>7, <3>1, FinalizeType DEF FinalizeFailed, StoreOK
  <2>3. EndingOK'
    BY <1>7 DEF FinalizeFailed, Finalize, EndingOK
  <2>4. BoardKnown'
    BY <1>7 DEF FinalizeFailed, BoardKnown, store, loop, round
  <2>5. StatusKnown'
    BY <1>7 DEF FinalizeFailed, StatusKnown, Goto, ending
  <2> QED
    BY <1>7, <2>1, <2>2, <2>3, <2>4, <2>5, Untouched DEF FinalizeFailed
<1>8. CASE TearDown
  <2>1. at' \in Places
    BY <1>8 DEF TearDown, Goto, Places, Before, Running, Raised
  <2>2. StoreOK'
    <3>1. Finalize("error") /\ "error" \in Closed
      BY <1>8 DEF TearDown, Closed
    <3> QED
      BY <1>8, <3>1, FinalizeType DEF TearDown, StoreOK
  <2>3. EndingOK'
    BY <1>8 DEF TearDown, Finalize, EndingOK
  <2>4. BoardKnown'
    BY <1>8 DEF TearDown, BoardKnown, store, loop, round
  <2>5. StatusKnown'
    BY <1>8 DEF TearDown, StatusKnown, Goto, ending
  <2> QED
    BY <1>8, <2>1, <2>2, <2>3, <2>4, <2>5, Untouched DEF TearDown
<1>9. CASE UnwindCaller
  <2>1. at' \in Places
    BY <1>9 DEF UnwindCaller, Goto, Places, Before, Running, Raised
  <2>2. RigOK'
    BY <1>9, ParkType DEF UnwindCaller, RigOK
  <2>3. SessionOK'
    BY <1>9 DEF UnwindCaller, SessionOK
  <2>4. BoardKnown'
    BY <1>9 DEF UnwindCaller, BoardKnown, store, loop, round
  <2>5. StatusKnown'
    BY <1>9 DEF UnwindCaller, StatusKnown, Goto, ending
  <2> QED
    BY <1>9, <2>1, <2>2, <2>3, <2>4, <2>5, Untouched DEF UnwindCaller
<1>10. CASE Disconnect
  <2>1. at' \in Places
    BY <1>10 DEF Disconnect, Goto, Places, Before, Running, Raised
  <2>2. RigOK'
    BY <1>10 DEF Disconnect, RigOK
  <2>3. BoardKnown'
    BY <1>10 DEF Disconnect, BoardKnown, store, loop, round
  <2>4. StatusKnown'
    BY <1>10 DEF Disconnect, StatusKnown, Goto, ending
  <2> QED
    BY <1>10, <2>1, <2>2, <2>3, <2>4, Untouched DEF Disconnect
<1> QED
  BY <1>1, <1>2, <1>3, <1>4, <1>5, <1>6, <1>7, <1>8, <1>9, <1>10 DEF End

\* So do a changed plate and a session cut short.
LEMMA TypeFault ==
  ASSUME TypeInv, ReplacePlate \/ Kill \/ Signal \/ Raise
  PROVE  TypeInv'
<1> USE DEF TypeInv, TypeOK
<1>1. CASE ReplacePlate
  <2>1. at' \in Places
    BY <1>1 DEF ReplacePlate, Goto, Places, Before, Running, Raised
  <2>2. RigOK'
    BY <1>1, SizesAssumption DEF ReplacePlate, RigOK
  <2>3. BoardKnown'
    BY <1>1 DEF ReplacePlate, BoardKnown, store, loop, round
  <2>4. StatusKnown'
    BY <1>1 DEF ReplacePlate, StatusKnown, Goto, ending
  <2> QED
    BY <1>1, <2>1, <2>2, <2>3, <2>4, Untouched DEF ReplacePlate
<1>2. CASE Kill
  <2>1. at' \in Places
    BY <1>2 DEF Kill, Goto, Places, Before, Running, Raised
  <2>2. RigOK'
    BY <1>2 DEF Kill, RigOK
  <2>3. LoopOK'
    BY <1>2, LeavesType DEF Kill, LoopOK
  <2>4. HistoryOK'
    BY <1>2, LeavesType DEF Kill, HistoryOK
  <2>5. BoardKnown'
    BY <1>2 DEF Kill, BoardKnown, store, loop, round
  <2>6. StatusKnown'
    BY <1>2 DEF Kill, StatusKnown, Goto, ending
  <2> QED
    BY <1>2, <2>1, <2>2, <2>3, <2>4, <2>5, <2>6, Untouched DEF Kill
<1>3. CASE Signal
  <2>1. at' \in Places
    BY <1>3, UnwindPlace DEF Signal, Goto, Places, Before, Running
  <2>2. RigOK'
    BY <1>3, ParkType DEF Signal, Handler, RigOK
  <2>3. SessionOK'
    BY <1>3 DEF Signal, Handler, SessionOK
  <2>4. LoopOK'
    BY <1>3, LeavesType DEF Signal, LoopOK
  <2>5. EndingOK'
    BY <1>3 DEF Signal, EndingOK
  <2>6. HistoryOK'
    BY <1>3, LeavesType DEF Signal, HistoryOK
  <2>7. BoardKnown'
    BY <1>3 DEF Signal, BoardKnown, store, loop, round
  <2>8. StatusKnown'
    <3>1. at' = Unwind(at) /\ at \in Places
      BY <1>3 DEF Signal, Goto
    <3> QED
      BY <3>1, UnwindPlace DEF StatusKnown, Raised
  <2> QED
    BY <1>3, <2>1, <2>2, <2>3, <2>4, <2>5, <2>6, <2>7, <2>8, Untouched DEF Signal
<1>4. CASE Raise
  <2>1. at' \in Places
    BY <1>4, UnwindPlace DEF Raise, Goto, Places, Before, Running
  <2>2. SessionOK'
    BY <1>4 DEF Raise, SessionOK
  <2>3. LoopOK'
    BY <1>4, LeavesType DEF Raise, LoopOK
  <2>4. HistoryOK'
    BY <1>4, LeavesType DEF Raise, HistoryOK
  <2>5. BoardKnown'
    BY <1>4 DEF Raise, BoardKnown, store, loop, round
  <2>6. StatusKnown'
    <3>1. at' = Unwind(at) /\ at \in Places
      BY <1>4 DEF Raise, Goto
    <3> QED
      BY <3>1, UnwindPlace DEF StatusKnown, Raised
  <2> QED
    BY <1>4, <2>1, <2>2, <2>3, <2>4, <2>5, <2>6, Untouched DEF Raise
<1> QED
  BY <1>1, <1>2, <1>3, <1>4

--------------------------------------------------------------------------------
(* A rig left driven is not forgotten.                                     *)

\* From its start until it is closed the run's row is open.
RowOpen ==
  /\ at \in Before => ~finalized
  /\ at \in Running \ {"clearing"} => ~finalized /\ Len(runs) \in Unfinished

\* The instruments are connected whenever something could drive them.
SessionsKnown == connected <=> at \notin {"off", "connecting"}

\* The guard's park is taken only on the way out, and then it took; a session that
\* cannot park any more has parked.
GuardKnown ==
  /\ claimed => at \in Raised \cup {"off"}
  /\ claimed /\ at \in Raised => ~hot
  /\ at # "off" => armed \/ claimed

\* The loop parks at the end of a run; an exception on its way out of that park is a
\* signal's, whose handler has parked.
LoopParkKnown ==
  /\ at \in (Before \cup Running) \ {"parking", "announcing", "finalizing", "clearing"} =>
       ~loopParked
  /\ at = "raised" /\ loopParked => claimed

\* A launch recovers what it finds.
OwedKnown == at = "connecting" => owed = Unfinished

\* Only a trial, and what may still park it, leaves the rig driven and nobody told.
DrivenKnown ==
  hot /\ ~told =>
    at \in {"off", "connecting", "alerting", "trial", "parking", "raised"} /\ Unfinished # {}

DrivenInv == RowOpen /\ SessionsKnown /\ GuardKnown /\ LoopParkKnown /\ OwedKnown /\ DrivenKnown

\* Rows that are not written are as open as before.
LEMMA SameRows == UNCHANGED runs => UNCHANGED Unfinished /\ Len(runs') = Len(runs)
BY DEF Unfinished

\* A launch finds the open rows, and parks before it closes over them.
LEMMA DrivenStart ==
  ASSUME ParksTake, TypeInv, DrivenInv, Start
  PROVE  DrivenInv'
<1> USE DEF DrivenInv, RowOpen, SessionsKnown, GuardKnown, LoopParkKnown, OwedKnown, DrivenKnown
<1> USE SameRows DEF Goto, Before, Running, Raised
<1> USE DEF store, rig, session, ending, history, TypeInv, TypeOK, RigOK, ParksTake
<1>1. ASSUME NEW r \in BOOLEAN, Launch(r) PROVE DrivenInv'
  BY <1>1 DEF Launch
<1>2. CASE ConnectAll
  BY <1>2 DEF ConnectAll
<1>3. CASE RecordAlert
  BY <1>3 DEF RecordAlert
<1>4. CASE MarkInterrupted
  BY <1>4 DEF MarkInterrupted
<1>5. CASE RecoveryPark
  BY <1>5 DEF RecoveryPark, SafePark
<1>6. CASE StartRun
  <2>1. runs' = Append(runs, "running") /\ at' = "resuming" /\ at = "starting"
    BY <1>6 DEF StartRun
  <2>2. Len(runs') \in Unfinished'
    BY <2>1, LenProperties, AppendProperties DEF Unfinished, TypeInv, TypeOK, StoreOK
  <2>3. UNCHANGED <<hot, told, connected, armed, claimed, finalized, loopParked>>
    BY <1>6 DEF StartRun, rig, session, ending, history
  <2> QED
    BY <2>1, <2>2, <2>3
<1>7. CASE LoadResumePlan
  BY <1>7 DEF LoadResumePlan
<1>8. CASE PrepareAllocator
  BY <1>8 DEF PrepareAllocator
<1>9. CASE BoardCheckCancelled
  BY <1>9 DEF BoardCheckCancelled
<1> QED
  BY <1>1, <1>2, <1>3, <1>4, <1>5, <1>6, <1>7, <1>8, <1>9 DEF Start

\* Only a trial drives the rig, under an open row.
LEMMA DrivenLoop ==
  ASSUME ParksTake, TypeInv, DrivenInv, Loop
  PROVE  DrivenInv'
<1> USE DEF DrivenInv, RowOpen, SessionsKnown, GuardKnown, LoopParkKnown, OwedKnown, DrivenKnown
<1> USE SameRows DEF Goto, Before, Running, Raised
<1> USE DEF store, rig, session, ending, history, TypeInv, TypeOK, RigOK, ParksTake
<1>1. ASSUME NEW s \in {"stopped", "converged"}, LoopEnds(s) PROVE DrivenInv'
  BY <1>1 DEF LoopEnds
<1>2. CASE FitPlate
  BY <1>2 DEF FitPlate
<1>3. CASE PersistBoard
  BY <1>3 DEF PersistBoard
<1>4. CASE StartTrial
  BY <1>4 DEF StartTrial
<1>5. ASSUME NEW e \in Electrode, BeginCast(e) PROVE DrivenInv'
  BY <1>5 DEF BeginCast
<1>6. CASE EndCast
  BY <1>6 DEF EndCast
<1>7. ASSUME NEW place \in {"closing", "failing", "parking"}, TrialOver(place) PROVE DrivenInv'
  BY <1>7 DEF TrialOver
<1>8. ASSUME NEW failed \in BOOLEAN, CloseWell(failed) PROVE DrivenInv'
  BY <1>8 DEF CloseWell, Count, Advance
<1>9. CASE CloseFailedRound
  BY <1>9 DEF CloseFailedRound, Count, Advance
<1>10. CASE AdvancePastRest
  BY <1>10 DEF AdvancePastRest, Advance
<1>11. CASE RoundClosed
  BY <1>11 DEF RoundClosed
<1> QED
  BY <1>1, <1>2, <1>3, <1>4, <1>5, <1>6, <1>7, <1>8, <1>9, <1>10, <1>11 DEF Loop

\* The row is closed after the park, or the alert.
LEMMA DrivenEnd ==
  ASSUME ParksTake, TypeInv, DrivenInv, End
  PROVE  DrivenInv'
<1> USE DEF DrivenInv, RowOpen, SessionsKnown, GuardKnown, LoopParkKnown, OwedKnown, DrivenKnown
<1> USE SameRows DEF Goto, Before, Running, Raised
<1> USE DEF store, rig, session, ending, history, TypeInv, TypeOK, RigOK, ParksTake
<1>1. CASE LoopPark
  <2>0. {FALSE} \cup {EventsRaise} = {FALSE}
    BY ChoicesAssumption DEF ParksTake
  <2>1. at = "parking" /\ at' = "announcing" /\ SafePark
    BY <1>1, <2>0 DEF LoopPark
  <2>2. UNCHANGED <<runs, told, connected, armed, claimed, finalized, loopParked>>
    BY <1>1 DEF LoopPark, store, session, history
  <2>3. ~hot'
    BY <2>1 DEF SafePark, ParksTake
  <2> QED
    BY <2>1, <2>2, <2>3, SameRows
<1>2. CASE AnnouncePark
  BY <1>2 DEF AnnouncePark
<1>3. CASE FinalizeRun
  BY <1>3 DEF FinalizeRun, Finalize
<1>4. CASE ClearCheckpoint
  BY <1>4 DEF ClearCheckpoint
<1>5. CASE CatchAll
  BY <1>5 DEF CatchAll, SafePark
<1>6. CASE ReportPark
  BY <1>6 DEF ReportPark
<1>7. CASE FinalizeFailed
  BY <1>7 DEF FinalizeFailed, Finalize
<1>8. CASE TearDown
  BY <1>8 DEF TearDown, Finalize
<1>9. CASE UnwindCaller
  BY <1>9 DEF UnwindCaller, SafePark
<1>10. CASE Disconnect
  BY <1>10 DEF Disconnect
<1> QED
  BY <1>1, <1>2, <1>3, <1>4, <1>5, <1>6, <1>7, <1>8, <1>9, <1>10 DEF End

\* A killed session leaves its row open; a signal parks first.
LEMMA DrivenFault ==
  ASSUME ParksTake, TypeInv, DrivenInv, ReplacePlate \/ Kill \/ Signal \/ Raise
  PROVE  DrivenInv'
<1> USE DEF DrivenInv, RowOpen, SessionsKnown, GuardKnown, LoopParkKnown, OwedKnown, DrivenKnown
<1> USE SameRows DEF Goto, Before, Running, Raised
<1> USE DEF store, rig, session, ending, history, TypeInv, TypeOK, RigOK, ParksTake
<1>1. CASE ReplacePlate
  BY <1>1 DEF ReplacePlate
<1>2. CASE Kill
  BY <1>2 DEF Kill, Leaves
<1>3. CASE Signal
  <2>1. /\ at' = Unwind(at) /\ at \in Places /\ at # "off"
        /\ UNCHANGED <<runs, told, connected, owed, loopParked>>
    BY <1>3 DEF Signal, store, TypeInv, TypeOK
  <2>2. /\ at' \in {"off"} \cup Raised
        /\ at' = "raised" <=> at \in Running
        /\ at' = "off" <=> at = "connecting"
    BY <1>3, <2>1, UnwindPlace DEF Signal
  <2>3. /\ claimed' /\ ~armed'
        /\ connected => ~hot'
        /\ hot' => hot
    BY <1>3 DEF Signal, Handler, SafePark, ParksTake, TypeInv, TypeOK, RigOK
  <2>4. RowOpen' /\ OwedKnown'
    BY <2>1, <2>2
  <2>5. SessionsKnown'
    BY <1>3, <2>1, <2>2 DEF Signal
  <2>6. GuardKnown' /\ LoopParkKnown'
    BY <2>1, <2>2, <2>3
  <2>7. DrivenKnown'
    BY <2>1, <2>2, <2>3, SameRows
  <2> QED
    BY <2>4, <2>5, <2>6, <2>7
<1>4. CASE Raise
  <2>1. /\ at' = Unwind(at) /\ at \in Places
        /\ at \in {"connecting", "starting", "resuming", "boarding", "round", "trial", "closing"}
        /\ UNCHANGED <<runs, hot, told, connected, armed, claimed, finalized, loopParked>>
    BY <1>4 DEF Raise, store, rig, ending, TypeInv, TypeOK
  <2>2. /\ at' \in {"off"} \cup Raised
        /\ at' = "raised" <=> at \in Running
        /\ at' = "off" <=> at = "connecting"
    BY <2>1, UnwindPlace
  <2>3. RowOpen' /\ OwedKnown'
    BY <2>1, <2>2
  <2>4. SessionsKnown'
    BY <2>1, <2>2
  <2>5. GuardKnown' /\ LoopParkKnown'
    BY <2>1, <2>2
  <2>6. DrivenKnown'
    BY <2>1, <2>2, SameRows
  <2> QED
    BY <2>3, <2>4, <2>5, <2>6
<1> QED
  BY <1>1, <1>2, <1>3, <1>4

\* The invariant holds at the start, in every step, and says more than the property.
THEOREM TypeCorrect == Spec => []TypeInv
<1>1. Init => TypeInv
  BY TypeInit DEF TypeInv, Init, BoardKnown, StatusKnown
<1>2. TypeInv /\ [Next]_vars => TypeInv'
  <2> SUFFICES ASSUME TypeInv, [Next]_vars PROVE TypeInv'
    OBVIOUS
  <2>1. CASE Next
    BY <2>1, TypeStart, TypeLoop, TypeEnd, TypeFault DEF Next
  <2>2. CASE UNCHANGED vars
    BY <2>2, Untouched DEF vars, TypeInv, TypeOK, BoardKnown, StatusKnown, store, loop, ending
  <2> QED
    BY <2>1, <2>2
<1> QED
  BY <1>1, <1>2, PTL DEF Spec

\* A rig that is left driven is owed a park by an open row, or an alert says so
\* (park_on_shutdown, record_unclean_shutdown), over any number of launches and faults.
THEOREM LeftDrivenIsOwedHolds == ASSUME ParksTake PROVE Spec => []LeftDrivenIsOwed
<1>1. Init => DrivenInv
  BY DEF Init, DrivenInv, RowOpen, SessionsKnown, GuardKnown, LoopParkKnown, OwedKnown,
         DrivenKnown, Before, Running, Raised
<1>2. TypeInv /\ DrivenInv /\ [Next]_vars => DrivenInv'
  <2> SUFFICES ASSUME TypeInv, DrivenInv, [Next]_vars PROVE DrivenInv'
    OBVIOUS
  <2>1. CASE Next
    BY <2>1, ParksTake, DrivenStart, DrivenLoop, DrivenEnd, DrivenFault DEF Next
  <2>2. CASE UNCHANGED vars
    BY <2>2, SameRows DEF vars, store, rig, session, ending, history, DrivenInv, RowOpen,
       SessionsKnown, GuardKnown, LoopParkKnown, OwedKnown, DrivenKnown
  <2> QED
    BY <2>1, <2>2
<1>3. DrivenInv => LeftDrivenIsOwed
  BY DEF DrivenInv, DrivenKnown, LeftDrivenIsOwed
<1> QED
  BY <1>1, <1>2, <1>3, TypeCorrect, PTL DEF Spec

--------------------------------------------------------------------------------
(* A fault that fails every well is reported.                              *)

\* Wells failed in a row with nobody told are in the resume point, and so is a run
\* that did not end on purpose.
ResumeKnown ==
  inRow > 0 => ckpt.kept /\ inRow <= ckpt.streak /\ ckpt.run \in DOMAIN runs /\ ~Acknowledged

\* A search that starts over starts with none.
RestartKnown == at \in Before \cup {"resuming"} /\ ~resume => inRow = 0

\* The loop counts at least those; the round that reaches the limit is to be parked.
StreakKnown ==
  /\ at \in {"boarding", "round", "fitted", "trial", "closing", "failing", "advancing"} =>
       inRow <= streak
  /\ at \in {"closing", "advancing"} /\ inRow >= FailureLimit => due \/ cut

\* Elsewhere the limit is not reached, or a session was cut short there.
LimitKnown ==
  /\ at \notin {"closing", "advancing", "parking", "announcing", "finalizing"} =>
       inRow < FailureLimit \/ cut
  /\ at = "clearing" => inRow = 0

EscalationInv == ResumeKnown /\ RestartKnown /\ StreakKnown /\ LimitKnown

\* What the resume point says of the run that wrote it depends on the rows alone.
LEMMA SameResume ==
  UNCHANGED <<runs, ckpt>> => UNCHANGED Acknowledged
BY DEF Acknowledged

\* A checkpoint names the run that writes it, which is still open.
LEMMA Checkpointed ==
  ASSUME RowOpen, Advance, UNCHANGED runs, at \in {"closing", "failing", "advancing"}
  PROVE  /\ ckpt'.kept /\ ckpt'.streak = streak'
         /\ ckpt'.run \in DOMAIN runs' /\ ~Acknowledged'
<1>1. Len(runs) \in DOMAIN runs /\ runs[Len(runs)] = "running"
  BY DEF RowOpen, Running, Unfinished
<1>2. ckpt' = [kept |-> TRUE, iter |-> iter + 1, streak |-> streak', run |-> Len(runs)]
  BY DEF Advance
<1> QED
  BY <1>1, <1>2 DEF Acknowledged

\* A row written or marked over leaves a run that did not end on purpose so.
LEMMA StillUnacknowledged ==
  ASSUME UNCHANGED ckpt, ckpt.run \in DOMAIN runs, ~Acknowledged, DOMAIN runs' = DOMAIN runs,
         runs'[ckpt.run] = runs[ckpt.run] \/ runs'[ckpt.run] \in {"interrupted", "error"}
  PROVE  ckpt'.run \in DOMAIN runs' /\ ~Acknowledged'
BY DEF Acknowledged

\* A resumed search goes on counting, unless the stop was acknowledged.
LEMMA EscalationStart ==
  ASSUME TypeInv, RowOpen, EscalationInv, Start
  PROVE  EscalationInv'
<1> USE SizesAssumption DEF EscalationInv, ResumeKnown, RestartKnown, StreakKnown, LimitKnown
<1> USE SameResume DEF Goto, Before, Running, Raised, TypeInv, TypeOK, LoopOK, HistoryOK
<1> USE DEF store, session, loop, round, history
<1>1. ASSUME NEW r \in BOOLEAN, Launch(r) PROVE EscalationInv'
  BY <1>1 DEF Launch
<1>2. CASE ConnectAll
  BY <1>2 DEF ConnectAll
<1>3. CASE RecordAlert
  BY <1>3 DEF RecordAlert
<1>4. CASE MarkInterrupted
  <2>1. /\ at' = "recovering" /\ at = "marking"
        /\ UNCHANGED <<ckpt, inRow, cut, streak, due, resume>>
    BY <1>4 DEF MarkInterrupted, session, loop, round, history
  <2>2. ASSUME inRow > 0 PROVE ckpt'.run \in DOMAIN runs' /\ ~Acknowledged'
    <3>1. DOMAIN runs' = DOMAIN runs
      BY <1>4 DEF MarkInterrupted
    <3>2. ckpt.run \in DOMAIN runs /\ ~Acknowledged
      BY <2>2
    <3>3. runs'[ckpt.run] \in {runs[ckpt.run], "interrupted"}
      BY <1>4, <3>2 DEF MarkInterrupted
    <3> QED
      BY <2>1, <3>1, <3>2, <3>3, StillUnacknowledged
  <2> QED
    BY <2>1, <2>2
<1>5. CASE RecoveryPark
  BY <1>5 DEF RecoveryPark
<1>6. CASE StartRun
  <2>1. /\ at' = "resuming" /\ at = "starting" /\ runs' = Append(runs, "running")
        /\ UNCHANGED <<ckpt, inRow, cut, streak, due, resume>>
    BY <1>6 DEF StartRun, session, loop, round, history
  <2>2. ASSUME inRow > 0 PROVE ckpt'.run \in DOMAIN runs' /\ ~Acknowledged'
    <3>1. ckpt.run \in DOMAIN runs /\ ~Acknowledged
      BY <2>2
    <3>2. runs \in Seq({"running"} \cup Closed)
      BY DEF StoreOK
    <3>3. ckpt.run \in 1..Len(runs)
      BY <3>1, <3>2, LenProperties
    <3>4. ckpt.run \in DOMAIN runs' /\ runs'[ckpt.run] = runs[ckpt.run]
      BY <2>1, <3>2, <3>3, AppendProperties
    <3> QED
      BY <2>1, <3>1, <3>4 DEF Acknowledged
  <2> QED
    BY <2>1, <2>2
<1>7. CASE LoadResumePlan
  <2>1. /\ at' = "boarding" /\ at = "resuming"
        /\ UNCHANGED <<ckpt, runs, inRow, cut, resume>>
    BY <1>7 DEF LoadResumePlan, store, session, history
  <2>2. inRow <= streak'
    <3>1. CASE inRow = 0
      <4>1. streak' \in {0, ckpt.streak}
        BY <1>7 DEF LoadResumePlan
      <4> QED
        BY <3>1, <4>1 DEF StoreOK
    <3>2. CASE inRow > 0
      <4>1. resume /\ ckpt.kept /\ ~Acknowledged
        BY <3>2, <2>1
      <4>2. streak' = ckpt.streak
        BY <1>7, <4>1 DEF LoadResumePlan
      <4> QED
        BY <3>2, <4>2
    <3> QED
      BY <3>1, <3>2
  <2>3. UNCHANGED Acknowledged
    BY <2>1, SameResume
  <2> QED
    BY <2>1, <2>2, <2>3
<1>8. CASE PrepareAllocator
  BY <1>8 DEF PrepareAllocator
<1>9. CASE BoardCheckCancelled
  BY <1>9 DEF BoardCheckCancelled
<1> QED
  BY <1>1, <1>2, <1>3, <1>4, <1>5, <1>6, <1>7, <1>8, <1>9 DEF Start

\* A failed well is counted with the checkpoint that remembers it.
LEMMA EscalationLoop ==
  ASSUME TypeInv, RowOpen, EscalationInv, Loop
  PROVE  EscalationInv'
<1> USE SizesAssumption DEF EscalationInv, ResumeKnown, RestartKnown, StreakKnown, LimitKnown
<1> USE SameResume DEF Goto, Before, Running, Raised, TypeInv, TypeOK, LoopOK, HistoryOK
<1> USE DEF store, session, loop, round, history
<1>1. ASSUME NEW s \in {"stopped", "converged"}, LoopEnds(s) PROVE EscalationInv'
  BY <1>1 DEF LoopEnds
<1>2. CASE FitPlate
  BY <1>2 DEF FitPlate
<1>3. CASE PersistBoard
  BY <1>3 DEF PersistBoard
<1>4. CASE StartTrial
  BY <1>4 DEF StartTrial
<1>5. ASSUME NEW e \in Electrode, BeginCast(e) PROVE EscalationInv'
  BY <1>5 DEF BeginCast
<1>6. CASE EndCast
  BY <1>6 DEF EndCast
<1>7. ASSUME NEW place \in {"closing", "failing", "parking"}, TrialOver(place) PROVE EscalationInv'
  BY <1>7 DEF TrialOver
<1>8. ASSUME NEW failed \in BOOLEAN, CloseWell(failed) PROVE EscalationInv'
  <2>1. /\ at = "closing" /\ at' = "closing" /\ Advance
        /\ UNCHANGED <<runs, cut, resume>>
    BY <1>8 DEF CloseWell, session
  <2>2. /\ inRow' <= streak' /\ (inRow' >= FailureLimit => due' \/ cut')
    BY <1>8, <2>1 DEF CloseWell, Count
  <2>3. ckpt'.kept /\ ckpt'.streak = streak' /\ ckpt'.run \in DOMAIN runs' /\ ~Acknowledged'
    BY <2>1, Checkpointed
  <2> QED
    BY <2>1, <2>2, <2>3
<1>9. CASE CloseFailedRound
  <2>1. /\ at = "failing" /\ at' = "advancing" /\ Advance
        /\ UNCHANGED <<runs, cut, resume>>
    BY <1>9 DEF CloseFailedRound, session
  <2>2. /\ inRow' <= streak' /\ (inRow' >= FailureLimit => due' \/ cut')
    <3>1. inRow <= streak /\ inRow' = inRow + 1 /\ streak' = streak + 1
      BY <1>9, <2>1 DEF CloseFailedRound, Count
    <3>2. streak + 1 >= FailureLimit => due'
      BY <1>9 DEF CloseFailedRound, Count
    <3> QED
      BY <3>1, <3>2
  <2>3. ckpt'.kept /\ ckpt'.streak = streak' /\ ckpt'.run \in DOMAIN runs' /\ ~Acknowledged'
    BY <2>1, Checkpointed
  <2> QED
    BY <2>1, <2>2, <2>3
<1>10. CASE AdvancePastRest
  <2>1. /\ at = "advancing" /\ at' = "advancing" /\ Advance
        /\ UNCHANGED <<runs, cut, resume>>
    BY <1>10 DEF AdvancePastRest, session
  <2>2. /\ inRow' <= streak' /\ (inRow' >= FailureLimit => due' \/ cut')
    BY <1>10, <2>1 DEF AdvancePastRest
  <2>3. ckpt'.kept /\ ckpt'.streak = streak' /\ ckpt'.run \in DOMAIN runs' /\ ~Acknowledged'
    BY <2>1, Checkpointed
  <2> QED
    BY <2>1, <2>2, <2>3
<1>11. CASE RoundClosed
  BY <1>11 DEF RoundClosed
<1> QED
  BY <1>1, <1>2, <1>3, <1>4, <1>5, <1>6, <1>7, <1>8, <1>9, <1>10, <1>11 DEF Loop

\* Only an announced park, and the end of a search, clear the count.
LEMMA EscalationEnd ==
  ASSUME TypeInv, RowOpen, EscalationInv, End
  PROVE  EscalationInv'
<1> USE SizesAssumption DEF EscalationInv, ResumeKnown, RestartKnown, StreakKnown, LimitKnown
<1> USE SameResume DEF Goto, Before, Running, Raised, TypeInv, TypeOK, LoopOK, HistoryOK
<1> USE DEF store, session, loop, round, history
<1>1. CASE LoopPark
  BY <1>1 DEF LoopPark
<1>2. CASE AnnouncePark
  BY <1>2 DEF AnnouncePark
<1>3. CASE FinalizeRun
  BY <1>3 DEF FinalizeRun
<1>4. CASE ClearCheckpoint
  BY <1>4 DEF ClearCheckpoint
<1>5. CASE CatchAll
  BY <1>5 DEF CatchAll
<1>6. CASE ReportPark
  BY <1>6 DEF ReportPark
<1>7. CASE FinalizeFailed
  <2>1. /\ at = "failed" /\ at' = "teardown" /\ Finalize("error")
        /\ UNCHANGED <<ckpt, inRow, cut, resume>>
    BY <1>7 DEF FinalizeFailed, session, loop, round, history
  <2>2. ASSUME inRow > 0 PROVE ckpt'.run \in DOMAIN runs' /\ ~Acknowledged'
    <3>1. ckpt.run \in DOMAIN runs /\ ~Acknowledged
      BY <2>2
    <3>2. DOMAIN runs' = DOMAIN runs /\ runs'[ckpt.run] \in {runs[ckpt.run], "error"}
      BY <2>1, <3>1 DEF Finalize
    <3> QED
      BY <2>1, <3>1, <3>2, StillUnacknowledged
  <2> QED
    BY <2>1, <2>2
<1>8. CASE TearDown
  <2>1. /\ at = "teardown" /\ at' \in {"unwinding", "disconnecting"} /\ Finalize("error")
        /\ UNCHANGED <<ckpt, inRow, cut, resume>>
    BY <1>8 DEF TearDown, session, loop, round, history
  <2>2. ASSUME inRow > 0 PROVE ckpt'.run \in DOMAIN runs' /\ ~Acknowledged'
    <3>1. ckpt.run \in DOMAIN runs /\ ~Acknowledged
      BY <2>2
    <3>2. DOMAIN runs' = DOMAIN runs /\ runs'[ckpt.run] \in {runs[ckpt.run], "error"}
      BY <2>1, <3>1 DEF Finalize
    <3> QED
      BY <2>1, <3>1, <3>2, StillUnacknowledged
  <2> QED
    BY <2>1, <2>2
<1>9. CASE UnwindCaller
  BY <1>9 DEF UnwindCaller
<1>10. CASE Disconnect
  BY <1>10 DEF Disconnect
<1> QED
  BY <1>1, <1>2, <1>3, <1>4, <1>5, <1>6, <1>7, <1>8, <1>9, <1>10 DEF End

\* A session cut short leaves the count in its checkpoint.
LEMMA EscalationFault ==
  ASSUME TypeInv, RowOpen, EscalationInv, ReplacePlate \/ Kill \/ Signal \/ Raise
  PROVE  EscalationInv'
<1> USE SizesAssumption DEF EscalationInv, ResumeKnown, RestartKnown, StreakKnown, LimitKnown
<1> USE SameResume DEF Goto, Before, Running, Raised, TypeInv, TypeOK, LoopOK, HistoryOK
<1> USE DEF store, session, loop, round, history
<1>1. CASE ReplacePlate
  BY <1>1 DEF ReplacePlate
<1>2. CASE Kill
  <2>1. at # "off" /\ at' = "off" /\ Leaves
    BY <1>2 DEF Kill
  <2>2. UNCHANGED <<runs, ckpt, inRow, streak, due, resume>>
    BY <1>2 DEF Kill, store, session, loop, round
  <2>3. UNCHANGED Acknowledged
    BY <2>2, SameResume
  <2>4. cut' = (cut \/ (at \in Running \cup Raised /\ inRow >= FailureLimit))
    BY <2>1 DEF Leaves
  <2>5. at' \notin Before \cup Running /\ at' # "clearing"
    BY <2>1
  <2>6. at \in Places
    OBVIOUS
  <2>7. inRow < FailureLimit \/ cut'
    <3>1. CASE at \in Running
      <4>1. inRow >= FailureLimit => cut'
        BY <2>4, <3>1
      <4> QED
        BY <4>1
    <3>2. CASE at \notin Running
      <4>1. inRow < FailureLimit \/ cut
        BY <3>2
      <4> QED
        BY <4>1, <2>4
    <3> QED
      BY <3>1, <3>2
  <2> QED
    BY <2>2, <2>3, <2>5, <2>7
<1>3. CASE Signal
  <2>1. at # "off" /\ at' = Unwind(at) /\ Leaves
    BY <1>3 DEF Signal
  <2>2. UNCHANGED <<runs, ckpt, inRow, streak, due, resume>>
    BY <1>3 DEF Signal, store, session, loop, round
  <2>3. UNCHANGED Acknowledged
    BY <2>2, SameResume
  <2>4. cut' = (cut \/ (at \in Running \cup Raised /\ inRow >= FailureLimit))
    BY <2>1 DEF Leaves
  <2>5. at' \notin Before \cup Running /\ at' # "clearing"
    BY <2>1, UnwindPlace
  <2>6. at \in Places
    OBVIOUS
  <2>7. inRow < FailureLimit \/ cut'
    <3>1. CASE at \in Running
      <4>1. inRow >= FailureLimit => cut'
        BY <2>4, <3>1
      <4> QED
        BY <4>1
    <3>2. CASE at \notin Running
      <4>1. inRow < FailureLimit \/ cut
        BY <3>2
      <4> QED
        BY <4>1, <2>4
    <3> QED
      BY <3>1, <3>2
  <2> QED
    BY <2>2, <2>3, <2>5, <2>7
<1>4. CASE Raise
  <2>1. at # "off" /\ at' = Unwind(at) /\ Leaves
    BY <1>4 DEF Raise
  <2>2. UNCHANGED <<runs, ckpt, inRow, streak, due, resume>>
    BY <1>4 DEF Raise, store, session, loop, round
  <2>3. UNCHANGED Acknowledged
    BY <2>2, SameResume
  <2>4. cut' = (cut \/ (at \in Running \cup Raised /\ inRow >= FailureLimit))
    BY <2>1 DEF Leaves
  <2>5. at' \notin Before \cup Running /\ at' # "clearing"
    BY <2>1, UnwindPlace
  <2>6. at \in Places
    OBVIOUS
  <2>7. inRow < FailureLimit \/ cut'
    <3>1. CASE at \in Running
      <4>1. inRow >= FailureLimit => cut'
        BY <2>4, <3>1
      <4> QED
        BY <4>1
    <3>2. CASE at \notin Running
      <4>1. inRow < FailureLimit \/ cut
        BY <3>2
      <4> QED
        BY <4>1, <2>4
    <3> QED
      BY <3>1, <3>2
  <2> QED
    BY <2>2, <2>3, <2>5, <2>7
<1> QED
  BY <1>1, <1>2, <1>3, <1>4

\* The row of a run stays open until the run is closed, whatever the parks do.
LEMMA RowStep ==
  ASSUME TypeInv, RowOpen, Next
  PROVE  RowOpen'
<1> USE DEF RowOpen, Goto, Before, Running, Raised
<1>1. CASE Start
  <2>1. ASSUME NEW r \in BOOLEAN, Launch(r) PROVE RowOpen'
    BY <2>1, SameRows DEF Launch, store, ending
  <2>2. CASE ConnectAll
    BY <2>2, SameRows DEF ConnectAll, store, ending
  <2>3. CASE RecordAlert
    BY <2>3, SameRows DEF RecordAlert, store, ending
  <2>4. CASE MarkInterrupted
    BY <2>4, SameRows DEF MarkInterrupted, store, ending
  <2>5. CASE RecoveryPark
    BY <2>5, SameRows DEF RecoveryPark, store, ending
  <2>6. CASE StartRun
    <3>1. runs' = Append(runs, "running") /\ at' = "resuming" /\ at = "starting"
      BY <2>6 DEF StartRun
    <3>2. Len(runs') \in Unfinished'
      BY <3>1, LenProperties, AppendProperties DEF Unfinished, TypeInv, TypeOK, StoreOK
    <3>3. UNCHANGED finalized
      BY <2>6 DEF StartRun, ending
    <3> QED
      BY <3>1, <3>2, <3>3
  <2>7. CASE LoadResumePlan
    BY <2>7, SameRows DEF LoadResumePlan, store, ending
  <2>8. CASE PrepareAllocator
    BY <2>8, SameRows DEF PrepareAllocator, store, ending
  <2>9. CASE BoardCheckCancelled
    BY <2>9, SameRows DEF BoardCheckCancelled, store, ending
  <2> QED
    BY <1>1, <2>1, <2>2, <2>3, <2>4, <2>5, <2>6, <2>7, <2>8, <2>9 DEF Start
<1>2. CASE Loop
  <2>1. ASSUME NEW s \in {"stopped", "converged"}, LoopEnds(s) PROVE RowOpen'
    BY <2>1, SameRows DEF LoopEnds, store, ending
  <2>2. CASE FitPlate
    BY <2>2, SameRows DEF FitPlate, store, ending
  <2>3. CASE PersistBoard
    BY <2>3, SameRows DEF PersistBoard, store, ending
  <2>4. CASE StartTrial
    BY <2>4, SameRows DEF StartTrial, store, ending
  <2>5. ASSUME NEW e \in Electrode, BeginCast(e) PROVE RowOpen'
    BY <2>5, SameRows DEF BeginCast, store, ending
  <2>6. CASE EndCast
    BY <2>6, SameRows DEF EndCast, store, ending
  <2>7. ASSUME NEW place \in {"closing", "failing", "parking"}, TrialOver(place) PROVE RowOpen'
    BY <2>7, SameRows DEF TrialOver, store, ending
  <2>8. ASSUME NEW failed \in BOOLEAN, CloseWell(failed) PROVE RowOpen'
    BY <2>8, SameRows DEF CloseWell, Count, Advance, store, ending
  <2>9. CASE CloseFailedRound
    BY <2>9, SameRows DEF CloseFailedRound, Count, Advance, store, ending
  <2>10. CASE AdvancePastRest
    BY <2>10, SameRows DEF AdvancePastRest, Advance, store, ending
  <2>11. CASE RoundClosed
    BY <2>11, SameRows DEF RoundClosed, store, ending
  <2> QED
    BY <1>2, <2>1, <2>2, <2>3, <2>4, <2>5, <2>6, <2>7, <2>8, <2>9, <2>10, <2>11 DEF Loop
<1>3. CASE End
  <2>1. CASE LoopPark
    BY <2>1, SameRows DEF LoopPark, store, ending
  <2>2. CASE AnnouncePark
    BY <2>2, SameRows DEF AnnouncePark, store, ending
  <2>3. CASE FinalizeRun
    BY <2>3, SameRows DEF FinalizeRun, store, ending
  <2>4. CASE ClearCheckpoint
    BY <2>4, SameRows DEF ClearCheckpoint, store, ending
  <2>5. CASE CatchAll
    BY <2>5, SameRows DEF CatchAll, store, ending
  <2>6. CASE ReportPark
    BY <2>6, SameRows DEF ReportPark, store, ending
  <2>7. CASE FinalizeFailed
    BY <2>7, SameRows DEF FinalizeFailed, store, ending
  <2>8. CASE TearDown
    BY <2>8, SameRows DEF TearDown, store, ending
  <2>9. CASE UnwindCaller
    BY <2>9, SameRows DEF UnwindCaller, store, ending
  <2>10. CASE Disconnect
    BY <2>10, SameRows DEF Disconnect, store, ending
  <2> QED
    BY <1>3, <2>1, <2>2, <2>3, <2>4, <2>5, <2>6, <2>7, <2>8, <2>9, <2>10 DEF End
<1>4. CASE ReplacePlate
  BY <1>4, SameRows DEF ReplacePlate, store, ending
<1>5. CASE Kill
  <2>1. at' \in {"off"} \cup Raised
    BY <1>5, UnwindPlace DEF Kill, TypeInv, TypeOK
  <2> QED
    BY <2>1
<1>6. CASE Signal
  <2>1. at' \in {"off"} \cup Raised
    BY <1>6, UnwindPlace DEF Signal, TypeInv, TypeOK
  <2> QED
    BY <2>1
<1>7. CASE Raise
  <2>1. at' \in {"off"} \cup Raised
    BY <1>7, UnwindPlace DEF Raise, TypeInv, TypeOK
  <2> QED
    BY <2>1
<1> QED
  BY <1>1, <1>2, <1>3, <1>4, <1>5, <1>6, <1>7 DEF Next

\* A search that has failed no well yet has none to report.
LEMMA EscalationInit == Init => RowOpen /\ EscalationInv
BY SizesAssumption
   DEF Init, RowOpen, EscalationInv, ResumeKnown, RestartKnown, StreakKnown, LimitKnown,
       Before, Running

\* A fault that fails every well is reported: across kills, signals, restarts and
\* exceptions, whatever the parks do and whatever is raised, no trial starts after
\* park_after_failed_trials wells failed in a row with nobody told, unless a session
\* was cut short exactly there.
THEOREM FaultEscalatesHolds == Spec => []FaultEscalates
<1> DEFINE Inv == TypeInv /\ RowOpen /\ EscalationInv
<1>1. Init => RowOpen /\ EscalationInv
  BY EscalationInit
<1>2. TypeInv /\ RowOpen /\ EscalationInv /\ [Next]_vars => RowOpen' /\ EscalationInv'
  <2> SUFFICES ASSUME TypeInv, RowOpen, EscalationInv, [Next]_vars
               PROVE  RowOpen' /\ EscalationInv'
    OBVIOUS
  <2>1. CASE Next
    BY <2>1, RowStep, EscalationStart, EscalationLoop, EscalationEnd, EscalationFault DEF Next
  <2>2. CASE UNCHANGED vars
    <3>1. UNCHANGED <<runs, ckpt, inRow, cut, streak, due, resume, at, finalized>>
      BY <2>2 DEF vars, store, session, loop, round, ending, history
    <3>2. RowOpen'
      BY <3>1, SameRows DEF RowOpen
    <3>3. EscalationInv'
      BY <3>1, SameResume DEF EscalationInv, ResumeKnown, RestartKnown, StreakKnown, LimitKnown
    <3> QED
      BY <3>2, <3>3
  <2> QED
    BY <2>1, <2>2
<1>3. EscalationInv => FaultEscalates
  BY DEF EscalationInv, LimitKnown, FaultEscalates
<1> QED
  BY <1>1, <1>2, <1>3, TypeCorrect, PTL DEF Spec

--------------------------------------------------------------------------------
(* A well is cast once.                                                    *)

Offering == {"round", "fitted", "trial", "closing", "failing", "advancing"}

\* Plates that were never in the rig are unused, and so is one just fitted.
PlatesKnown ==
  /\ \A p \in 1..LastPlate, e \in Electrode : p > plate => drops[<<p, e>>] = 0
  /\ at = "fitted" => Fresh(plate)

\* A drop on the plate in the rig is written down for board b, or being cast, or was cut
\* short or refused its row.
Recorded(b) ==
  \A e \in Electrode :
    drops[<<plate, e>>] > 0 => \/ <<plate, e>> \in unrecorded
                               \/ <<b, e>> \in occ
                               \/ casting = e

\* It is written down for the active board, where a next session looks, and for the
\* allocator's, which the store may not know yet.
CastWritten == Recorded(CurrentBoard) /\ (at \in Offering => Recorded(board))

\* The allocator is on no board before the active one, and offers none of its used wells,
\* nor those of the round.
OffersUnused ==
  /\ at \in Offering => CurrentBoard <= board /\ \A e \in free : <<board, e>> \notin occ
  /\ at = "trial" => /\ \A e \in todo : <<board, e>> \notin occ
                     /\ free \cap todo = {} /\ casting \notin free \cup todo
  /\ casting # 0 => at = "trial"

CastInv == PlatesKnown /\ CastWritten /\ OffersUnused /\ CastOnceEver

\* An empty rig.
LEMMA CastInit == Init => CastInv
<1> SUFFICES ASSUME Init PROVE CastInv
  OBVIOUS
<1>1. \A w \in Well : drops[w] = 0
  BY DEF Init
<1>2. plate = 1 /\ casting = 0 /\ at = "off"
  BY DEF Init
<1>3. \A p \in 1..LastPlate, e \in Electrode : drops[<<p, e>>] = 0
  BY <1>1 DEF Well
<1>4. 1 \in 1..LastPlate
  BY SizesAssumption
<1>5. \A e \in Electrode : ~(drops[<<plate, e>>] > 0)
  BY <1>2, <1>3, <1>4
<1>6. PlatesKnown /\ CastWritten
  BY <1>2, <1>3, <1>5 DEF PlatesKnown, CastWritten, Recorded, Offering
<1>7. OffersUnused
  BY <1>2 DEF OffersUnused, Offering
<1>8. CastOnceEver
  BY <1>1 DEF CastOnceEver
<1> QED
  BY <1>6, <1>7, <1>8 DEF CastInv

\* A step that casts nothing, writes no well and enters the rounds nowhere.
LEMMA QuietStep ==
  ASSUME CastInv, UNCHANGED <<plate, drops, unrecorded, occ, pointer, board, free, todo, casting>>,
         at' \in Offering => at \in Offering,
         at' = "fitted" => at = "fitted", at' = "trial" => at = "trial",
         at' = at \/ casting = 0
  PROVE  CastInv'
<1>1. PlatesKnown'
  BY DEF CastInv, PlatesKnown, Fresh
<1>2. CurrentBoard' = CurrentBoard
  BY DEF CurrentBoard
<1>3. CastWritten'
  BY <1>2 DEF CastInv, CastWritten, Recorded
<1>4. OffersUnused'
  BY <1>2 DEF CastInv, OffersUnused, Offering
<1>5. CastOnceEver'
  BY DEF CastInv, CastOnceEver
<1> QED
  BY <1>1, <1>3, <1>4, <1>5 DEF CastInv

\* No board beyond the active one has a row.
LEMMA NextBoardUnused ==
  ASSUME TypeInv, NEW b \in Nat, CurrentBoard < b, NEW e \in Electrode
  PROVE  <<b, e>> \notin occ
<1>1. CurrentBoard \in Nat /\ \A w \in occ : w[1] <= CurrentBoard
  BY CurrentIsLast DEF TypeInv, TypeOK
<1> QED
  BY <1>1

\* A plate the operator changed, or the board the next launch goes on with.
LEMMA CastStart ==
  ASSUME PlateChanged, TypeInv, CastInv, Start
  PROVE  CastInv'
<1>1. ASSUME NEW r \in BOOLEAN, Launch(r) PROVE CastInv'
  <2>1. /\ UNCHANGED <<plate, drops, unrecorded, occ, pointer, board, free, todo, casting>>
        /\ at # "trial"
        /\ at' \in Offering => at \in Offering
        /\ at' \notin {"fitted", "trial"}
    BY <1>1 DEF Launch, store, rig, loop, round, history, Goto, Offering
  <2> QED
    BY <2>1, QuietStep DEF CastInv, OffersUnused
<1>2. CASE ConnectAll
  <2>1. /\ UNCHANGED <<plate, drops, unrecorded, occ, pointer, board, free, todo, casting>>
        /\ at # "trial"
        /\ at' \in Offering => at \in Offering
        /\ at' \notin {"fitted", "trial"}
    BY <1>2 DEF ConnectAll, store, rig, loop, round, history, Goto, Offering
  <2> QED
    BY <2>1, QuietStep DEF CastInv, OffersUnused
<1>3. CASE RecordAlert
  <2>1. /\ UNCHANGED <<plate, drops, unrecorded, occ, pointer, board, free, todo, casting>>
        /\ at # "trial"
        /\ at' \in Offering => at \in Offering
        /\ at' \notin {"fitted", "trial"}
    BY <1>3 DEF RecordAlert, store, rig, loop, round, history, Goto, Offering
  <2> QED
    BY <2>1, QuietStep DEF CastInv, OffersUnused
<1>4. CASE MarkInterrupted
  <2>1. /\ UNCHANGED <<plate, drops, unrecorded, occ, pointer, board, free, todo, casting>>
        /\ at # "trial"
        /\ at' \in Offering => at \in Offering
        /\ at' \notin {"fitted", "trial"}
    BY <1>4 DEF MarkInterrupted, store, rig, loop, round, history, Goto, Offering
  <2> QED
    BY <2>1, QuietStep DEF CastInv, OffersUnused
<1>5. CASE RecoveryPark
  <2>1. /\ UNCHANGED <<plate, drops, unrecorded, occ, pointer, board, free, todo, casting>>
        /\ at # "trial"
        /\ at' \in Offering => at \in Offering
        /\ at' \notin {"fitted", "trial"}
    BY <1>5 DEF RecoveryPark, store, rig, loop, round, history, Goto, Offering
  <2> QED
    BY <2>1, QuietStep DEF CastInv, OffersUnused
<1>6. CASE StartRun
  <2>1. /\ UNCHANGED <<plate, drops, unrecorded, occ, pointer, board, free, todo, casting>>
        /\ at # "trial"
        /\ at' \in Offering => at \in Offering
        /\ at' \notin {"fitted", "trial"}
    BY <1>6 DEF StartRun, store, rig, loop, round, history, Goto, Offering
  <2> QED
    BY <2>1, QuietStep DEF CastInv, OffersUnused
<1>7. CASE LoadResumePlan
  <2>1. /\ at = "resuming" /\ at' = "boarding" /\ casting' = 0
        /\ UNCHANGED <<plate, drops, unrecorded, occ, pointer>>
    BY <1>7 DEF LoadResumePlan, store, rig, history, Goto
  <2>2. casting = 0
    BY <2>1 DEF CastInv, OffersUnused
  <2>3. CurrentBoard' = CurrentBoard
    BY <2>1 DEF CurrentBoard
  <2> QED
    BY <2>1, <2>2, <2>3
       DEF CastInv, PlatesKnown, CastWritten, Recorded, OffersUnused, CastOnceEver, Offering
<1>8. CASE PrepareAllocator
  <2>1. /\ at = "boarding" /\ at' = "round" /\ UNCHANGED <<plate, drops, unrecorded, occ, casting>>
    BY <1>8 DEF PrepareAllocator, rig, round, history, Goto
  <2>2. casting = 0
    BY <2>1 DEF CastInv, OffersUnused
  <2>3. CurrentBoard \in Nat /\ StoreOK' /\ BoardKnown'
    BY CurrentIsLast, TypeStart DEF TypeInv, TypeOK
  <2>4. CASE SameBoard
    <3>1. board' = CurrentBoard /\ pointer' = pointer /\ free' = Electrode \ UsedHere
      BY <2>4 DEF SameBoard, OnBoard
    <3>2. \A e \in free' : <<CurrentBoard, e>> \notin occ
      BY <3>1 DEF UsedHere
    <3>3. CurrentBoard' = CurrentBoard
      BY <2>1, <3>1 DEF CurrentBoard
    <3>4. CastWritten'
      BY <2>1, <3>1, <3>3 DEF CastInv, CastWritten, Recorded
    <3>5. OffersUnused'
      BY <2>1, <2>2, <2>3, <3>1, <3>2, <3>3 DEF OffersUnused
    <3> QED
      BY <2>1, <3>4, <3>5 DEF CastInv, PlatesKnown, CastOnceEver
  <2>5. CASE NewBoard
    <3>1. /\ board' = CurrentBoard + 1 /\ pointer' = CurrentBoard + 1
          /\ free' \subseteq Electrode
      BY <2>5 DEF NewBoard, OnBoard
    <3>2. Fresh(plate)
      BY <2>5 DEF NewBoard
    <3>3. \A e \in Electrode : <<board', e>> \notin occ /\ ~(drops[<<plate, e>>] > 0)
      BY <2>3, <3>1, <3>2, NextBoardUnused DEF Fresh
    <3>4. CastWritten'
      BY <2>1, <3>3 DEF CastWritten, Recorded
    <3>5. PlatesKnown' /\ CastOnceEver'
      BY <2>1 DEF CastInv, PlatesKnown, CastOnceEver
    <3>6. CurrentBoard' <= board'
      <4>1. \A w \in occ : w[1] <= CurrentBoard /\ w[1] \in Nat
        BY CurrentIsLast DEF TypeInv, TypeOK, StoreOK
      <4>2. /\ CurrentBoard' \in Nat
            /\ CurrentBoard' = pointer' \/ \E w \in occ : w[1] = CurrentBoard'
        BY <2>1, <2>3, CurrentIsLastNext
      <4> QED BY <2>3, <3>1, <4>1, <4>2
    <3>7. OffersUnused'
      BY <2>1, <2>2, <3>1, <3>3, <3>6 DEF OffersUnused
    <3> QED
      BY <3>4, <3>5, <3>7 DEF CastInv
  <2> QED
    BY <1>8, <2>4, <2>5 DEF PrepareAllocator
<1>9. CASE BoardCheckCancelled
  <2>1. /\ UNCHANGED <<plate, drops, unrecorded, occ, pointer, board, free, todo, casting>>
        /\ at # "trial"
        /\ at' \in Offering => at \in Offering
        /\ at' \notin {"fitted", "trial"}
    BY <1>9 DEF BoardCheckCancelled, store, rig, loop, round, history, Goto, Offering
  <2> QED
    BY <2>1, QuietStep DEF CastInv, OffersUnused
<1> QED
  BY <1>1, <1>2, <1>3, <1>4, <1>5, <1>6, <1>7, <1>8, <1>9 DEF Start

\* A cast takes an unused well, and its row takes it out of use.
LEMMA CastLoop ==
  ASSUME PlateChanged, TypeInv, CastInv, Loop
  PROVE  CastInv'
<1>1. ASSUME NEW s \in {"stopped", "converged"}, LoopEnds(s) PROVE CastInv'
  <2>1. /\ UNCHANGED <<plate, drops, unrecorded, occ, pointer, board, free, todo, casting>>
        /\ at # "trial"
        /\ at' \in Offering => at \in Offering
        /\ at' \notin {"fitted", "trial"}
    BY <1>1 DEF LoopEnds, store, rig, loop, round, history, Goto, Offering
  <2> QED
    BY <2>1, QuietStep DEF CastInv, OffersUnused
<1>2. CASE FitPlate
  <2>1. /\ plate' = plate + 1 /\ plate < LastPlate /\ at = "round" /\ at' = "fitted"
        /\ UNCHANGED <<drops, unrecorded, occ, pointer, board, free, todo, casting>>
    BY <1>2 DEF FitPlate, store, loop, round, history, Goto
  <2>2. plate' \in 1..LastPlate /\ plate' > plate
    BY <2>1, SizesAssumption DEF TypeInv, TypeOK, RigOK
  <2>3. \A e \in Electrode : drops'[<<plate', e>>] = 0
    BY <2>1, <2>2 DEF CastInv, PlatesKnown
  <2>4. PlatesKnown'
    <3>1. \A p \in 1..LastPlate : p > plate' => p > plate
      BY <2>1 DEF TypeInv, TypeOK, RigOK
    <3> QED
      BY <2>1, <2>3, <3>1 DEF CastInv, PlatesKnown, Fresh
  <2>5. CastWritten'
    BY <2>3 DEF CastWritten, Recorded
  <2>6. OffersUnused' /\ CastOnceEver'
    <3>1. CurrentBoard' = CurrentBoard
      BY <2>1 DEF CurrentBoard
    <3> QED BY <2>1, <3>1 DEF CastInv, OffersUnused, CastOnceEver, Offering
  <2> QED
    BY <2>4, <2>5, <2>6 DEF CastInv
<1>3. CASE PersistBoard
  <2>1. /\ at = "fitted" /\ at' = "round" /\ UNCHANGED <<plate, drops, unrecorded, occ, casting>>
        /\ board' = board + 1 /\ free' \subseteq Electrode
        /\ pointer' \in {pointer, Max({CurrentBoard, board + 1})}
    BY <1>3 DEF PersistBoard, OnBoard, rig, round, Goto
  <2>2. CurrentBoard <= board /\ casting = 0
    BY <2>1 DEF CastInv, OffersUnused, Offering
  <2>3. CurrentBoard \in Nat /\ board \in Nat /\ StoreOK' /\ BoardKnown'
    BY CurrentIsLast, TypeLoop DEF TypeInv, TypeOK, LoopOK
  <2>4. CurrentBoard' <= board'
    <3>1. \A w \in occ : w[1] <= CurrentBoard /\ w[1] \in Nat
      BY CurrentIsLast DEF TypeInv, TypeOK, StoreOK
    <3>2. /\ CurrentBoard' \in Nat
          /\ CurrentBoard' = pointer' \/ \E w \in occ : w[1] = CurrentBoard'
      BY <2>1, <2>3, CurrentIsLastNext
    <3>3. pointer' <= board + 1 /\ pointer' \in Nat
      <4>1. pointer <= CurrentBoard /\ pointer \in Nat
        BY CurrentIsLast DEF TypeInv, TypeOK, StoreOK
      <4>2. Max({CurrentBoard, board + 1}) \in {CurrentBoard, board + 1}
        BY <2>3, MaxOfTwo
      <4> QED BY <2>1, <2>2, <2>3, <4>1, <4>2
    <3> QED BY <2>1, <2>2, <2>3, <3>1, <3>2, <3>3
  <2>5. Fresh(plate)
    BY <2>1 DEF CastInv, PlatesKnown
  <2>6. \A e \in Electrode : <<board', e>> \notin occ /\ ~(drops[<<plate, e>>] > 0)
    BY <2>1, <2>2, <2>3, <2>5, NextBoardUnused DEF Fresh
  <2>7. PlatesKnown' /\ CastOnceEver'
    BY <2>1 DEF CastInv, PlatesKnown, CastOnceEver
  <2>8. CastWritten'
    BY <2>1, <2>6 DEF CastWritten, Recorded
  <2>9. OffersUnused'
    BY <2>1, <2>2, <2>4, <2>6 DEF OffersUnused
  <2> QED
    BY <2>7, <2>8, <2>9 DEF CastInv
<1>4. CASE StartTrial
  <2>1. /\ at = "round" /\ at' = "trial" /\ todo' \subseteq free /\ free' = free \ todo'
        /\ UNCHANGED <<plate, drops, unrecorded, occ, pointer, board, casting>>
    BY <1>4 DEF StartTrial, store, history, Goto
  <2>2. casting = 0 /\ 0 \notin free
    BY <2>1 DEF CastInv, OffersUnused, TypeInv, TypeOK, LoopOK, Electrode
  <2>3. CurrentBoard' = CurrentBoard
    BY <2>1 DEF CurrentBoard
  <2>4. PlatesKnown' /\ CastWritten' /\ CastOnceEver'
    BY <2>1, <2>3 DEF CastInv, PlatesKnown, CastWritten, Recorded, CastOnceEver, Offering
  <2>5. OffersUnused'
    BY <2>1, <2>2, <2>3 DEF CastInv, OffersUnused, Offering
  <2> QED
    BY <2>4, <2>5 DEF CastInv
<1>5. ASSUME NEW e \in Electrode, BeginCast(e) PROVE CastInv'
  <2>1. /\ at = "trial" /\ at' = at /\ casting = 0 /\ casting' = e /\ e \in todo
        /\ todo' = todo \ {e} /\ drops' = [drops EXCEPT ![<<plate, e>>] = @ + 1]
        /\ UNCHANGED <<plate, unrecorded, occ, pointer, board, free>>
    BY <1>5 DEF BeginCast, store, history
  <2>2. <<plate, e>> \in Well /\ drops \in [Well -> Nat]
    BY DEF TypeInv, TypeOK, RigOK, Well
  <2>3. \A w \in Well : w # <<plate, e>> => drops'[w] = drops[w]
    BY <2>1, <2>2
  <2>4. drops'[<<plate, e>>] = drops[<<plate, e>>] + 1
    BY <2>1, <2>2
  <2>5. PlatesKnown'
    <3>1. ASSUME NEW p \in 1..LastPlate, NEW f \in Electrode, p > plate
          PROVE  drops'[<<p, f>>] = 0
      <4>1. <<p, f>> \in Well /\ <<p, f>> # <<plate, e>>
        BY <3>1 DEF Well, TypeInv, TypeOK, RigOK
      <4> QED
        BY <2>3, <3>1, <4>1 DEF CastInv, PlatesKnown
    <3> QED
      BY <2>1, <3>1 DEF PlatesKnown
  <2>6. CurrentBoard' = CurrentBoard /\ at \in Offering
    BY <2>1 DEF CurrentBoard, Offering
  <2>7. CastWritten' /\ OffersUnused'
    <3>1. ASSUME NEW f \in Electrode, f # e, drops'[<<plate, f>>] > 0
          PROVE  drops[<<plate, f>>] > 0 /\ casting # f
      <4>1. <<plate, f>> \in Well /\ <<plate, f>> # <<plate, e>>
        BY <3>1 DEF Well, TypeInv, TypeOK, RigOK
      <4> QED
        BY <2>1, <2>3, <3>1, <4>1 DEF Electrode
    <3>2. CastWritten'
      BY <2>1, <2>6, <3>1 DEF CastInv, CastWritten, Recorded
    <3>3. OffersUnused'
      BY <2>1, <2>6 DEF CastInv, OffersUnused
    <3> QED BY <3>2, <3>3
  <2>8. CastOnceEver'
    <3>1. <<plate, e>> \in unrecorded \/ drops[<<plate, e>>] = 0
      <4>1. <<board, e>> \notin occ /\ casting # e
        BY <2>1 DEF CastInv, OffersUnused, Electrode
      <4>2. drops[<<plate, e>>] > 0 => <<plate, e>> \in unrecorded
        BY <2>6, <4>1 DEF CastInv, CastWritten, Recorded
      <4>3. drops[<<plate, e>>] \in Nat
        BY <2>2
      <4> QED
        BY <4>2, <4>3
    <3> QED
      BY <2>1, <2>3, <2>4, <3>1 DEF CastInv, CastOnceEver
  <2> QED
    BY <2>5, <2>7, <2>8 DEF CastInv
<1>6. CASE EndCast
  <2>1. /\ at = "trial" /\ at' = at /\ casting # 0 /\ casting' \in {0, casting}
        /\ UNCHANGED <<plate, drops, pointer, board, free, todo>>
        /\ \/ occ' = occ \cup {<<board, casting>>} /\ UNCHANGED unrecorded
           \/ UNCHANGED occ /\ unrecorded' = unrecorded \cup {<<plate, casting>>}
    BY <1>6 DEF EndCast, rig
  <2>2. /\ at \in Offering /\ CurrentBoard <= board /\ casting \notin free \cup todo
        /\ 0 \notin free \cup todo
    BY <2>1 DEF CastInv, OffersUnused, Offering, TypeInv, TypeOK, LoopOK, Electrode
  <2>3. CurrentBoard' = CurrentBoard \/ CurrentBoard' = board
    <3>1. CASE UNCHANGED occ
      BY <2>1, <3>1 DEF CurrentBoard
    <3>2. CASE occ' = occ \cup {<<board, casting>>}
      <4>1. /\ CurrentBoard \in Nat /\ pointer <= CurrentBoard /\ pointer \in Nat
            /\ board \in Nat /\ \A w \in occ : w[1] <= CurrentBoard /\ w[1] \in Nat
        BY CurrentIsLast DEF TypeInv, TypeOK, StoreOK, LoopOK
      <4>2. /\ CurrentBoard' \in Nat /\ \A w \in occ' : w[1] <= CurrentBoard'
            /\ CurrentBoard' = pointer' \/ \E w \in occ' : w[1] = CurrentBoard'
        BY CurrentIsLastNext, TypeLoop DEF TypeInv, TypeOK
      <4>3. <<board, casting>> \in occ' /\ \A w \in occ' : w \in occ \/ w = <<board, casting>>
        BY <3>2
      <4>4. board <= CurrentBoard'
        BY <4>2, <4>3
      <4>5. \A w \in occ' : w[1] <= board
        BY <2>2, <4>1, <4>3
      <4>6. CurrentBoard' <= board
        BY <2>1, <2>2, <4>1, <4>2, <4>5
      <4> QED BY <4>1, <4>2, <4>4, <4>6
    <3> QED BY <2>1, <3>1, <3>2
  <2>4. PlatesKnown' /\ CastOnceEver'
    BY <2>1 DEF CastInv, PlatesKnown, CastOnceEver
  <2>5. \A e \in free \cup todo : <<board, e>> \notin occ'
    BY <2>1, <2>2 DEF CastInv, OffersUnused
  <2>6. OffersUnused'
    <3>1. CurrentBoard' <= board
      BY <2>2, <2>3 DEF TypeInv, TypeOK, LoopOK
    <3> QED
      BY <2>1, <2>2, <2>5, <3>1 DEF CastInv, OffersUnused
  <2>7. CastWritten'
    <3>1. Recorded(board)'
      BY <2>1, <2>2 DEF CastInv, CastWritten, Recorded
    <3>2. CASE CurrentBoard' = board
      <4>1. Recorded(CurrentBoard)'
        BY <2>1, <3>1, <3>2 DEF Recorded
      <4> QED BY <3>1, <4>1 DEF CastWritten
    <3>3. CASE /\ CurrentBoard' = CurrentBoard /\ UNCHANGED occ
               /\ unrecorded' = unrecorded \cup {<<plate, casting>>}
      <4>1. Recorded(CurrentBoard)'
        BY <2>1, <3>3 DEF CastInv, CastWritten, Recorded
      <4> QED BY <3>1, <4>1 DEF CastWritten
    <3>4. CASE CurrentBoard' = CurrentBoard /\ occ' = occ \cup {<<board, casting>>}
      <4>1. board \in Nat /\ CurrentBoard \in Nat
        BY CurrentIsLast DEF TypeInv, TypeOK, LoopOK
      <4>2. \A w \in occ' : w[1] <= CurrentBoard'
        BY CurrentIsLastNext, TypeLoop DEF TypeInv, TypeOK
      <4>3. <<board, casting>> \in occ'
        BY <3>4
      <4>4. board <= CurrentBoard'
        BY <4>2, <4>3
      <4>5. CurrentBoard' = board
        BY <2>2, <3>4, <4>1, <4>4
      <4> QED BY <3>2, <4>5
    <3> QED BY <2>1, <2>3, <3>2, <3>3, <3>4
  <2> QED
    BY <2>4, <2>6, <2>7 DEF CastInv
<1>7. ASSUME NEW place \in {"closing", "failing", "parking"}, TrialOver(place) PROVE CastInv'
  <2>1. /\ at = "trial" /\ casting = 0 /\ at' = place
        /\ UNCHANGED <<plate, drops, unrecorded, occ, pointer, board, free, casting>>
    BY <1>7 DEF TrialOver, store, Goto, history
  <2>2. CurrentBoard' = CurrentBoard
    BY <2>1 DEF CurrentBoard
  <2>3. PlatesKnown' /\ CastWritten' /\ CastOnceEver'
    BY <2>1, <2>2 DEF CastInv, PlatesKnown, CastWritten, Recorded, CastOnceEver, Offering
  <2>4. OffersUnused'
    BY <2>1, <2>2 DEF CastInv, OffersUnused, Offering
  <2> QED
    BY <2>3, <2>4 DEF CastInv
<1>8. ASSUME NEW failed \in BOOLEAN, CloseWell(failed) PROVE CastInv'
  <2>1. /\ UNCHANGED <<plate, drops, unrecorded, occ, pointer, board, free, todo, casting>>
        /\ at # "trial"
        /\ at' \in Offering => at \in Offering
        /\ at' \notin {"fitted", "trial"}
    BY <1>8 DEF CloseWell, Advance, store, rig, loop, round, history, Goto, Offering
  <2> QED
    BY <2>1, QuietStep DEF CastInv, OffersUnused
<1>9. CASE CloseFailedRound
  <2>1. /\ UNCHANGED <<plate, drops, unrecorded, occ, pointer, board, free, todo, casting>>
        /\ at # "trial"
        /\ at' \in Offering => at \in Offering
        /\ at' \notin {"fitted", "trial"}
    BY <1>9 DEF CloseFailedRound, Advance, store, rig, loop, round, history, Goto, Offering
  <2> QED
    BY <2>1, QuietStep DEF CastInv, OffersUnused
<1>10. CASE AdvancePastRest
  <2>1. /\ UNCHANGED <<plate, drops, unrecorded, occ, pointer, board, free, todo, casting>>
        /\ at # "trial"
        /\ at' \in Offering => at \in Offering
        /\ at' \notin {"fitted", "trial"}
    BY <1>10 DEF AdvancePastRest, Advance, store, rig, loop, round, history, Goto, Offering
  <2> QED
    BY <2>1, QuietStep DEF CastInv, OffersUnused
<1>11. CASE RoundClosed
  <2>1. /\ UNCHANGED <<plate, drops, unrecorded, occ, pointer, board, free, todo, casting>>
        /\ at # "trial"
        /\ at' \in Offering => at \in Offering
        /\ at' \notin {"fitted", "trial"}
    BY <1>11 DEF RoundClosed, store, rig, loop, round, history, Goto, Offering
  <2> QED
    BY <2>1, QuietStep DEF CastInv, OffersUnused
<1> QED
  BY <1>1, <1>2, <1>3, <1>4, <1>5, <1>6, <1>7, <1>8, <1>9, <1>10, <1>11 DEF Loop

\* A run ends without casting.
LEMMA CastEnd ==
  ASSUME PlateChanged, TypeInv, CastInv, End
  PROVE  CastInv'
<1>1. CASE LoopPark
  <2>1. /\ UNCHANGED <<plate, drops, unrecorded, occ, pointer, board, free, todo, casting>>
        /\ at # "trial"
        /\ at' \in Offering => at \in Offering
        /\ at' \notin {"fitted", "trial"}
    BY <1>1 DEF LoopPark, store, rig, loop, round, history, Goto, Offering
  <2> QED
    BY <2>1, QuietStep DEF CastInv, OffersUnused
<1>2. CASE AnnouncePark
  <2>1. /\ UNCHANGED <<plate, drops, unrecorded, occ, pointer, board, free, todo, casting>>
        /\ at # "trial"
        /\ at' \in Offering => at \in Offering
        /\ at' \notin {"fitted", "trial"}
    BY <1>2 DEF AnnouncePark, store, rig, loop, round, history, Goto, Offering
  <2> QED
    BY <2>1, QuietStep DEF CastInv, OffersUnused
<1>3. CASE FinalizeRun
  <2>1. /\ UNCHANGED <<plate, drops, unrecorded, occ, pointer, board, free, todo, casting>>
        /\ at # "trial"
        /\ at' \in Offering => at \in Offering
        /\ at' \notin {"fitted", "trial"}
    BY <1>3 DEF FinalizeRun, store, rig, loop, round, history, Goto, Offering
  <2> QED
    BY <2>1, QuietStep DEF CastInv, OffersUnused
<1>4. CASE ClearCheckpoint
  <2>1. /\ UNCHANGED <<plate, drops, unrecorded, occ, pointer, board, free, todo, casting>>
        /\ at # "trial"
        /\ at' \in Offering => at \in Offering
        /\ at' \notin {"fitted", "trial"}
    BY <1>4 DEF ClearCheckpoint, store, rig, loop, round, history, Goto, Offering
  <2> QED
    BY <2>1, QuietStep DEF CastInv, OffersUnused
<1>5. CASE CatchAll
  <2>1. /\ UNCHANGED <<plate, drops, unrecorded, occ, pointer, board, free, todo, casting>>
        /\ at # "trial"
        /\ at' \in Offering => at \in Offering
        /\ at' \notin {"fitted", "trial"}
    BY <1>5 DEF CatchAll, store, rig, loop, round, history, Goto, Offering
  <2> QED
    BY <2>1, QuietStep DEF CastInv, OffersUnused
<1>6. CASE ReportPark
  <2>1. /\ UNCHANGED <<plate, drops, unrecorded, occ, pointer, board, free, todo, casting>>
        /\ at # "trial"
        /\ at' \in Offering => at \in Offering
        /\ at' \notin {"fitted", "trial"}
    BY <1>6 DEF ReportPark, store, rig, loop, round, history, Goto, Offering
  <2> QED
    BY <2>1, QuietStep DEF CastInv, OffersUnused
<1>7. CASE FinalizeFailed
  <2>1. /\ UNCHANGED <<plate, drops, unrecorded, occ, pointer, board, free, todo, casting>>
        /\ at # "trial"
        /\ at' \in Offering => at \in Offering
        /\ at' \notin {"fitted", "trial"}
    BY <1>7 DEF FinalizeFailed, store, rig, loop, round, history, Goto, Offering
  <2> QED
    BY <2>1, QuietStep DEF CastInv, OffersUnused
<1>8. CASE TearDown
  <2>1. /\ UNCHANGED <<plate, drops, unrecorded, occ, pointer, board, free, todo, casting>>
        /\ at # "trial"
        /\ at' \in Offering => at \in Offering
        /\ at' \notin {"fitted", "trial"}
    BY <1>8 DEF TearDown, store, rig, loop, round, history, Goto, Offering
  <2> QED
    BY <2>1, QuietStep DEF CastInv, OffersUnused
<1>9. CASE UnwindCaller
  <2>1. /\ UNCHANGED <<plate, drops, unrecorded, occ, pointer, board, free, todo, casting>>
        /\ at # "trial"
        /\ at' \in Offering => at \in Offering
        /\ at' \notin {"fitted", "trial"}
    BY <1>9 DEF UnwindCaller, store, rig, loop, round, history, Goto, Offering
  <2> QED
    BY <2>1, QuietStep DEF CastInv, OffersUnused
<1>10. CASE Disconnect
  <2>1. /\ UNCHANGED <<plate, drops, unrecorded, occ, pointer, board, free, todo, casting>>
        /\ at # "trial"
        /\ at' \in Offering => at \in Offering
        /\ at' \notin {"fitted", "trial"}
    BY <1>10 DEF Disconnect, store, rig, loop, round, history, Goto, Offering
  <2> QED
    BY <2>1, QuietStep DEF CastInv, OffersUnused
<1> QED
  BY <1>1, <1>2, <1>3, <1>4, <1>5, <1>6, <1>7, <1>8, <1>9, <1>10 DEF End

\* A first deposit that is cut short is unrecorded; a repeat has the row of the first.
LEMMA CutShort ==
  ASSUME TypeInv, CastInv, Leaves, at' \in {"off"} \cup Raised,
         UNCHANGED <<plate, drops, occ, pointer>>
  PROVE  CastInv'
<1>1. casting' = 0 /\ unrecorded \subseteq unrecorded' /\ at' \notin Offering
  BY DEF Leaves, Offering, Raised
<1>2. CurrentBoard' = CurrentBoard
  BY DEF CurrentBoard
<1>3. casting # 0 => <<plate, casting>> \in unrecorded' \/ <<CurrentBoard, casting>> \in occ
  <2> SUFFICES ASSUME casting # 0, <<board, casting>> \in occ PROVE CurrentBoard = board
    BY DEF CastInv, OffersUnused, Leaves
  <2>1. CurrentBoard <= board
    BY DEF CastInv, OffersUnused, Offering
  <2>2. board <= CurrentBoard /\ board \in Nat /\ CurrentBoard \in Nat
    BY CurrentIsLast DEF TypeInv, TypeOK, LoopOK
  <2> QED BY <2>1, <2>2
<1>4. PlatesKnown' /\ CastOnceEver' /\ OffersUnused'
  BY <1>1 DEF CastInv, PlatesKnown, CastOnceEver, OffersUnused, Offering, Raised
<1>5. CastWritten'
  BY <1>1, <1>2, <1>3 DEF CastInv, CastWritten, Recorded, Electrode
<1> QED
  BY <1>4, <1>5 DEF CastInv

\* A launch's end leaves nothing in the hand; a changed plate is a new one.
LEMMA CastFault ==
  ASSUME PlateChanged, TypeInv, CastInv, ReplacePlate \/ Kill \/ Signal \/ Raise
  PROVE  CastInv'
<1>1. CASE ReplacePlate
  <2>1. /\ plate' = plate + 1 /\ plate < LastPlate /\ at = "off" /\ at' = "off"
        /\ UNCHANGED <<drops, unrecorded, occ, pointer, board, free, todo, casting>>
    BY <1>1 DEF ReplacePlate, store, loop, round, history, Goto
  <2>2. plate' \in 1..LastPlate /\ plate' > plate
    BY <2>1, SizesAssumption DEF TypeInv, TypeOK, RigOK
  <2>3. \A e \in Electrode : drops'[<<plate', e>>] = 0
    BY <2>1, <2>2 DEF CastInv, PlatesKnown
  <2>4. PlatesKnown'
    <3>1. \A p \in 1..LastPlate : p > plate' => p > plate
      BY <2>1 DEF TypeInv, TypeOK, RigOK
    <3> QED
      BY <2>1, <2>3, <3>1 DEF CastInv, PlatesKnown, Fresh
  <2>5. CastWritten'
    BY <2>3 DEF CastWritten, Recorded
  <2>6. OffersUnused' /\ CastOnceEver'
    BY <2>1 DEF CastInv, OffersUnused, CastOnceEver, Offering
  <2> QED
    BY <2>4, <2>5, <2>6 DEF CastInv
<1>2. CASE Kill
  <2>1. Leaves /\ at' \in {"off"} \cup Raised /\ UNCHANGED <<plate, drops, occ, pointer>>
    BY <1>2 DEF Kill, store, rig, Goto, TypeInv, TypeOK
  <2> QED BY <2>1, CutShort
<1>3. CASE Signal
  <2>1. Leaves /\ at' \in {"off"} \cup Raised /\ UNCHANGED <<plate, drops, occ, pointer>>
    BY <1>3, UnwindPlace DEF Signal, store, rig, Goto, TypeInv, TypeOK
  <2> QED BY <2>1, CutShort
<1>4. CASE Raise
  <2>1. Leaves /\ at' \in {"off"} \cup Raised /\ UNCHANGED <<plate, drops, occ, pointer>>
    BY <1>4, UnwindPlace DEF Raise, store, rig, Goto, TypeInv, TypeOK
  <2> QED BY <2>1, CutShort
<1> QED
  BY <1>1, <1>2, <1>3, <1>4

\* No trial casts onto a well that one before it has cast onto, in that session or another,
\* if nobody relaunches onto a full plate without changing it; only a well whose first
\* deposit was cut short, or whose row the store refused, may be cast again.
THEOREM CastOnceEverHolds == ASSUME PlateChanged PROVE Spec => []CastOnceEver
<1>1. Init => CastInv
  BY CastInit
<1>2. TypeInv /\ CastInv /\ [Next]_vars => CastInv'
  <2> SUFFICES ASSUME TypeInv, CastInv, [Next]_vars PROVE CastInv'
    OBVIOUS
  <2>1. CASE Next
    BY <2>1, PlateChanged, CastStart, CastLoop, CastEnd, CastFault DEF Next
  <2>2. CASE UNCHANGED vars
    <3>1. UNCHANGED <<plate, drops, unrecorded, occ, pointer, board, free, todo, casting, at>>
      BY <2>2 DEF vars, store, rig, loop, round, history
    <3> QED
      BY <3>1, QuietStep
  <2> QED
    BY <2>1, <2>2
<1>3. CastInv => CastOnceEver
  BY DEF CastInv
<1> QED
  BY <1>1, <1>2, <1>3, TypeCorrect, PTL DEF Spec

================================================================================
