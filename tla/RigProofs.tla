------------------------------- MODULE RigProofs -------------------------------
(***************************************************************************)
(* What the rig's claims and its stock promise, for any runs, lines and    *)
(* processes: a run's claim stands as long as it drives, so a tick that    *)
(* looked has found whoever was there; and what a ledger keeps is what the *)
(* row says, which is never more than the barrel holds.                    *)
(***************************************************************************)
EXTENDS RigActivity, Ledgers, FiniteSetTheorems, TLAPS

--------------------------------------------------------------------------------
(* The rig: where everybody can be.                                        *)

RunPlaces   == {"idle", "starting", "claimed", "release"} \cup Begun \cup Travelling
PurgePlaces == {"idle", "looked", "posed", "claimed", "dispense", "back", "release"} \cup Travelling
Blamed == Runs \cup Purges \cup {"manual", "fault", Nobody}

\* The types, part by part.
PlacesTyped ==
  /\ pc \in [Actors -> RunPlaces \cup PurgePlaces]
  /\ \A r \in Runs : pc[r] \in RunPlaces
  /\ \A p \in Purges : pc[p] \in PurgePlaces
PoseTyped ==
  /\ head \in {"up", "down"} /\ place \in {"flush", "elsewhere"}
  /\ mover \in Blamed /\ refused \in [Runs -> Blamed]
ClaimsTyped ==
  /\ claims \in [Owners -> Seq(SUBSET Instruments)]
  /\ suspended \subseteq {o \in Owners : claims[o] # <<>>}
OrdersTyped ==
  /\ asked \subseteq Runs /\ manual \subseteq Instruments
  /\ latched \in BOOLEAN /\ actuate \in BOOLEAN
  /\ due \subseteq Lines /\ todo \in [Purges -> SUBSET Lines] /\ moved \subseteq Purges
  /\ late \subseteq Runs \cup {"manual"}
  /\ \A p \in Purges : pc[p] = "idle" => todo[p] = {} /\ p \notin moved

RigTyped == PlacesTyped /\ PoseTyped /\ ClaimsTyped /\ OrdersTyped

\* Nobody is two of these at once: runs, purges, hands and faults.
LEMMA ActorFacts ==
  /\ "tick" \in Purges /\ "window" \in Purges /\ "tick" # "window"
  /\ Runs \cap Purges = {} /\ "purge" \notin Runs /\ "purge" \in Owners
  /\ Runs \subseteq Owners /\ Runs \subseteq Actors /\ Purges \subseteq Actors
  /\ Nobody \notin Runs \cup Purges /\ "manual" \notin Runs \cup Purges /\ "fault" \notin Runs \cup Purges
  /\ Fluidic \subseteq Runs /\ WholeRig \subseteq Runs /\ Resting \subseteq Fluidic
  /\ Host \in Resting /\ Host \in WholeRig /\ Host \in Runs /\ Host \in Fluidic
BY RunAssumption, ActorAssumption DEF Purges, Owners, Actors

\* Nobody anywhere, no claim, the lines rested.
LEMMA RigStarts == RigInit => RigTyped
<1> SUFFICES ASSUME RigInit PROVE RigTyped
  OBVIOUS
<1>1. PlacesTyped
  BY ActorFacts DEF RigInit, PlacesTyped, RunPlaces, PurgePlaces
<1>2. PoseTyped
  BY DEF RigInit, PoseTyped, Blamed
<1>3. ClaimsTyped
  BY DEF RigInit, ClaimsTyped
<1>4. OrdersTyped
  BY DEF RigInit, OrdersTyped
<1> QED BY <1>1, <1>2, <1>3, <1>4 DEF RigTyped

\* Where an actor goes.
LEMMA GoesSomewhere ==
  ASSUME PlacesTyped
  PROVE  /\ \A r \in Runs, where \in RunPlaces : Goto(r, where) => PlacesTyped'
         /\ \A p \in Purges, where \in PurgePlaces : Goto(p, where) => PlacesTyped'
         /\ UNCHANGED pc => PlacesTyped'
BY ActorFacts DEF PlacesTyped, Goto

\* A head that is flipped, or not.
LEMMA HeadTyped ==
  ASSUME PoseTyped, NEW a \in Blamed, NEW h \in {"up", "down"}, SetHead(a, h), UNCHANGED refused
  PROVE  PoseTyped'
BY DEF PoseTyped, SetHead, Blamed

\* So does one that fails to go up.
LEMMA RetractTyped ==
  ASSUME PoseTyped, NEW a \in Blamed, RetractHead(a), UNCHANGED refused
  PROVE  PoseTyped'
<1>1. CASE SetHead(a, "up")
  BY <1>1, HeadTyped
<1>2. CASE mover' = "fault" /\ UNCHANGED <<head, place>>
  BY <1>2 DEF PoseTyped, Blamed
<1> QED BY <1>1, <1>2 DEF RetractHead

\* Claims are entered and given back.
LEMMA RegistryTyped ==
  ASSUME ClaimsTyped, NEW o \in Owners
  PROVE  /\ \A scope \in SUBSET Instruments : Acquire(o, scope) => ClaimsTyped'
         /\ Release(o) => ClaimsTyped'
         /\ Suspend(o) => ClaimsTyped'
         /\ Unsuspend(o) => ClaimsTyped'
         /\ UNCHANGED registry => ClaimsTyped'
<1>1. ASSUME NEW scope \in SUBSET Instruments, Acquire(o, scope) PROVE ClaimsTyped'
  <2>1. Append(claims[o], scope) \in Seq(SUBSET Instruments) /\ Append(claims[o], scope) # <<>>
    BY DEF ClaimsTyped
  <2> QED BY <1>1, <2>1 DEF Acquire, ClaimsTyped
<1>2. ASSUME Release(o) PROVE ClaimsTyped'
  <2> DEFINE left == SubSeq(claims[o], 1, Len(claims[o]) - 1)
  <2>1. left \in Seq(SUBSET Instruments)
    BY DEF ClaimsTyped
  <2>2. claims' = [claims EXCEPT ![o] = left]
        /\ suspended' = IF left = <<>> THEN suspended \ {o} ELSE suspended
    BY <1>2 DEF Release
  <2> HIDE DEF left
  <2> QED BY <2>1, <2>2 DEF ClaimsTyped
<1> QED BY <1>1, <1>2 DEF Suspend, Unsuspend, ClaimsTyped, registry

\* A run's own steps keep the types.
LEMMA RunTyped ==
  ASSUME RigTyped, NEW r \in Runs, RunNext(r)
  PROVE  RigTyped'
<1> USE DEF RigTyped
<1>0. /\ r \in Owners /\ r \in Blamed /\ r \in Actors /\ r \notin Purges
      /\ Scope(r) \in SUBSET Instruments
  BY ActorFacts DEF Blamed, Scope, Drives, Instruments
<1>1. ClaimsTyped'
  BY <1>0, RegistryTyped DEF RunNext, Start, Claim, LeaveRest, BeginCast, Lower, Elute, Lift, StepFails,
     Measure, Measured, AskPause, Hold, Answer, Unhold, End, Rest, GiveBack
<1>2. PlacesTyped'
  <2>1. \A where \in {"idle", "starting", "claimed", "running", "over", "down", "measure", "held",
                      "release", "retract", "move", "descend"} : where \in RunPlaces
    BY DEF RunPlaces, Begun, Stepping, Travelling
  <2>2. CASE Start(r) \/ Claim(r) \/ LeaveRest(r) \/ BeginCast(r) \/ Lower(r) \/ Lift(r) \/ StepFails(r)
    BY <2>1, <2>2, GoesSomewhere DEF Start, Claim, LeaveRest, BeginCast, Lower, Lift, StepFails
  <2>3. CASE Measure(r) \/ Measured(r) \/ AskPause(r) \/ Hold(r) \/ Answer(r) \/ Unhold(r) \/ GiveBack(r)
             \/ \E used \in SUBSET Lines \ {{}} : Elute(r, used)
    BY <2>1, <2>3, GoesSomewhere DEF Measure, Measured, AskPause, Hold, Answer, Unhold, GiveBack, Elute
  <2>4. CASE End(r) \/ Rest(r)
    BY <2>1, <2>4, GoesSomewhere DEF End, EnterRest, Rest, Travel
  <2> QED BY <2>2, <2>3, <2>4 DEF RunNext
<1>3. PoseTyped'
  <2>1. UNCHANGED <<pose, refused>> => PoseTyped'
    BY DEF PoseTyped, pose
  <2>2. CASE LeaveRest(r) \/ Lower(r) \/ Lift(r)
    BY <1>0, <2>1, <2>2, HeadTyped, RetractTyped DEF LeaveRest, Lower, Lift
  <2>3. CASE BeginCast(r) \/ StepFails(r)
    BY <2>3 DEF BeginCast, StepFails, PoseTyped, Blamed
  <2>4. CASE Rest(r)
    <3>1. CASE UNCHANGED pose
      BY <2>1, <2>4, <3>1 DEF Rest
    <3>2. CASE \E h \in {"up", "down"} : SetHead(r, h)
      BY <1>0, <2>4, <3>2, HeadTyped DEF Rest
    <3>3. CASE place' = "flush" /\ UNCHANGED <<head, mover>>
      BY <2>4, <3>3 DEF Rest, PoseTyped
    <3> QED BY <2>4, <3>1, <3>2, <3>3 DEF Rest, Travel
  <2>5. CASE GiveBack(r)
    BY <1>0, <2>5 DEF GiveBack, PoseTyped, pose, Blamed
  <2> QED BY <2>1, <2>2, <2>3, <2>4, <2>5 DEF RunNext, Start, Claim, Elute, Measure, Measured,
             AskPause, Hold, Answer, Unhold, End
<1>4. OrdersTyped'
  <2>1. \A p \in Purges : pc'[p] = pc[p]
    <3>1. UNCHANGED pc \/ \E where : Goto(r, where)
      BY DEF RunNext, Start, Claim, LeaveRest, BeginCast, Lower, Elute, Lift, StepFails,
         Measure, Measured, AskPause, Hold, Answer, Unhold, End, Rest, Travel, GiveBack
    <3> QED BY <1>0, <3>1 DEF PlacesTyped, Goto, Actors
  <2>2. UNCHANGED <<manual, latched, actuate, todo, moved>> /\ due' \subseteq due
        /\ asked' \subseteq asked \cup {r} /\ late' \subseteq late \cup {r}
    BY DEF RunNext, Start, Claim, LeaveRest, BeginCast, Lower, Elute, Lift, StepFails,
       Measure, Measured, AskPause, Hold, Answer, Unhold, End, Rest, GiveBack, schedule, Comes
  <2> QED BY <2>1, <2>2 DEF OrdersTyped
<1> QED BY <1>1, <1>2, <1>3, <1>4

\* So do a purge's.
LEMMA PurgeTyped ==
  ASSUME RigTyped, NEW p \in Purges, PurgeNext(p)
  PROVE  RigTyped'
<1> USE DEF RigTyped
<1>0. /\ "purge" \in Owners /\ p \in Blamed /\ p \in Actors /\ PurgeInstruments \in SUBSET Instruments
  BY ActorFacts DEF Blamed, PurgeInstruments, Instruments
<1>1. ClaimsTyped'
  BY <1>0, RegistryTyped DEF PurgeNext, Look, ReadPose, Defer, DryRun, ClaimPurge, Approach,
     TravelPurge, PutBack, EndPurge, Dispense
<1>2. PlacesTyped'
  <2>1. \A where \in {"idle", "looked", "posed", "claimed", "dispense", "back", "release", "retract",
                      "move", "descend"} : where \in PurgePlaces
    BY DEF PurgePlaces, Travelling
  <2> QED BY <2>1, GoesSomewhere DEF PurgeNext, Look, ReadPose, Defer, DryRun, ClaimPurge, Approach,
     EnterRest, TravelPurge, Travel, PutBack, EndPurge, Dispense, After
<1>3. PoseTyped'
  <2>1. UNCHANGED <<pose, refused>> => PoseTyped'
    BY DEF PoseTyped, pose
  <2>2. CASE PutBack(p)
    BY <1>0, <2>2, RetractTyped DEF PutBack
  <2>3. CASE TravelPurge(p)
    <3>1. CASE UNCHANGED pose
      BY <2>1, <2>3, <3>1 DEF TravelPurge
    <3>2. CASE \E h \in {"up", "down"} : SetHead(p, h)
      BY <1>0, <2>3, <3>2, HeadTyped DEF TravelPurge
    <3>3. CASE place' = "flush" /\ UNCHANGED <<head, mover>>
      BY <2>3, <3>3 DEF TravelPurge, PoseTyped
    <3> QED BY <2>3, <3>1, <3>2, <3>3 DEF TravelPurge, Travel
  <2> QED BY <2>1, <2>2, <2>3 DEF PurgeNext, Look, ReadPose, Defer, DryRun, ClaimPurge, Approach,
             EndPurge, Dispense
<1>4. OrdersTyped'
  <2>1. \A q \in Purges \ {p} : pc'[q] = pc[q]
    <3>1. UNCHANGED pc \/ \E where : Goto(p, where)
      BY DEF PurgeNext, Look, ReadPose, Defer, DryRun, ClaimPurge, Approach, TravelPurge, Travel,
         PutBack, EndPurge, Dispense
    <3> QED BY <1>0, <3>1 DEF PlacesTyped, Goto, Actors
  <2>2. UNCHANGED <<manual, latched, actuate, asked>> /\ due' \subseteq due
        /\ late' \in {late, {}, {"manual"}}
    BY DEF PurgeNext, Look, ReadPose, Defer, DryRun, ClaimPurge, Approach, TravelPurge, PutBack,
       EndPurge, Dispense, schedule, Forget
  <2>3. CASE Look(p)
    <3>1. pc'[p] = "looked" /\ todo' = [todo EXCEPT ![p] = Lines] /\ moved' = moved
      BY <1>0, <2>3 DEF Look, Goto, PlacesTyped
    <3> QED BY <2>1, <2>2, <3>1 DEF OrdersTyped
  <2>4. CASE Defer(p) \/ DryRun(p) \/ EndPurge(p)
    <3>1. todo' = [todo EXCEPT ![p] = {}] /\ moved' = moved \ {p}
      BY <2>4 DEF Defer, DryRun, EndPurge, Forget
    <3> QED BY <2>1, <2>2, <3>1 DEF OrdersTyped
  <2>5. CASE ReadPose(p) \/ ClaimPurge(p) \/ Approach(p) \/ TravelPurge(p) \/ PutBack(p)
             \/ \E out \in SUBSET todo[p] : Dispense(p, out)
    <3>1. pc'[p] \in PurgePlaces \ {"idle"}
      BY <1>0, <2>5 DEF ReadPose, ClaimPurge, Approach, EnterRest, TravelPurge, Travel, PutBack,
                        Dispense, After, Goto, PlacesTyped, PurgePlaces, Travelling
    <3>2. todo' = todo /\ moved' \subseteq moved \cup {p}
          /\ \A q \in Purges \ {p} : q \in moved' <=> q \in moved
      BY <2>5 DEF ReadPose, ClaimPurge, Approach, TravelPurge, PutBack, Dispense, schedule
    <3> QED BY <2>1, <2>2, <3>1, <3>2 DEF OrdersTyped
  <2> QED BY <2>3, <2>4, <2>5 DEF PurgeNext
<1> QED BY <1>1, <1>2, <1>3, <1>4

\* And those of the operator and the schedule.
Else ==
  \/ \E l \in Lines : Stagnate(l)
  \/ \E want \in {{"stage"}, {"syringe"}} : Command(want)
  \/ Commanded \/ Park \/ ClearPark

\* Every step keeps the types.
LEMMA RigTypesKept == RigTyped /\ [RigNext]_rigvars => RigTyped'
<1> SUFFICES ASSUME RigTyped, [RigNext]_rigvars PROVE RigTyped'
  OBVIOUS
<1>1. CASE Else \/ UNCHANGED rigvars
  <2> USE DEF RigTyped
  <2>1. UNCHANGED <<pc, claims, suspended, refused, asked, todo, moved, actuate, late>>
    BY <1>1 DEF Else, Stagnate, Command, Commanded, Park, ClearPark, registry, schedule, rigvars
  <2>2. PlacesTyped' /\ ClaimsTyped'
    BY <2>1 DEF PlacesTyped, ClaimsTyped
  <2>3. due' \subseteq Lines /\ manual' \subseteq Instruments /\ latched' \in BOOLEAN
    BY <1>1 DEF Else, Stagnate, Command, Commanded, Park, ClearPark, schedule, rigvars, OrdersTyped,
                Instruments
  <2>4. OrdersTyped'
    BY <2>1, <2>3 DEF OrdersTyped
  <2>5. PoseTyped'
    <3>1. CASE UNCHANGED pose
      BY <2>1, <3>1 DEF pose, PoseTyped
    <3>2. CASE \E h \in {"up", "down"} : SetHead("manual", h)
      BY <2>1, <3>2, HeadTyped DEF Blamed
    <3>3. CASE place' \in {"flush", "elsewhere"} /\ UNCHANGED <<head, mover>>
      BY <2>1, <3>3 DEF PoseTyped
    <3> QED BY <1>1, <3>1, <3>2, <3>3 DEF Else, Stagnate, Command, Commanded, Park, ClearPark, rigvars
  <2> QED BY <2>2, <2>4, <2>5
<1> QED BY <1>1, RunTyped, PurgeTyped DEF RigNext, Else

\* The registry, the runs and the purges keep their types, for any runs and fluid lines
\* (rig_activity.py, purge_runner.py).
THEOREM RigTypedHolds == RigSpec => []RigTypeOK
<1>1. RigTyped => RigTypeOK
  BY DEF RigTyped, RigTypeOK, PlacesTyped, PoseTyped, ClaimsTyped, OrdersTyped, RunPlaces, PurgePlaces
<1> QED BY <1>1, RigStarts, RigTypesKept, PTL DEF RigSpec

--------------------------------------------------------------------------------
(* The claims.                                                             *)

\* A run has its claim and nothing else, from the moment it enters it until it gives it
\* back, and is suspended only while it is held.
RunClaims ==
  \A r \in Runs :
    /\ claims[r] = IF Away(r) THEN <<>> ELSE <<Scope(r)>>
    /\ r \in suspended => pc[r] = "held"

AtWork == {p \in Purges : ~Away(p)}

\* The purges' claims are as many as the purges at work.
PurgeClaims == "purge" \notin suspended /\ Len(claims["purge"]) = Cardinality(AtWork)

ClaimsKnown == RigTyped /\ RunClaims /\ PurgeClaims

\* Nobody drives, so nobody has to be claimed for.
LEMMA ClaimsStart == RigInit => ClaimsKnown
<1> SUFFICES ASSUME RigInit PROVE ClaimsKnown
  OBVIOUS
<1>1. RunClaims
  BY ActorFacts DEF RigInit, RunClaims, Away
<1>2. AtWork = {}
  BY DEF RigInit, AtWork, Away, Actors
<1>3. PurgeClaims
  BY <1>2, ActorFacts, FS_EmptySet DEF RigInit, PurgeClaims
<1> QED BY <1>1, <1>3, RigStarts DEF ClaimsKnown

\* What a run does to the registry: nothing, or one of four things to itself.
LEMMA RunClaimsKept ==
  ASSUME ClaimsKnown, NEW r \in Runs, RunNext(r)
  PROVE  ClaimsKnown'
<1> USE DEF ClaimsKnown
<1>0. /\ r \in Owners /\ r \in Actors /\ r # "purge" /\ "purge" \in Owners /\ Runs \subseteq Actors
      /\ Purges \subseteq Actors /\ r \notin Purges /\ Runs \subseteq Owners
  BY ActorFacts
<1>1. RigTyped'
  BY RigTypesKept DEF RigNext
<1>2. \A a \in Actors \ {r} : pc'[a] = pc[a]
  <2>1. UNCHANGED pc \/ \E where : Goto(r, where)
    BY DEF RunNext, Start, Claim, LeaveRest, BeginCast, Lower, Elute, Lift, StepFails,
       Measure, Measured, AskPause, Hold, Answer, Unhold, End, Rest, Travel, GiveBack
  <2> QED BY <1>0, <2>1 DEF RigTyped, PlacesTyped, Goto
<1>3. /\ \A o \in Owners \ {r} : claims'[o] = claims[o]
      /\ \A o \in Owners \ {r} : o \in suspended' <=> o \in suspended
  BY <1>0 DEF RigTyped, ClaimsTyped, RunNext, Start, Claim, LeaveRest, BeginCast, Lower, Elute, Lift,
     StepFails, Measure, Measured, AskPause, Hold, Answer, Unhold, End, Rest, GiveBack, registry,
     Acquire, Release, Suspend, Unsuspend
<1>4. claims'[r] = (IF Away(r)' THEN <<>> ELSE <<Scope(r)>>) /\ (r \in suspended' => pc'[r] = "held")
  <2>1. claims[r] = (IF Away(r) THEN <<>> ELSE <<Scope(r)>>) /\ (r \in suspended => pc[r] = "held")
    BY DEF RunClaims
  <2>2. CASE Claim(r)
    <3>1. pc[r] = "starting" /\ pc'[r] = "claimed"
          /\ claims'[r] = Append(claims[r], Scope(r)) /\ suspended' = suspended
      BY <1>0, <2>2 DEF Claim, Goto, Acquire, RigTyped, PlacesTyped, ClaimsTyped
    <3>2. Append(<<>>, Scope(r)) = <<Scope(r)>>
      OBVIOUS
    <3> QED BY <2>1, <3>1, <3>2 DEF Away
  <2>3. CASE GiveBack(r)
    <3>1. pc[r] = "release" /\ pc'[r] = "idle"
      BY <1>0, <2>3 DEF GiveBack, Goto, RigTyped, PlacesTyped
    <3>2. claims[r] = <<Scope(r)>> /\ r \notin suspended
      BY <2>1, <3>1 DEF Away
    <3>3. SubSeq(claims[r], 1, Len(claims[r]) - 1) = <<>>
      BY <3>2
    <3>4. claims'[r] = <<>> /\ r \notin suspended'
      BY <1>0, <2>3, <3>3 DEF GiveBack, Release, RigTyped, ClaimsTyped
    <3> QED BY <3>1, <3>4 DEF Away
  <2>4. CASE Hold(r) \/ Unhold(r)
    <3>1. claims'[r] = claims[r] /\ ~Away(r) /\ ~Away(r)'
      BY <1>0, <2>4 DEF Hold, Unhold, Suspend, Unsuspend, Goto, RigTyped, PlacesTyped, Away
    <3>2. r \in suspended' => pc'[r] = "held"
      BY <1>0, <2>1, <2>4 DEF Hold, Unhold, Suspend, Unsuspend, Goto, RigTyped, PlacesTyped
    <3> QED BY <2>1, <3>1, <3>2
  <2>5. CASE ~(Claim(r) \/ GiveBack(r) \/ Hold(r) \/ Unhold(r))
    <3>1. UNCHANGED registry
      BY <2>5 DEF RunNext, Start, LeaveRest, BeginCast, Lower, Elute, Lift, StepFails, Measure, Measured,
                  AskPause, Answer, End, Rest
    <3>2. Away(r)' = Away(r) /\ (pc[r] = "held" => pc'[r] = "held")
      <4>1. UNCHANGED pc \/ Start(r) \/ \E where \in {"running", "over", "down", "measure", "release",
               "retract", "move", "descend"} :
               Goto(r, where) /\ pc[r] \notin {"idle", "starting", "held"}
        BY <2>5 DEF RunNext, LeaveRest, BeginCast, Lower, Elute, Lift, StepFails, Measure, Measured,
                    AskPause, Answer, End, EnterRest, Rest, Travel
      <4>2. pc[r] \in RunPlaces
        BY DEF RigTyped, PlacesTyped
      <4> QED BY <1>0, <4>1, <4>2 DEF Start, Goto, RigTyped, PlacesTyped, Away, RunPlaces, Begun,
                                      Stepping, Travelling
    <3> QED BY <2>1, <3>1, <3>2 DEF registry
  <2> QED BY <2>2, <2>3, <2>4, <2>5
<1>5. RunClaims'
  BY <1>0, <1>2, <1>3, <1>4 DEF RunClaims, Away
<1>6. PurgeClaims'
  <2>1. AtWork' = AtWork
    BY <1>0, <1>2 DEF AtWork, Away
  <2> QED BY <1>0, <1>3, <2>1 DEF PurgeClaims
<1> QED BY <1>1, <1>5, <1>6

\* The purges are two, so those at work can be counted.
LEMMA AtWorkCounts ==
  ASSUME NEW S \in SUBSET Purges, NEW p \in Purges
  PROVE  /\ Cardinality(S) \in Nat
         /\ p \notin S => Cardinality(S \cup {p}) = Cardinality(S) + 1
         /\ p \in S => Cardinality(S \ {p}) = Cardinality(S) - 1 /\ Cardinality(S) > 0
<1>1. IsFiniteSet({}) /\ IsFiniteSet({} \cup {"tick"})
  BY FS_EmptySet, FS_AddElement
<1>2. IsFiniteSet(({} \cup {"tick"}) \cup {"window"})
  BY <1>1, FS_AddElement
<1>3. IsFiniteSet(Purges)
  <2>1. Purges = ({} \cup {"tick"}) \cup {"window"}
    BY DEF Purges
  <2> QED BY <1>2, <2>1
<1>4. IsFiniteSet(S)
  BY <1>3, FS_Subset
<1>5. Cardinality(S) \in Nat
  BY <1>4, FS_CardinalityType
<1>6. p \in S => Cardinality(S) > 0
  BY <1>4, <1>5, FS_EmptySet
<1> QED BY <1>4, <1>5, <1>6, FS_AddElement, FS_RemoveElement

\* A purge enters one claim and gives one back.
LEMMA PurgeClaimsKept ==
  ASSUME ClaimsKnown, NEW p \in Purges, PurgeNext(p)
  PROVE  ClaimsKnown'
<1> USE DEF ClaimsKnown
<1>0. /\ p \in Actors /\ "purge" \in Owners /\ "purge" \notin Runs /\ Runs \subseteq Actors
      /\ Purges \subseteq Actors /\ p \notin Runs /\ Runs \subseteq Owners
  BY ActorFacts
<1>1. RigTyped'
  BY RigTypesKept DEF RigNext
<1>2. \A a \in Actors \ {p} : pc'[a] = pc[a]
  <2>1. UNCHANGED pc \/ \E where : Goto(p, where)
    BY DEF PurgeNext, Look, ReadPose, Defer, DryRun, ClaimPurge, Approach, TravelPurge, Travel,
       PutBack, EndPurge, Dispense
  <2> QED BY <1>0, <2>1 DEF RigTyped, PlacesTyped, Goto
<1>3. /\ \A o \in Owners \ {"purge"} : claims'[o] = claims[o]
      /\ \A o \in Owners \ {"purge"} : o \in suspended' <=> o \in suspended
      /\ "purge" \notin suspended'
  BY <1>0 DEF PurgeClaims, RigTyped, ClaimsTyped, PurgeNext, Look, ReadPose, Defer, DryRun, ClaimPurge,
     Approach, TravelPurge, PutBack, EndPurge, Dispense, registry, Acquire, Release
<1>4. RunClaims'
  BY <1>0, <1>2, <1>3 DEF RunClaims, Away
<1>5. Len(claims'["purge"]) = Cardinality(AtWork')
  <2>1. AtWork \in SUBSET Purges /\ claims["purge"] \in Seq(SUBSET Instruments)
    BY <1>0 DEF AtWork, RigTyped, ClaimsTyped
  <2>2. CASE ClaimPurge(p)
    <3>1. p \notin AtWork /\ AtWork' = AtWork \cup {p}
      BY <1>0, <1>2, <2>2 DEF ClaimPurge, Goto, RigTyped, PlacesTyped, AtWork, Away
    <3>2. claims'["purge"] = Append(claims["purge"], PurgeInstruments)
          /\ PurgeInstruments \in SUBSET Instruments
      BY <1>0, <2>2 DEF ClaimPurge, Acquire, RigTyped, ClaimsTyped, PurgeInstruments, Instruments
    <3> QED BY <2>1, <3>1, <3>2, AtWorkCounts DEF PurgeClaims
  <2>3. CASE EndPurge(p)
    <3>1. p \in AtWork /\ AtWork' = AtWork \ {p}
      BY <1>0, <1>2, <2>3 DEF EndPurge, Goto, RigTyped, PlacesTyped, AtWork, Away
    <3>2. claims'["purge"] = SubSeq(claims["purge"], 1, Len(claims["purge"]) - 1)
      BY <1>0, <2>3 DEF EndPurge, Release, RigTyped, ClaimsTyped
    <3>3. Cardinality(AtWork) \in Nat /\ Cardinality(AtWork) > 0
          /\ Cardinality(AtWork') = Cardinality(AtWork) - 1
      BY <2>1, <3>1, AtWorkCounts
    <3> QED BY <2>1, <3>2, <3>3 DEF PurgeClaims
  <2>4. CASE ~(ClaimPurge(p) \/ EndPurge(p))
    <3>1. UNCHANGED registry
      BY <2>4 DEF PurgeNext, Look, ReadPose, Defer, DryRun, Approach, TravelPurge, PutBack, Dispense
    <3>2. Away(p)' = Away(p)
      <4>1. pc[p] \in PurgePlaces
        BY DEF RigTyped, PlacesTyped
      <4> QED BY <1>0, <2>4, <4>1 DEF PurgeNext, Look, ReadPose, Defer, DryRun, Approach, EnterRest,
            TravelPurge, Travel, PutBack, Dispense, After, Goto, RigTyped, PlacesTyped, Away,
            PurgePlaces, Travelling
    <3>3. AtWork' = AtWork
      BY <1>0, <1>2, <3>2 DEF AtWork, Away
    <3> QED BY <3>1, <3>3 DEF PurgeClaims, registry
  <2> QED BY <2>2, <2>3, <2>4
<1>6. PurgeClaims'
  BY <1>3, <1>5 DEF PurgeClaims
<1> QED BY <1>1, <1>4, <1>6

\* A claim stands as long as its run drives: every step, whoever takes it.
LEMMA ClaimsKept == ClaimsKnown /\ [RigNext]_rigvars => ClaimsKnown'
<1> SUFFICES ASSUME ClaimsKnown, [RigNext]_rigvars PROVE ClaimsKnown'
  OBVIOUS
<1>1. CASE Else \/ UNCHANGED rigvars
  <2>1. RigTyped'
    BY RigTypesKept DEF ClaimsKnown
  <2>2. UNCHANGED <<pc, claims, suspended>>
    BY <1>1 DEF Else, Stagnate, Command, Commanded, Park, ClearPark, registry, schedule, rigvars
  <2>3. AtWork' = AtWork /\ RunClaims' = RunClaims
    BY <2>2 DEF AtWork, RunClaims, Away
  <2> QED BY <2>1, <2>2, <2>3 DEF ClaimsKnown, PurgeClaims
<1> QED BY <1>1, RunClaimsKept, PurgeClaimsKept DEF RigNext, Else

\* A run's claim covers what it drives for as long as it drives, and what is claimed is
\* given back, whatever is held, refused or raised on the way (rig_run, RigActivity).
THEOREM ClaimCoversHolds == RigSpec => []ClaimCovers
<1>1. ClaimsKnown => ClaimCovers
  <2> SUFFICES ASSUME ClaimsKnown PROVE ClaimCovers
    OBVIOUS
  <2> USE DEF ClaimsKnown
  <2>1. ASSUME NEW r \in Runs, DrivingRun(r)
        PROVE  r \notin suspended /\ \E i \in DOMAIN claims[r] : Drives(r) \subseteq claims[r][i]
    <3>1. ~Away(r) /\ pc[r] # "held"
      BY <2>1 DEF DrivingRun, Away, Stepping, Travelling
    <3>2. claims[r] = <<Scope(r)>> /\ r \notin suspended
      BY <3>1 DEF RunClaims
    <3>3. Drives(r) \subseteq Scope(r)
      BY DEF Drives, Scope, Instruments
    <3>4. 1 \in DOMAIN claims[r] /\ claims[r][1] = Scope(r)
      BY <3>2
    <3> QED BY <3>2, <3>3, <3>4
  <2>2. Len(claims["purge"]) = Cardinality({p \in Purges : ~Away(p)})
    BY DEF PurgeClaims, AtWork
  <2>3. \A r \in Runs : Away(r) => claims[r] = <<>> /\ r \notin suspended
    BY DEF RunClaims, Away
  <2> QED BY <2>1, <2>2, <2>3 DEF ClaimCovers
<1> QED BY <1>1, ClaimsStart, ClaimsKept, PTL DEF RigSpec

--------------------------------------------------------------------------------
(* Who is met.                                                             *)

Ticking == pc["tick"] # "idle"

\* Whoever drives the syringe or the stage while the tick is at work came after it looked;
\* only fluidic runs move the head, and a purge window is open beside a step of its host.
WhoDrives ==
  /\ Ticking => \A r \in Fluidic : DrivingRun(r) => r \in late
  /\ Ticking /\ manual # {} => late # {}
  /\ \A r \in Runs : pc[r] \in {"over", "down"} \cup Travelling => r \in Fluidic
  /\ pc["window"] # "idle" => pc[Host] = "measure"

\* Alone, the tick finds the rig as it left it.
TickPose ==
  late = {} =>
    /\ pc["tick"] = "move" => head = "up"
    /\ pc["tick"] = "descend" => place = "flush"
    /\ pc["tick"] = "dispense" => InBasin

LateInv == ClaimsKnown /\ WhoDrives /\ TickPose

\* No tick under way.
LEMMA LateStarts == RigInit => LateInv
<1> SUFFICES ASSUME RigInit PROVE LateInv
  OBVIOUS
<1>1. \A a \in Actors : pc[a] = "idle"
  BY DEF RigInit
<1>2. WhoDrives
  BY <1>1, ActorFacts DEF WhoDrives, Ticking, Travelling
<1>3. TickPose
  BY <1>1, ActorFacts DEF TickPose
<1> QED BY <1>2, <1>3, ClaimsStart DEF LateInv

\* While the tick is at work and nobody came, nobody but the tick is on the move.
LEMMA NobodyElseMoves ==
  ASSUME LateInv, Ticking, late = {}
  PROVE  /\ \A r \in Runs : pc[r] \notin {"over", "down"} \cup Travelling
         /\ \A r \in Resting : ~DrivingRun(r)
         /\ pc["window"] = "idle" /\ manual = {}
<1>1. \A r \in Fluidic : ~DrivingRun(r)
  BY DEF LateInv, WhoDrives
<1>2. \A r \in Runs : pc[r] \notin {"over", "down"} \cup Travelling
  BY <1>1 DEF LateInv, WhoDrives, DrivingRun, Stepping
<1>3. pc["window"] = "idle"
  BY <1>1, ActorFacts DEF LateInv, WhoDrives, DrivingRun, Stepping
<1> QED BY <1>1, <1>2, <1>3, ActorFacts DEF LateInv, WhoDrives

\* A run that comes to the rig is written down; one that is there stays written down.
LEMMA RunKeepsLate ==
  ASSUME LateInv, NEW r \in Runs, RunNext(r)
  PROVE  WhoDrives' /\ TickPose'
<1> USE DEF LateInv
<1>0. /\ r \in Actors /\ r \notin Purges /\ Runs \subseteq Actors /\ Purges \subseteq Actors
      /\ "tick" \in Purges /\ "window" \in Purges /\ Host \in Runs /\ Fluidic \subseteq Runs
      /\ Resting \subseteq Fluidic
  BY ActorFacts
<1>1. pc \in [Actors -> RunPlaces \cup PurgePlaces] /\ pc[r] \in RunPlaces /\ late \subseteq Runs \cup {"manual"}
  BY DEF ClaimsKnown, RigTyped, PlacesTyped, OrdersTyped
<1>2. \A a \in Actors \ {r} : pc'[a] = pc[a]
  <2>1. UNCHANGED pc \/ \E where : Goto(r, where)
    BY DEF RunNext, Start, Claim, LeaveRest, BeginCast, Lower, Elute, Lift, StepFails,
       Measure, Measured, AskPause, Hold, Answer, Unhold, End, Rest, Travel, GiveBack
  <2> QED BY <1>0, <1>1, <2>1 DEF Goto
<1>3. pc'["tick"] = pc["tick"] /\ pc'["window"] = pc["window"] /\ manual' = manual
  <2>1. manual' = manual
    BY DEF RunNext, Start, Claim, LeaveRest, BeginCast, Lower, Elute, Lift, StepFails,
       Measure, Measured, AskPause, Hold, Answer, Unhold, End, Rest, GiveBack
  <2> QED BY <1>0, <1>2, <2>1
<1>4. CASE Claim(r) \/ Unhold(r)
  <2>1. late' = (IF Ticking THEN late \cup {r} ELSE late) /\ UNCHANGED pose
        /\ pc[r] \in {"starting", "held"} /\ pc'[r] \in {"claimed", "running"}
    BY <1>0, <1>1, <1>4 DEF Claim, Unhold, Comes, WindowFree, Ticking, Goto
  <2>2. \A q \in Runs \ {r} : DrivingRun(q)' = DrivingRun(q)
    BY <1>0, <1>2 DEF DrivingRun
  <2>3. r # Host \/ pc["window"] = "idle"
    BY <2>1 DEF WhoDrives
  <2>4. WhoDrives'
    BY <1>0, <1>2, <1>3, <2>1, <2>2, <2>3 DEF WhoDrives, Ticking, Travelling
  <2>5. TickPose'
    BY <1>3, <2>1 DEF TickPose, Ticking, pose, InBasin
  <2> QED BY <2>4, <2>5
<1>5. CASE ~(Claim(r) \/ Unhold(r))
  <2>1. late' = late
    BY <1>5 DEF RunNext, Start, LeaveRest, BeginCast, Lower, Elute, Lift, StepFails,
       Measure, Measured, AskPause, Hold, Answer, End, Rest, GiveBack
  <2>2. DrivingRun(r)' => DrivingRun(r)
    BY <1>0, <1>1, <1>5 DEF RunNext, Start, LeaveRest, BeginCast, Lower, Elute, Lift, StepFails,
       Measure, Measured, AskPause, Hold, Answer, End, EnterRest, Rest, Travel, GiveBack, Goto,
       DrivingRun, Stepping, Travelling
  <2>3. pc'[r] \in {"over", "down"} \cup Travelling => r \in Fluidic
    BY <1>0, <1>1, <1>5 DEF WhoDrives, RunNext, Start, LeaveRest, BeginCast, Lower, Elute, Lift, StepFails,
       Measure, Measured, AskPause, Hold, Answer, End, EnterRest, Rest, Travel, GiveBack, Goto,
       Travelling
  <2>4. r = Host /\ pc["window"] # "idle" => pc'[r] = "measure"
    BY <1>0, <1>1, <1>5 DEF WhoDrives, RunNext, Start, LeaveRest, BeginCast, Lower, Elute, Lift, StepFails,
       Measure, Measured, AskPause, Hold, Answer, End, Rest, Travel, GiveBack, Goto
  <2>5. WhoDrives'
    <3>1. \A q \in Runs : DrivingRun(q)' => DrivingRun(q)
      BY <1>0, <1>2, <2>2 DEF DrivingRun
    <3> QED BY <1>0, <1>2, <1>3, <2>1, <2>3, <2>4, <3>1 DEF WhoDrives, Ticking
  <2>6. TickPose'
    <3>1. CASE ~Ticking \/ late # {}
      BY <1>3, <2>1, <3>1 DEF TickPose, Ticking
    <3>2. CASE Ticking /\ late = {}
      <4>1. pc[r] \notin {"over", "down"} \cup Travelling /\ (r \in Resting => ~DrivingRun(r))
            /\ (r \in Fluidic => ~DrivingRun(r))
        BY <3>2, NobodyElseMoves DEF WhoDrives
      <4>2. UNCHANGED <<head, place>>
        BY <1>0, <1>5, <4>1 DEF RunNext, Start, LeaveRest, BeginCast, Lower, Elute, Lift, StepFails,
           Measure, Measured, AskPause, Hold, Answer, End, Rest, Travel, GiveBack, pose, DrivingRun,
           Travelling
      <4> QED BY <1>3, <2>1, <4>2 DEF TickPose, InBasin
    <3> QED BY <3>1, <3>2
  <2> QED BY <2>5, <2>6
<1> QED BY <1>4, <1>5

\* A purge that looks finds nobody who drives; only its end clears what was written down.
LEMMA PurgeKeepsLate ==
  ASSUME LateInv, NEW p \in Purges, PurgeNext(p)
  PROVE  WhoDrives' /\ TickPose'
<1> USE DEF LateInv
<1>0. /\ p \in Actors /\ p \notin Runs /\ Runs \subseteq Actors /\ Purges \subseteq Actors
      /\ "tick" \in Purges /\ "window" \in Purges /\ Host \in Runs /\ Fluidic \subseteq Runs
      /\ Runs \subseteq Owners
  BY ActorFacts
<1>1. pc \in [Actors -> RunPlaces \cup PurgePlaces] /\ pc[p] \in PurgePlaces
  BY DEF ClaimsKnown, RigTyped, PlacesTyped
<1>2. \A a \in Actors \ {p} : pc'[a] = pc[a]
  <2>1. UNCHANGED pc \/ \E where : Goto(p, where)
    BY DEF PurgeNext, Look, ReadPose, Defer, DryRun, ClaimPurge, Approach, TravelPurge, Travel,
       PutBack, EndPurge, Dispense
  <2> QED BY <1>0, <1>1, <2>1 DEF Goto
<1>3. manual' = manual /\ \A r \in Runs : pc'[r] = pc[r] /\ DrivingRun(r)' = DrivingRun(r)
  <2>1. manual' = manual
    BY DEF PurgeNext, Look, ReadPose, Defer, DryRun, ClaimPurge, Approach, TravelPurge, PutBack,
       EndPurge, Dispense
  <2> QED BY <1>0, <1>2, <2>1 DEF DrivingRun
<1>4. pc'["window"] # "idle" => pc'[Host] = "measure"
  <2>1. CASE p = "window"
    BY <1>0, <1>1, <1>3, <2>1 DEF WhoDrives, PurgeNext, Look, ReadPose, Defer, DryRun, ClaimPurge, Approach,
       TravelPurge, Travel, PutBack, EndPurge, Dispense
  <2>2. CASE p # "window"
    BY <1>0, <1>2, <1>3, <2>2 DEF WhoDrives
  <2> QED BY <2>1, <2>2
<1>5. \A r \in Runs : pc'[r] \in {"over", "down"} \cup Travelling => r \in Fluidic
  BY <1>3 DEF WhoDrives
<1>6. CASE p = "window"
  <2>1. pc'["tick"] = pc["tick"] /\ late' = late
    BY <1>0, <1>2, <1>6 DEF PurgeNext, Look, ReadPose, Defer, DryRun, ClaimPurge, Approach,
       TravelPurge, PutBack, EndPurge, Dispense, Forget
  <2>2. WhoDrives'
    BY <1>0, <1>3, <1>4, <1>5, <2>1 DEF WhoDrives, Ticking
  <2>3. TickPose'
    <3>1. CASE ~Ticking \/ late # {}
      BY <2>1, <3>1 DEF TickPose, Ticking
    <3>2. CASE Ticking /\ late = {}
      <4>1. pc["window"] = "idle"
        BY <3>2, NobodyElseMoves
      <4>2. UNCHANGED pose
        BY <1>6, <4>1 DEF PurgeNext, Look, ReadPose, Defer, DryRun, ClaimPurge, Approach,
           TravelPurge, Travel, PutBack, EndPurge, Dispense
      <4> QED BY <2>1, <4>2 DEF TickPose, InBasin, pose
    <3> QED BY <3>1, <3>2
  <2> QED BY <2>2, <2>3
<1>7. CASE Look("tick")
  <2>1. \A r \in Fluidic : ~DrivingRun(r)
    <3> SUFFICES ASSUME NEW r \in Fluidic, DrivingRun(r) PROVE FALSE
      OBVIOUS
    <3>1. r \in Runs /\ ~Away(r) /\ pc[r] # "held"
      BY <1>0 DEF DrivingRun, Away, Stepping, Travelling
    <3>2. claims[r] = <<Scope(r)>> /\ r \notin suspended /\ r \in Owners
      BY <1>0, <3>1 DEF ClaimsKnown, RunClaims
    <3>3. Scope(r) \cap PurgeInstruments # {}
      BY DEF Scope, Drives, Instruments, PurgeInstruments
    <3>4. 1 \in DOMAIN claims[r] /\ claims[r][1] = Scope(r)
      BY <3>2
    <3>5. Covers(r, PurgeInstruments)
      BY <3>3, <3>4 DEF Covers
    <3> QED BY <1>7, <3>2, <3>5 DEF Look, Blocked, Conflicts
  <2>2. late' = (IF manual # {} THEN {"manual"} ELSE late) /\ pc'["tick"] = "looked"
    BY <1>0, <1>1, <1>7 DEF Look, Goto
  <2>3. WhoDrives'
    BY <1>0, <1>3, <1>4, <1>5, <2>1, <2>2 DEF WhoDrives, Ticking
  <2> QED BY <2>2, <2>3 DEF TickPose
<1>8. CASE Defer("tick") \/ DryRun("tick") \/ EndPurge("tick")
  <2>1. pc'["tick"] = "idle"
    BY <1>0, <1>1, <1>8 DEF Defer, DryRun, EndPurge, Goto
  <2> QED BY <1>3, <1>4, <1>5, <2>1 DEF WhoDrives, TickPose, Ticking
<1>9. CASE p = "tick" /\ ~(Look("tick") \/ Defer("tick") \/ DryRun("tick") \/ EndPurge("tick"))
  <2>1. Ticking /\ late' = late
    BY <1>9 DEF PurgeNext, ReadPose, ClaimPurge, Approach, TravelPurge, Travel, PutBack, Dispense, Ticking
  <2>2. WhoDrives'
    BY <1>0, <1>3, <1>4, <1>5, <2>1 DEF WhoDrives, Ticking
  <2>3. TickPose'
    <3>1. CASE ReadPose("tick") \/ ClaimPurge("tick") \/ PutBack("tick")
               \/ \E out \in SUBSET todo["tick"] : Dispense("tick", out)
      <4>1. pc'["tick"] \notin {"move", "descend", "dispense"}
        BY <1>0, <1>1, <3>1 DEF ReadPose, ClaimPurge, PutBack, Dispense, After, Goto
      <4> QED BY <4>1 DEF TickPose
    <3>2. CASE Approach("tick")
      <4>1. /\ UNCHANGED pose
            /\ \/ pc'["tick"] = "dispense" /\ InBasin
               \/ pc'["tick"] \in {"release", "retract"}
        BY <1>0, <1>1, <3>2 DEF Approach, EnterRest, Goto
      <4> QED BY <4>1 DEF TickPose, InBasin, pose
    <3>3. CASE TravelPurge("tick")
      <4>1. PoseTyped
        BY DEF ClaimsKnown, RigTyped
      <4>2. \/ pc'["tick"] = "move" /\ head' = "up"
            \/ pc[ "tick"] = "move" /\ pc'["tick"] = "descend" /\ place' = "flush"
            \/ pc'["tick"] = "release"
            \/ pc["tick"] = "descend" /\ pc'["tick"] = "dispense" /\ head' = "down" /\ place' = place
        BY <1>0, <1>1, <3>3 DEF TravelPurge, Travel, SetHead, Goto
      <4> QED BY <2>1, <4>2 DEF TickPose, InBasin
    <3> QED BY <1>9, <3>1, <3>2, <3>3 DEF PurgeNext
  <2> QED BY <2>2, <2>3
<1>10. p = "tick" \/ p = "window"
  BY DEF Purges
<1> QED BY <1>6, <1>7, <1>8, <1>9, <1>10

\* What a tick looked at stays so, or the one who came since is written down.
LEMMA LateKept == LateInv /\ [RigNext]_rigvars => LateInv'
<1> SUFFICES ASSUME LateInv, [RigNext]_rigvars PROVE LateInv'
  OBVIOUS
<1>1. ClaimsKnown'
  BY ClaimsKept DEF LateInv
<1>2. CASE Else \/ UNCHANGED rigvars
  <2>1. UNCHANGED <<pc, late>>
    BY <1>2 DEF Else, Stagnate, Command, Commanded, Park, ClearPark, rigvars
  <2>2. Ticking => manual' \in {manual, {}}
    BY <1>2 DEF Else, Stagnate, Command, Commanded, Park, ClearPark, rigvars, WindowFree, Ticking
  <2>3. WhoDrives'
    BY <2>1, <2>2 DEF LateInv, WhoDrives, Ticking, DrivingRun
  <2>4. TickPose'
    <3>1. CASE ~Ticking \/ late # {}
      BY <2>1, <3>1 DEF TickPose, Ticking
    <3>2. CASE Ticking /\ late = {}
      <4>1. manual = {}
        BY <3>2, NobodyElseMoves
      <4>2. UNCHANGED <<head, place>>
        BY <1>2, <4>1 DEF Else, Stagnate, Command, Commanded, Park, ClearPark, pose, rigvars
      <4> QED BY <2>1, <4>2 DEF LateInv, TickPose, InBasin
    <3> QED BY <3>1, <3>2
  <2> QED BY <1>1, <2>3, <2>4 DEF LateInv
<1> QED BY <1>1, <1>2, RunKeepsLate, PurgeKeepsLate DEF LateInv, RigNext, Else

\* The tick never drives beside a fluidic run, and dispenses only in the basin, unless
\* somebody came after it looked, for any runs and lines (maybe_purge).
THEOREM LateOnlyHolds == RigSpec => []LateOnly
<1>1. LateInv => LateOnly
  BY DEF LateInv, WhoDrives, TickPose, Ticking, LateOnly, DrivingPurge, Travelling
<1> QED BY <1>1, LateStarts, LateKept, PTL DEF RigSpec

--------------------------------------------------------------------------------
(* The first move of a step.                                               *)

\* A run that left the head down is in its drop or has been put to rest, and will lift it
\* on leaving rest; a purge in a window that lowered it is about to put it back.
MoverKnown ==
  /\ \A r \in Runs : mover = r =>
       \/ pc[r] = "down"
       \/ r \in Resting /\ pc[r] \in {"release", "idle", "starting", "claimed"}
  /\ mover = "window" => pc["window"] \in {"dispense", "back"} /\ "window" \in moved
  /\ pc["window"] \in Travelling => "window" \in moved
  /\ \A r \in Runs : pc[r] \in Travelling => r \in Resting

MoveInv == LateInv /\ MoverKnown /\ StepsMove

\* The head is up, by nobody's doing.
LEMMA MoveStarts == RigInit => MoveInv
<1> SUFFICES ASSUME RigInit PROVE MoveInv
  OBVIOUS
<1>1. \A a \in Actors : pc[a] = "idle"
  BY DEF RigInit
<1>2. MoverKnown
  BY <1>1, ActorFacts DEF RigInit, MoverKnown, Travelling
<1>3. StepsMove
  BY ActorFacts DEF RigInit, StepsMove
<1> QED BY <1>2, <1>3, LateStarts DEF MoveInv

\* Who lowers the head is written down when it was up; who lifts it clears the name.
LEMMA HeadMoves ==
  ASSUME NEW a, NEW h, SetHead(a, h)
  PROVE  mover' \in {Nobody, a, mover} /\ (h = "up" => mover' = Nobody)
BY DEF SetHead

\* A head that fails to go up is nobody's doing any more.
LEMMA HeadRetracts ==
  ASSUME NEW a, RetractHead(a)
  PROVE  mover' \in {Nobody, "fault"}
BY DEF RetractHead, SetHead

\* A run that lowers the head is in its drop, and its rest puts it up again on leaving.
LEMMA RunKeepsMover ==
  ASSUME MoveInv, Fluidic = {Host}, NEW r \in Runs, RunNext(r)
  PROVE  MoverKnown' /\ StepsMove'
<1> USE DEF MoveInv
<1>0. /\ r \in Actors /\ r \notin Purges /\ Runs \subseteq Actors /\ Purges \subseteq Actors
      /\ "window" \in Purges /\ Host \in Runs /\ Fluidic \subseteq Runs /\ Resting \subseteq Fluidic
      /\ Nobody \notin Runs \cup Purges /\ "fault" \notin Runs \cup Purges /\ Host \in Resting
  BY ActorFacts
<1>1. pc \in [Actors -> RunPlaces \cup PurgePlaces] /\ pc[r] \in RunPlaces
      /\ refused \in [Runs -> Blamed]
  BY DEF LateInv, ClaimsKnown, RigTyped, PlacesTyped, PoseTyped
<1>2. \A a \in Actors \ {r} : pc'[a] = pc[a]
  <2>1. UNCHANGED pc \/ \E where : Goto(r, where)
    BY DEF RunNext, Start, Claim, LeaveRest, BeginCast, Lower, Elute, Lift, StepFails,
       Measure, Measured, AskPause, Hold, Answer, Unhold, End, Rest, Travel, GiveBack
  <2> QED BY <1>0, <1>1, <2>1 DEF Goto
<1>3. moved' = moved /\ pc'["window"] = pc["window"]
  BY <1>0, <1>2 DEF RunNext, Start, Claim, LeaveRest, BeginCast, Lower, Elute, Lift, StepFails,
     Measure, Measured, AskPause, Hold, Answer, Unhold, End, Rest, GiveBack, schedule
<1>4. mover' \in {Nobody, "fault", r, mover}
  BY HeadMoves, HeadRetracts DEF RunNext, Start, Claim, LeaveRest, BeginCast, Lower, Elute, Lift, StepFails,
     Measure, Measured, AskPause, Hold, Answer, Unhold, End, Rest, Travel, GiveBack, pose
<1>5. pc'[r] \in Travelling => r \in Resting
  BY <1>0, <1>1 DEF MoverKnown, RunNext, Start, Claim, LeaveRest, BeginCast, Lower, Elute, Lift, StepFails,
     Measure, Measured, AskPause, Hold, Answer, Unhold, End, Rest, Travel, GiveBack, Goto, Travelling
<1>6. mover' = r => \/ pc'[r] = "down"
                    \/ r \in Resting /\ pc'[r] \in {"release", "idle", "starting", "claimed"}
  <2>1. mover = r => \/ pc[r] = "down"
                     \/ r \in Resting /\ pc[r] \in {"release", "idle", "starting", "claimed"}
    BY DEF MoverKnown
  <2>2. CASE LeaveRest(r)
    BY <1>0, <2>1, <2>2, HeadRetracts DEF LeaveRest, pose
  <2>3. CASE Lower(r) \/ Lift(r) \/ StepFails(r)
    BY <1>0, <1>1, <2>1, <2>3, HeadMoves DEF Lower, Lift, StepFails, Goto
  <2>4. CASE Rest(r)
    <3>1. pc[r] \in Travelling /\ r \in Resting
      BY <2>4 DEF Rest, Travel, Travelling, MoverKnown
    <3>2. mover # r
      BY <2>1, <3>1 DEF Travelling
    <3>3. mover' = r => pc'[r] = "release"
      BY <1>0, <1>1, <2>4, <3>2, HeadMoves DEF Rest, Travel, Goto, pose
    <3> QED BY <3>1, <3>3
  <2>5. CASE ~(LeaveRest(r) \/ Lower(r) \/ Lift(r) \/ StepFails(r) \/ Rest(r))
    <3>1. mover' = mover
      BY <2>5 DEF RunNext, Start, Claim, BeginCast, Elute, Measure, Measured, AskPause, Hold, Answer,
                  Unhold, End, GiveBack, pose
    <3>2. \/ pc'[r] = pc[r]
          \/ pc[r] \notin {"down", "release", "idle", "starting", "claimed"}
          \/ pc[r] = "idle" /\ pc'[r] = "starting"
          \/ pc[r] = "starting" /\ pc'[r] = "claimed"
          \/ pc[r] = "release" /\ pc'[r] = "idle"
      BY <1>0, <1>1, <2>5 DEF RunNext, Start, Claim, BeginCast, Elute, Measure, Measured, AskPause, Hold,
           Answer, Unhold, End, GiveBack, Goto
    <3> QED BY <2>1, <3>1, <3>2
  <2> QED BY <2>2, <2>3, <2>4, <2>5
<1>7. MoverKnown'
  BY <1>0, <1>2, <1>3, <1>4, <1>5, <1>6 DEF MoverKnown, Purges
<1>8. StepsMove'
  <2>1. CASE BeginCast(r)
    <3>1. r = Host /\ pc[Host] = "running"
      BY <2>1 DEF BeginCast
    <3>2. pc["window"] = "idle"
      BY <3>1 DEF LateInv, WhoDrives
    <3>3. mover # r /\ mover # "window"
      BY <3>1, <3>2 DEF MoverKnown
    <3>4. refused'[r] \in {Nobody, mover} /\ \A q \in Runs \ {r} : refused'[q] = refused[q]
      BY <1>1, <2>1 DEF BeginCast
    <3> QED BY <1>0, <3>3, <3>4 DEF StepsMove
  <2>2. CASE ~BeginCast(r)
    <3>1. \A q \in Runs : refused'[q] \in {Nobody, refused[q]}
      BY <1>1, <2>2 DEF RunNext, Start, Claim, LeaveRest, Lower, Elute, Lift, StepFails, Measure,
                        Measured, AskPause, Hold, Answer, Unhold, End, Rest, GiveBack
    <3> QED BY <1>0, <3>1 DEF StepsMove
  <2> QED BY <2>1, <2>2
<1> QED BY <1>7, <1>8

\* A purge that travels in a window puts the head back before the window closes.
LEMMA PurgeKeepsMover ==
  ASSUME MoveInv, NEW p \in Purges, PurgeNext(p)
  PROVE  MoverKnown' /\ StepsMove'
<1> USE DEF MoveInv
<1>0. /\ p \in Actors /\ p \notin Runs /\ Runs \subseteq Actors /\ Purges \subseteq Actors
      /\ "window" \in Purges /\ Nobody \notin Runs \cup Purges /\ "fault" \notin Runs \cup Purges
  BY ActorFacts
<1>1. pc \in [Actors -> RunPlaces \cup PurgePlaces] /\ pc[p] \in PurgePlaces /\ moved \subseteq Purges
  BY DEF LateInv, ClaimsKnown, RigTyped, PlacesTyped, OrdersTyped
<1>2. \A a \in Actors \ {p} : pc'[a] = pc[a]
  <2>1. UNCHANGED pc \/ \E where : Goto(p, where)
    BY DEF PurgeNext, Look, ReadPose, Defer, DryRun, ClaimPurge, Approach, TravelPurge, Travel,
       PutBack, EndPurge, Dispense
  <2> QED BY <1>0, <1>1, <2>1 DEF Goto
<1>3. refused' = refused /\ \A r \in Runs : pc'[r] = pc[r]
  <2>1. refused' = refused
    BY DEF PurgeNext, Look, ReadPose, Defer, DryRun, ClaimPurge, Approach, TravelPurge, PutBack,
       EndPurge, Dispense
  <2> QED BY <1>0, <1>2, <2>1
<1>4. mover' \in {Nobody, "fault", p, mover}
  BY HeadMoves, HeadRetracts DEF PurgeNext, Look, ReadPose, Defer, DryRun, ClaimPurge, Approach, TravelPurge, Travel,
     PutBack, EndPurge, Dispense, pose
<1>5. \A r \in Runs : mover' = r => mover = r
  BY <1>0, <1>4
<1>6. CASE p # "window"
  <2>1. pc'["window"] = pc["window"] /\ ("window" \in moved <=> "window" \in moved')
    BY <1>0, <1>2, <1>6 DEF PurgeNext, Look, ReadPose, Defer, DryRun, ClaimPurge, Approach, TravelPurge,
       PutBack, EndPurge, Dispense, Forget, schedule
  <2>2. mover' = "window" => mover = "window"
    BY <1>0, <1>4, <1>6
  <2> QED BY <1>3, <1>5, <2>1, <2>2 DEF MoverKnown, StepsMove
<1>7. CASE p = "window"
  <2> USE <1>7
  <2>1. /\ mover = "window" => pc["window"] \in {"dispense", "back"} /\ "window" \in moved
        /\ pc["window"] \in Travelling => "window" \in moved
    BY DEF MoverKnown
  <2>2. CASE TravelPurge("window")
    <3>1. pc["window"] \in Travelling /\ moved' = moved
      BY <2>2 DEF TravelPurge, Travel, Travelling, schedule
    <3>2. mover # "window" /\ "window" \in moved'
      BY <2>1, <3>1 DEF Travelling
    <3>3. mover' = "window" => pc'["window"] = "dispense"
      BY <1>0, <1>1, <2>2, <3>2, HeadMoves DEF TravelPurge, Travel, Goto, pose
    <3> QED BY <1>3, <1>5, <3>2, <3>3 DEF MoverKnown, StepsMove
  <2>3. CASE PutBack("window")
    <3>1. mover' \in {Nobody, "fault"} /\ pc'["window"] = "release"
      BY <1>0, <1>1, <2>3, HeadRetracts DEF PutBack, Goto
    <3> QED BY <1>0, <1>3, <3>1 DEF MoverKnown, StepsMove, Travelling
  <2>4. CASE Approach("window")
    <3>1. mover' = mover /\ mover # "window" /\ (pc'["window"] \in Travelling => "window" \in moved')
      BY <1>0, <1>1, <2>1, <2>4 DEF Approach, EnterRest, Goto, pose, Travelling
    <3> QED BY <1>3, <3>1 DEF MoverKnown, StepsMove
  <2>5. CASE \E out \in SUBSET todo["window"] : Dispense("window", out)
    <3>1. mover' = mover /\ moved' = moved /\ ("window" \in moved => pc'["window"] = "back")
          /\ pc'["window"] \in {"back", "release"}
      BY <1>0, <1>1, <2>5 DEF Dispense, After, Goto, pose
    <3> QED BY <1>3, <2>1, <3>1 DEF MoverKnown, StepsMove, Travelling
  <2>6. CASE \/ Look("window") \/ ReadPose("window") \/ Defer("window") \/ DryRun("window")
             \/ ClaimPurge("window") \/ EndPurge("window")
    <3>1. mover' = mover /\ mover # "window" /\ pc'["window"] \notin Travelling
      BY <1>0, <1>1, <2>1, <2>6 DEF Look, ReadPose, Defer, DryRun, ClaimPurge, EndPurge, Goto, pose,
         Travelling
    <3> QED BY <1>3, <3>1 DEF MoverKnown, StepsMove
  <2> QED BY <1>7, <2>2, <2>3, <2>4, <2>5, <2>6 DEF PurgeNext
<1> QED BY <1>6, <1>7

\* Every step, as long as one run of the window drives the syringe and the stage.
LEMMA MoverKept == Fluidic = {Host} /\ MoveInv /\ [RigNext]_rigvars => MoveInv'
<1> SUFFICES ASSUME Fluidic = {Host}, MoveInv, [RigNext]_rigvars PROVE MoveInv'
  OBVIOUS
<1>1. LateInv'
  BY LateKept DEF MoveInv
<1>2. CASE Else \/ UNCHANGED rigvars
  <2>1. UNCHANGED <<pc, moved, refused>>
    BY <1>2 DEF Else, Stagnate, Command, Commanded, Park, ClearPark, schedule, rigvars
  <2>2. mover' \in {mover, Nobody, "manual"}
    BY <1>2, HeadMoves DEF Else, Stagnate, Command, Commanded, Park, ClearPark, pose, rigvars
  <2> QED BY <1>1, <2>1, <2>2, ActorFacts DEF MoveInv, MoverKnown, StepsMove
<1> QED BY <1>1, <1>2, RunKeepsMover, PurgeKeepsMover DEF MoveInv, RigNext, Else

\* No step is refused its first move because of where its own run or the purge in its
\* window left the head, as long as one run of a window drives the syringe and the stage
\* (enter_idle_rest, _perform).
THEOREM StepsMoveHolds ==
  ASSUME Fluidic = {Host}
  PROVE  RigSpec => []StepsMove
<1>1. MoveInv => StepsMove
  BY DEF MoveInv
<1> QED BY <1>1, MoveStarts, MoverKept, PTL DEF RigSpec

--------------------------------------------------------------------------------
(* The ledger.  While one process at a time has one, a dispense is booked  *)
(* before it is drawn, so a process that dies loses a draw and never a     *)
(* booking.  The dispense in hand is owed to the barrel between the two.   *)

\* A level the barrel answers for.
Known(p) == p \notin slipped /\ row[p] # Unknown

OneHost == \A g, h \in attached : g = h
Absent  == \A h \in Hosts \ attached :
             dispense[h] = NoDispense /\ \A p \in Pumps : levels[h][p] = Unknown
Agrees  == \A h \in attached, p \in Pumps :
             p \notin slipped => levels[h][p] \in {Unknown, row[p]}
Covered == \A p \in Pumps : Known(p) => row[p] <= stock[p]
Booked  == \A h \in attached : \A p \in Pumps :
             dispense[h] # NoDispense /\ dispense[h].pump = p /\ Known(p) =>
               /\ dispense[h].at = "debit" => row[p] >= HardStop + dispense[h].dose
               /\ dispense[h].at = "pump" =>
                    row[p] >= HardStop /\ row[p] + dispense[h].dose <= stock[p]

StockInv == StockTypeOK /\ OneHost /\ Absent /\ Agrees /\ Covered /\ Booked

--------------------------------------------------------------------------------

\* A dispense has a place, a pump and a volume, and is none once it is over.
LEMMA DispenseParts ==
  ASSUME StockTypeOK, NEW h \in Hosts, dispense[h] # NoDispense
  PROVE  /\ dispense[h].pump \in Pumps /\ dispense[h].dose \in Doses
         /\ dispense[h].at \in {"check", "debit", "pump"}
         /\ \A at \in {"check", "debit", "pump"} :
              [dispense EXCEPT ![h].at = at] \in [Hosts -> Dispenses]
BY DEF StockTypeOK, SinglePump, Dispenses

\* No dispense has no place on the way to a pump.
LEMMA NoneIsNowhere == NoDispense.at \notin {"check", "debit", "pump"}
BY DEF NoDispense

\* A volume less a dose is a volume.
LEMMA LessIsLess ==
  ASSUME NEW v \in 0..Full, NEW d \in Doses
  PROVE  /\ Less(v, d) \in 0..Full /\ Less(v, d) <= v
         /\ v >= HardStop + d => Less(v, d) >= HardStop /\ Less(v, d) + d = v
BY StockAssumption DEF Less

\* What the ledger says is a level.
LEMMA RemainingTyped ==
  ASSUME StockTypeOK, NEW h \in Hosts, NEW p \in Pumps
  PROVE  Remaining(h, p) \in Level
BY DEF StockTypeOK, Remaining

--------------------------------------------------------------------------------
(* Types.                                                                  *)

\* Every step keeps the types, whatever the store does and whoever runs.
LEMMA TypesKept == StockTypeOK /\ [StockNext]_stockvars => StockTypeOK'
<1> SUFFICES ASSUME StockTypeOK, [StockNext]_stockvars PROVE StockTypeOK'
  OBVIOUS
<1> USE StockAssumption, NoneIsNowhere
<1>1. CASE UNCHANGED stockvars
  BY <1>1 DEF StockTypeOK, stockvars, books
<1>2. ASSUME NEW h \in Hosts, Attach(h) \/ Detach(h) PROVE StockTypeOK'
  <2>1. dispense' \in [Hosts -> Dispenses]
    BY <1>2 DEF StockTypeOK, Attach, Detach, Dispenses
  <2>2. levels' \in [Hosts -> [Pumps -> Level]]
    BY <1>2 DEF StockTypeOK, Attach, Detach, books, Level
  <2> QED BY <1>2, <2>1, <2>2 DEF StockTypeOK, Attach, Detach, books
<1>3. ASSUME NEW h \in Hosts, Check(h) PROVE StockTypeOK'
  <2>1. dispense[h] # NoDispense
    BY <1>3 DEF Check
  <2>2. Remaining(h, dispense[h].pump) \in Level
    BY <2>1, DispenseParts, RemainingTyped
  <2>3. dispense' \in [Hosts -> Dispenses]
    BY <1>3, <2>1, DispenseParts DEF StockTypeOK, Check, Stage, Dispenses
  <2> QED BY <1>3, <2>2, <2>3 DEF StockTypeOK, Check, Keep
<1>4. ASSUME NEW h \in Hosts, CheckUnread(h) PROVE StockTypeOK'
  <2>1. dispense[h] # NoDispense
    BY <1>4 DEF CheckUnread
  <2>2. dispense' \in [Hosts -> Dispenses]
    BY <1>4, <2>1, DispenseParts DEF CheckUnread, Stage
  <2>3. slipped' \subseteq Pumps
    BY <1>4, <2>1, DispenseParts DEF StockTypeOK, CheckUnread
  <2>4. lost' \in 0..StoreFaults
    BY <1>4 DEF StockTypeOK, CheckUnread
  <2> QED BY <1>4, <2>2, <2>3, <2>4 DEF StockTypeOK, CheckUnread
<1>5. ASSUME NEW h \in Hosts, Debit(h) PROVE StockTypeOK'
  <2>1. dispense[h] # NoDispense
    BY <1>5 DEF Debit
  <2>2. dispense[h].pump \in Pumps /\ Remaining(h, dispense[h].pump) \in Level
    BY <2>1, DispenseParts, RemainingTyped
  <2>3. dispense' \in [Hosts -> Dispenses]
    BY <1>5, <2>1, DispenseParts DEF Debit, Stage
  <2>4. CASE Remaining(h, dispense[h].pump) = Unknown
    BY <1>5, <2>3, <2>4 DEF StockTypeOK, Debit, books
  <2>5. CASE Remaining(h, dispense[h].pump) # Unknown
    <3>1. Less(Remaining(h, dispense[h].pump), dispense[h].dose) \in 0..Full
      BY <2>1, <2>2, <2>5, DispenseParts, LessIsLess DEF Level
    <3> DEFINE level == Less(Remaining(h, dispense[h].pump), dispense[h].dose)
    <3>2. Book(h, dispense[h].pump, level) /\ UNCHANGED <<stock, attached>>
      BY <1>5, <2>5 DEF Debit
    <3> HIDE DEF level
    <3>3. levels' \in [Hosts -> [Pumps -> Level]] /\ row' \in [Pumps -> Level]
      BY <2>2, <3>1, <3>2 DEF StockTypeOK, Book, Keep, Level, level
    <3>4. slipped' \subseteq Pumps /\ lost' \in 0..StoreFaults
      BY <2>2, <3>2 DEF StockTypeOK, Book
    <3> QED BY <2>3, <3>2, <3>3, <3>4 DEF StockTypeOK
  <2> QED BY <2>4, <2>5
<1>6. ASSUME NEW h \in Hosts, DebitUnread(h) PROVE StockTypeOK'
  <2>1. dispense[h] # NoDispense
    BY <1>6 DEF DebitUnread
  <2>2. dispense' \in [Hosts -> Dispenses]
    BY <1>6, <2>1, DispenseParts DEF DebitUnread, Stage
  <2>3. slipped' \subseteq Pumps
    BY <1>6, <2>1, DispenseParts DEF StockTypeOK, DebitUnread
  <2>4. lost' \in 0..StoreFaults
    BY <1>6 DEF StockTypeOK, DebitUnread
  <2> QED BY <1>6, <2>2, <2>3, <2>4 DEF StockTypeOK, DebitUnread
<1>7. ASSUME NEW h \in Hosts, Pump(h) PROVE StockTypeOK'
  <2>1. dispense[h] # NoDispense
    BY <1>7 DEF Pump
  <2>2. stock[dispense[h].pump] \in 0..Full /\ dispense[h].dose \in Doses
    BY <2>1, DispenseParts DEF StockTypeOK
  <2>3. Less(stock[dispense[h].pump], dispense[h].dose) \in 0..Full
    BY <2>2, LessIsLess
  <2>4. \A left \in Less(stock[dispense[h].pump], dispense[h].dose)..stock[dispense[h].pump] :
          left \in 0..Full
    BY <2>2, <2>3
  <2>5. stock' \in [Pumps -> 0..Full]
    BY <1>7, <2>4 DEF StockTypeOK, Pump
  <2>6. dispense' \in [Hosts -> Dispenses]
    BY <1>7 DEF StockTypeOK, Pump, Dispenses
  <2> QED BY <1>7, <2>5, <2>6 DEF StockTypeOK, Pump, books
<1>8. ASSUME NEW h \in Hosts, NEW p \in Pumps, LookUp(h, p) PROVE StockTypeOK'
  BY <1>8, RemainingTyped DEF StockTypeOK, LookUp, Keep
<1>9. ASSUME NEW h \in Hosts, NEW p \in Pumps, NEW d \in Doses, Ask(h, p, d)
      PROVE  StockTypeOK'
  BY <1>9 DEF StockTypeOK, Ask, books, SinglePump, Dispenses
<1>10. ASSUME NEW h \in Hosts, NEW p \in Pumps, NEW v \in 0..Full, Declare(h, p, v)
       PROVE  StockTypeOK'
  BY <1>10 DEF StockTypeOK, Declare, Keep, Level
<1> QED BY <1>1, <1>2, <1>3, <1>4, <1>5, <1>6, <1>7, <1>8, <1>9, <1>10 DEF StockNext

\* Ledgers, rows and barrels keep their types, in any number of processes and with any
\* failures of the store (ReservoirLedger, set_reservoir_level).
THEOREM StockTyped == StockSpec => []StockTypeOK
<1>1. StockInit => StockTypeOK
  BY StockAssumption DEF StockInit, StockTypeOK, Level, Dispenses
<1> QED BY <1>1, TypesKept, PTL DEF StockSpec

--------------------------------------------------------------------------------
(* The barrel.                                                             *)

Sound == OneHost /\ Absent /\ Agrees /\ Covered /\ Booked

\* Whoever is in a dispense is the one process that is there.
LEMMA AtWorkIsAttached ==
  ASSUME StockInv, NEW h \in Hosts, dispense[h] # NoDispense
  PROVE  h \in attached /\ \A g \in attached : g = h
BY DEF StockInv, OneHost, Absent, StockTypeOK

\* A process comes when nobody is there, and takes its ledger with it when it goes.
LEMMA ComesAndGoes ==
  ASSUME StockInv, ~Together, NEW h \in Hosts, Attach(h) \/ Detach(h)
  PROVE  Sound'
<1> USE DEF StockInv, StockTypeOK
<1>1. CASE Attach(h)
  <2>1. OneHost' /\ Absent'
    BY <1>1 DEF Attach, books, OneHost, Absent
  <2>2. Agrees' /\ Covered'
    BY <1>1 DEF Attach, books, Agrees, Absent, Covered, Known
  <2>3. Booked'
    BY <1>1 DEF Attach, books, Absent, Booked, Known
  <2> QED BY <2>1, <2>2, <2>3 DEF Sound
<1>2. CASE Detach(h)
  <2>1. OneHost' /\ Absent'
    BY <1>2 DEF Detach, OneHost, Absent
  <2>2. Agrees' /\ Covered'
    BY <1>2 DEF Detach, Agrees, OneHost, Covered, Known
  <2>3. Booked'
    BY <1>2 DEF Detach, OneHost, Booked, Known
  <2> QED BY <2>1, <2>2, <2>3 DEF Sound
<1> QED BY <1>1, <1>2

\* What is kept is what the row says, so what passes the check passes it for the row.
LEMMA CheckKeeps ==
  ASSUME StockInv, NEW h \in Hosts, Check(h)
  PROVE  Sound'
<1> DEFINE p == dispense[h].pump
<1> USE DEF StockTypeOK
<1>1. dispense[h] # NoDispense /\ StockTypeOK
  BY NoneIsNowhere DEF Check, StockInv
<1>2. p \in Pumps /\ dispense[h].dose \in Doses /\ h \in attached /\ \A g \in attached : g = h
  BY <1>1, DispenseParts, AtWorkIsAttached
<1>3. p \notin slipped => Remaining(h, p) = row[p]
  BY <1>2 DEF StockInv, Agrees, Remaining
<1>4. OneHost' /\ Covered'
  BY DEF Check, StockInv, OneHost, Covered, Known
<1>5. Absent'
  BY <1>2 DEF Check, Keep, Stage, StockInv, Absent
<1>6. Agrees'
  BY <1>2, <1>3 DEF Check, Keep, StockInv, Agrees
<1>7. Booked'
  <2>1. CASE Passes(Remaining(h, p), dispense[h].dose)
    <3>1. dispense'[h] = [dispense[h] EXCEPT !.at = "debit"]
      BY <1>1, <2>1 DEF Check, Stage
    <3>2. p \notin slipped /\ row[p] # Unknown => row[p] >= HardStop + dispense[h].dose
      BY <1>3, <2>1 DEF Passes
    <3>3. \A q \in Pumps : Known(q)' = Known(q) /\ row' = row
      BY DEF Check, Known
    <3>4. dispense'[h].at = "debit" /\ dispense'[h].pump = p
          /\ dispense'[h].dose = dispense[h].dose
      BY <1>1, <3>1 DEF SinglePump, Dispenses
    <3> QED BY <1>2, <3>2, <3>3, <3>4 DEF Booked, Known, Check
  <2>2. CASE ~Passes(Remaining(h, p), dispense[h].dose)
    BY <1>1, <1>2, <2>2 DEF Check, Booked
  <2> QED BY <2>1, <2>2
<1> QED BY <1>4, <1>5, <1>6, <1>7 DEF Sound

\* A pump whose row was not read has slipped.
LEMMA UnreadKeeps ==
  ASSUME StockInv, NEW h \in Hosts, CheckUnread(h) \/ DebitUnread(h)
  PROVE  Sound'
<1> DEFINE p == dispense[h].pump
<1> USE DEF StockTypeOK
<1>1. dispense[h] # NoDispense /\ StockTypeOK
  BY NoneIsNowhere DEF CheckUnread, DebitUnread, StockInv
<1>2. p \in Pumps /\ h \in attached /\ \A g \in attached : g = h
  BY <1>1, DispenseParts, AtWorkIsAttached
<1>3. slipped' = slipped \cup {p} /\ UNCHANGED <<stock, row, levels, attached>>
  BY DEF CheckUnread, DebitUnread
<1>4. \E at \in {"debit", "pump"} : dispense' = [dispense EXCEPT ![h].at = at]
  BY DEF CheckUnread, DebitUnread, Stage
<1>5. OneHost' /\ Agrees' /\ Covered'
  BY <1>3 DEF StockInv, OneHost, Agrees, Covered, Known
<1>6. Absent'
  BY <1>2, <1>3, <1>4 DEF StockInv, Absent
<1>7. dispense'[h].pump = p
  BY <1>1, <1>4 DEF SinglePump, Dispenses
<1>8. Booked'
  BY <1>2, <1>3, <1>7 DEF Booked, Known
<1> QED BY <1>5, <1>6, <1>8 DEF Sound

\* Booked before it is drawn: the row gives the dose up, the barrel still has it.
LEMMA DebitKeeps ==
  ASSUME StockInv, NEW h \in Hosts, Debit(h)
  PROVE  Sound'
<1> DEFINE p == dispense[h].pump  d == dispense[h].dose
           level == Less(Remaining(h, p), d)
<1> USE DEF StockTypeOK
<1>1. dispense[h] # NoDispense /\ StockTypeOK
  BY NoneIsNowhere DEF Debit, StockInv
<1>2. p \in Pumps /\ d \in Doses /\ h \in attached /\ \A g \in attached : g = h
  BY <1>1, DispenseParts, AtWorkIsAttached
<1>3. p \notin slipped => Remaining(h, p) = row[p]
  BY <1>2 DEF StockInv, Agrees, Remaining
<1>4. Remaining(h, p) \in Level
  BY <1>1, <1>2, RemainingTyped
<1>5. dispense'[h].at = "pump" /\ dispense'[h].pump = p /\ dispense'[h].dose = d
  BY <1>1 DEF Debit, Stage, SinglePump, Dispenses
<1>6. UNCHANGED <<stock, attached>> /\ OneHost'
  BY DEF Debit, StockInv, OneHost
<1>7. CASE Remaining(h, p) = Unknown
  <2>1. UNCHANGED books
    BY <1>7 DEF Debit
  <2>2. p \in slipped' \/ row'[p] = Unknown
    BY <1>3, <1>7, <2>1 DEF books
  <2>3. Agrees' /\ Covered'
    BY <1>6, <2>1 DEF StockInv, Agrees, Covered, Known, books
  <2>4. Absent'
    BY <1>2, <1>6, <2>1 DEF Debit, Stage, StockInv, Absent, books
  <2>5. Booked'
    BY <1>2, <1>5, <1>6, <2>2 DEF Booked, Known
  <2> QED BY <1>6, <2>3, <2>4, <2>5 DEF Sound
<1>8. CASE Remaining(h, p) # Unknown
  <2>1. Book(h, p, level)
    BY <1>8 DEF Debit
  <2>2. level \in 0..Full /\ level <= Remaining(h, p)
        /\ (Remaining(h, p) >= HardStop + d => level >= HardStop /\ level + d = Remaining(h, p))
    BY <1>2, <1>4, <1>8, LessIsLess DEF Level
  <2> HIDE DEF level
  <2>3. levels' = [levels EXCEPT ![h][p] = level]
    BY <2>1 DEF Book, Keep
  <2>4. Absent'
    BY <1>2, <1>6, <2>3 DEF Debit, Stage, StockInv, Absent
  <2>5. CASE slipped' = slipped \cup {p} /\ row' = row
    <3>1. Agrees' /\ Covered'
      BY <1>2, <1>6, <2>3, <2>5 DEF StockInv, Agrees, Covered, Known
    <3>2. Booked'
      BY <1>2, <1>5, <1>6, <2>5 DEF Booked, Known
    <3> QED BY <1>6, <2>4, <3>1, <3>2 DEF Sound
  <2>6. CASE slipped' = slipped /\ row' = [row EXCEPT ![p] = level]
    <3>1. Agrees'
      BY <1>2, <1>6, <2>3, <2>6 DEF StockInv, Agrees
    <3>2. p \notin slipped =>
            row[p] \in Nat /\ row[p] >= HardStop + d /\ row[p] <= stock[p] /\ stock[p] \in Nat
      BY <1>1, <1>2, <1>3, <1>4, <1>8 DEF Debit, StockInv, Booked, Covered, Known, Level
    <3>3. p \notin slipped => level >= HardStop /\ level + d <= stock[p] /\ level <= stock[p]
      BY <1>2, <1>3, <2>2, <3>2, StockAssumption
    <3>4. Covered'
      BY <1>2, <1>6, <2>6, <3>3 DEF StockInv, Covered, Known
    <3>5. Booked'
      BY <1>1, <1>2, <1>5, <1>6, <2>6, <3>3 DEF Booked, Known
    <3> QED BY <1>6, <2>4, <3>1, <3>4, <3>5 DEF Sound
  <2> QED BY <2>1, <2>5, <2>6 DEF Book
<1> QED BY <1>7, <1>8

\* What is drawn was booked.
LEMMA PumpKeeps ==
  ASSUME StockInv, NEW h \in Hosts, Pump(h)
  PROVE  Sound'
<1> DEFINE p == dispense[h].pump  d == dispense[h].dose
<1> USE DEF StockTypeOK
<1>1. dispense[h] # NoDispense /\ StockTypeOK
  BY NoneIsNowhere DEF Pump, StockInv
<1>2. p \in Pumps /\ d \in Doses /\ h \in attached /\ \A g \in attached : g = h
  BY <1>1, DispenseParts, AtWorkIsAttached
<1>3. PICK left \in Less(stock[p], d)..stock[p] : stock' = [stock EXCEPT ![p] = left]
  BY DEF Pump
<1>4. UNCHANGED <<books, attached>> /\ dispense' = [dispense EXCEPT ![h] = NoDispense]
  BY DEF Pump
<1>5. OneHost' /\ Agrees' /\ Absent'
  BY <1>4 DEF StockInv, OneHost, Agrees, Absent, books
<1>6. Booked'
  BY <1>1, <1>2, <1>4 DEF Booked
<1>7. Covered'
  <2>1. Known(p) => row[p] \in Nat /\ row[p] + d <= stock[p] /\ stock[p] \in Nat
    BY <1>1, <1>2 DEF Pump, StockInv, Booked, Known, Level
  <2>2. Known(p) => row[p] <= left
    <3>1. d \in Nat /\ left \in Less(stock[p], d)..stock[p]
      BY <1>2, <1>3, StockAssumption
    <3>2. Known(p) => left \in stock[p] - d..stock[p]
      BY <2>1, <3>1 DEF Less
    <3> QED BY <2>1, <3>1, <3>2
  <2> QED BY <1>2, <1>3, <1>4, <2>2 DEF StockInv, Covered, Known, books
<1> QED BY <1>5, <1>6, <1>7 DEF Sound

\* A look at a level, and the beginning of a dispense.
LEMMA AskKeeps ==
  ASSUME StockInv, NEW h \in Hosts, NEW p \in Pumps,
         LookUp(h, p) \/ \E d \in Doses : Ask(h, p, d)
  PROVE  Sound'
<1> USE DEF StockTypeOK
<1>1. CASE LookUp(h, p)
  <2>1. OneHost' /\ Covered' /\ Booked'
    BY <1>1 DEF LookUp, StockInv, OneHost, Covered, Booked, Known
  <2>2. Absent'
    BY <1>1 DEF LookUp, Keep, StockInv, Absent
  <2>3. Agrees'
    BY <1>1 DEF LookUp, Keep, Remaining, StockInv, Agrees
  <2> QED BY <2>1, <2>2, <2>3 DEF Sound
<1>2. ASSUME NEW d \in Doses, Ask(h, p, d) PROVE Sound'
  <2>1. OneHost' /\ Agrees' /\ Covered'
    BY <1>2 DEF Ask, books, StockInv, OneHost, Agrees, Covered, Known
  <2>2. Absent'
    BY <1>2 DEF Ask, books, StockInv, Absent
  <2>3. Booked'
    BY <1>2 DEF Ask, books, StockInv, Booked, Idle, Known
  <2> QED BY <2>1, <2>2, <2>3 DEF Sound
<1> QED BY <1>1, <1>2

\* A declaration is the truth, for as long as it is stored.
LEMMA DeclareKeeps ==
  ASSUME StockInv, NEW h \in Hosts, NEW p \in Pumps, NEW v \in 0..Full, Declare(h, p, v)
  PROVE  Sound'
<1> USE DEF StockTypeOK
<1>1. h \in attached /\ \A g \in attached : g = h
  BY DEF Declare, StockInv, OneHost
<1>2. UNCHANGED <<attached, dispense>> /\ \A g \in Hosts : dispense[g] = NoDispense
  BY DEF Declare, Idle
<1>3. stock' = [stock EXCEPT ![p] = v] /\ levels' = [levels EXCEPT ![h][p] = v]
  BY DEF Declare, Keep
<1>4. \/ row' = [row EXCEPT ![p] = v] /\ slipped' = slipped \ {p}
      \/ row' = row /\ slipped' = slipped \cup {p}
  BY DEF Declare
<1>5. OneHost' /\ Booked'
  BY <1>2 DEF StockInv, OneHost, Booked
<1>6. Absent'
  BY <1>1, <1>2, <1>3 DEF StockInv, Absent
<1>7. Agrees'
  BY <1>1, <1>2, <1>3, <1>4 DEF StockInv, Agrees
<1>8. Covered'
  BY <1>3, <1>4 DEF StockInv, Covered, Known
<1> QED BY <1>5, <1>6, <1>7, <1>8 DEF Sound

\* While one process at a time has a ledger, every step keeps the barrel covered.
LEMMA BarrelKept == ~Together /\ StockInv /\ [StockNext]_stockvars => StockInv'
<1> SUFFICES ASSUME ~Together, StockInv, [StockNext]_stockvars PROVE StockInv'
  OBVIOUS
<1>1. StockTypeOK'
  BY TypesKept DEF StockInv
<1>2. CASE UNCHANGED stockvars
  BY <1>1, <1>2 DEF stockvars, books, StockInv, OneHost, Absent, Agrees, Covered, Booked, Known
<1>3. CASE StockNext
  <2>1. Sound'
    BY <1>3, ComesAndGoes, CheckKeeps, UnreadKeeps, DebitKeeps, PumpKeeps, AskKeeps,
       DeclareKeeps DEF StockNext
  <2> QED BY <1>1, <2>1 DEF Sound, StockInv
<1> QED BY <1>2, <1>3

\* For any pumps, volumes and margin, and for deaths and failing store calls anywhere:
\* a declared pump is commanded only when its barrel holds the dose and the margin,
\* while one process at a time has a ledger (_validate_single_pump).
THEOREM KeptOffStopHolds ==
  ASSUME ~Together
  PROVE  StockSpec => []KeptOffStop
<1>1. StockInit => StockInv
  <2> SUFFICES ASSUME StockInit PROVE StockInv
    OBVIOUS
  <2>1. StockTypeOK
    BY StockAssumption DEF StockInit, StockTypeOK, Level, Dispenses
  <2> QED BY <2>1, StockAssumption
          DEF StockInit, StockInv, OneHost, Absent, Agrees, Covered, Booked, Known
<1>2. StockInv => KeptOffStop
  <2> SUFFICES ASSUME StockInv, NEW h \in Hosts, dispense[h].at = "pump",
                      dispense[h].pump \notin slipped, row[dispense[h].pump] # Unknown
               PROVE  stock[dispense[h].pump] >= HardStop + dispense[h].dose
    BY DEF KeptOffStop
  <2>1. dispense[h] # NoDispense /\ StockTypeOK
    BY NoneIsNowhere DEF StockInv
  <2>2. dispense[h].pump \in Pumps /\ dispense[h].dose \in Doses /\ h \in attached
    BY <2>1, DispenseParts, AtWorkIsAttached
  <2>3. row[dispense[h].pump] >= HardStop
        /\ row[dispense[h].pump] + dispense[h].dose <= stock[dispense[h].pump]
    BY <2>1, <2>2 DEF StockInv, Booked, Known
  <2>4. row[dispense[h].pump] \in Nat /\ stock[dispense[h].pump] \in Nat
    BY <2>1, <2>2 DEF StockTypeOK, Level
  <2>5. dispense[h].dose \in Nat /\ HardStop \in Nat
    <3>1. HardStop \in Nat
      BY StockAssumption
    <3>2. Doses \subseteq Nat
      BY StockAssumption
    <3> QED BY <2>2, <3>1, <3>2
  <2>6. \A r, s, m, d \in Nat : r >= m /\ r + d <= s => s >= m + d
    OBVIOUS
  <2> QED BY <2>3, <2>4, <2>5, <2>6
<1> QED BY <1>1, <1>2, BarrelKept, PTL DEF StockSpec

================================================================================
