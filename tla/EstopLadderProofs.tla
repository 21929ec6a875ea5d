--------------------------- MODULE EstopLadderProofs ---------------------------
(***************************************************************************)
(* What the control file and the emergency stop promise, for any number of *)
(* surfaces, runs and presses: no request is obeyed twice or against the   *)
(* order of the file, because what the file holds was obeyed or is newer   *)
(* than all that was; and the ladder says and offers no more than it has   *)
(* read.                                                                   *)
(***************************************************************************)
EXTENDS EstopLadder, WellFoundedInduction, TLAPS

--------------------------------------------------------------------------------
(* The control file.                                                       *)

Outcomes == {"applied", "already_paused", "not_paused", "ended", "ignored_pre_existing",
             "ignored_stale", "unreadable", "handler_failed"}
Events  == [type : {"ack"}, outcome : Outcomes, seq : Nat, act : Action \cup {"none"}, id : Nat]
           \cup [type : {"park", "safe_park"}]
Handed  == [id : Nat, edit : Nat]
Presses == [at : {"idle", "read", "open", "write", "rename"}, act : Action \cup {"none"},
            seq : Nat, id : Nat, handle : {"none", "tmp", "slot", "gone"}]

\* The types, one party at a time; whoever writes has something to write.
FileTyped ==
  /\ slot \in Request \cup {NoReq} /\ edit \in Nat /\ tmp \in Request \cup {NoReq, Torn}
WritersTyped ==
  /\ writer \in [Surface -> Presses] /\ presses \in Nat
  /\ \A s \in Surface : Writing(s) => writer[s].act \in Action
SurfacesTyped ==
  /\ cursor \in [Surface -> Nat] /\ \A s \in Surface : cursor[s] <= Len(events)
  /\ pending \in [Surface -> Request \cup {NoReq}] /\ held \in [Bar -> BOOLEAN]
WatchTyped ==
  /\ watch \in [at : {"none", "stat0", "up", "read", "closed"},
                seen : Nat, acted : Nat, born : Nat]
  /\ lapse \in [missed : Nat, unsaid : Nat]
  /\ loop \in [phase : {"starting", "running", "parking", "ending", "over"},
               paused : BOOLEAN, aborting : BOOLEAN]
  /\ watch.at \in {"up", "read"} => loop.phase # "starting"
  /\ watch.at = "stat0" => loop.phase = "starting"
  /\ watch.at = "closed" <=> loop.phase = "over"
StreamsTyped ==
  /\ events \in Seq(Events) /\ parked \in BOOLEAN
  /\ obeyed \in Seq(Handed) /\ \A i \in 1..Len(obeyed) : obeyed[i].edit <= edit

ChannelTyped == FileTyped /\ WritersTyped /\ SurfacesTyped /\ WatchTyped /\ StreamsTyped

\* What a poll would hand to a handler.
Fresh == slot # NoReq /\ slot.seq > watch.acted

\* What was there at the start and could not be read then is not read later.
PassedOver == watch.at = "stat0" \/ (watch.at = "up" /\ watch.seen = edit)

\* What the file holds was obeyed or found at the start, or is newer than both.
ObeyKnown ==
  /\ watch.at = "none" => obeyed = <<>>
  /\ watch.born <= edit
  /\ watch.at \in {"stat0", "up", "read"} /\ Fresh =>
       /\ edit > watch.born \/ PassedOver
       /\ \A i \in 1..Len(obeyed) : obeyed[i].edit < edit

\* An empty slot, nothing obeyed.
LEMMA ChannelStarts == ChannelInit => ChannelTyped /\ ObeyKnown /\ InOrderOnce
<1> SUFFICES ASSUME ChannelInit PROVE ChannelTyped /\ ObeyKnown /\ InOrderOnce
  OBVIOUS
<1>1. FileTyped
  BY DEF ChannelInit, FileTyped
<1>2. WritersTyped
  BY DEF ChannelInit, WritersTyped, Quiet, Presses, Writing
<1>3. SurfacesTyped
  BY DEF ChannelInit, SurfacesTyped
<1>4. WatchTyped
  BY DEF ChannelInit, WatchTyped
<1>5. StreamsTyped
  <2>1. \A S : <<>> \in Seq(S) /\ Len(<<>>) = 0
    OBVIOUS
  <2>2. 1..0 = {}
    OBVIOUS
  <2> QED BY <2>1, <2>2 DEF ChannelInit, StreamsTyped
<1>6. ObeyKnown /\ InOrderOnce
  BY DEF ChannelInit, ObeyKnown, InOrderOnce
<1> QED BY <1>1, <1>2, <1>3, <1>4, <1>5, <1>6 DEF ChannelTyped

\* A stream that is appended to keeps what it has.
LEMMA StreamGrows ==
  ASSUME NEW S, NEW q \in Seq(S), NEW e \in S
  PROVE  /\ Append(q, e) \in Seq(S) /\ Len(Append(q, e)) = Len(q) + 1
         /\ \A i \in 1..Len(q) : Append(q, e)[i] = q[i]
         /\ Append(q, e)[Len(q) + 1] = e
OBVIOUS

\* What was obeyed is numbered by the file's history.
LEMMA ObeyedTyped ==
  ASSUME StreamsTyped
  PROVE  \A i \in 1..Len(obeyed) : obeyed[i].edit \in Nat
<1>1. \A i \in 1..Len(obeyed) : obeyed[i] \in Handed
  BY DEF StreamsTyped
<1>2. \A h \in Handed : h.edit \in Nat
  BY DEF Handed
<1> QED BY <1>1, <1>2

\* What was obeyed has its place in the file's history, which only grows.
LEMMA HistoryStays ==
  ASSUME StreamsTyped, FileTyped, edit' \in {edit, edit + 1}, UNCHANGED <<obeyed, events, parked>>
  PROVE  StreamsTyped'
<1>1. \A i \in 1..Len(obeyed) : obeyed[i].edit \in Nat
  BY ObeyedTyped
<1>2. \A i \in 1..Len(obeyed) : obeyed[i].edit <= edit'
  BY <1>1 DEF StreamsTyped, FileTyped
<1> QED BY <1>2 DEF StreamsTyped

\* What a bar writes is a request.
LEMMA MineIsRequest ==
  ASSUME WritersTyped, NEW s \in Surface, Writing(s)
  PROVE  Mine(s) \in Request /\ Mine(s) = [seq |-> writer[s].seq, act |-> writer[s].act, id |-> writer[s].id]
BY DEF WritersTyped, Presses, Mine, Request

\* The types of what a surface does to the file, and what it leaves alone.
LEMMA PressTyped ==
  ASSUME ChannelTyped, NEW s \in Surface, NEW act \in Action, Press(s, act)
  PROVE  ChannelTyped'
<1>1. WritersTyped'
  <2> DEFINE began == [Quiet EXCEPT !.at = "read", !.act = act, !.id = presses + 1]
  <2>1. presses \in Nat /\ presses + 1 \in Nat
    BY DEF ChannelTyped, WritersTyped
  <2>2. Quiet \in Presses
    BY DEF Quiet, Presses
  <2>3. began \in Presses /\ began.act = act
    BY <2>1, <2>2 DEF Presses
  <2>4. writer' = [writer EXCEPT ![s] = began] /\ presses' = presses + 1
    BY DEF Press
  <2> HIDE DEF began
  <2> QED BY <2>1, <2>3, <2>4 DEF ChannelTyped, WritersTyped, Writing
<1>2. SurfacesTyped'
  <2>1. Len(events) \in Nat
    BY DEF ChannelTyped, StreamsTyped
  <2> QED BY <2>1 DEF Press, ChannelTyped, SurfacesTyped, campaign
<1>3. FileTyped' /\ WatchTyped' /\ StreamsTyped'
  BY DEF Press, ChannelTyped, FileTyped, WatchTyped, StreamsTyped, channel, campaign
<1> QED BY <1>1, <1>2, <1>3 DEF ChannelTyped

\* The types of the four statements of write_control.
LEMMA WriteTyped ==
  ASSUME ChannelTyped, NEW s \in Surface, Writes(s)
  PROVE  ChannelTyped'
<1> USE DEF ChannelTyped
<1>0. writer[s] \in Presses /\ edit + 1 \in Nat
  BY DEF WritersTyped, FileTyped
<1>1. CASE ReadSeq(s)
  <2>1. NextSeq \in Nat
    BY DEF NextSeq, Request, FileTyped
  <2>2. WritersTyped'
    BY <1>0, <1>1, <2>1 DEF ReadSeq, WritersTyped, Presses, Writing
  <2> QED BY <1>1, <2>2 DEF ReadSeq, FileTyped, SurfacesTyped, WatchTyped, StreamsTyped, channel, campaign
<1>2. CASE OpenTmp(s)
  <2>1. WritersTyped'
    BY <1>0, <1>2 DEF OpenTmp, WritersTyped, Presses, Writing
  <2> QED BY <1>2, <2>1 DEF OpenTmp, FileTyped, SurfacesTyped, WatchTyped, StreamsTyped, channel, campaign
<1>3. CASE WriteTmp(s)
  <2>1. Mine(s) \in Request
    BY <1>3, MineIsRequest DEF WriteTmp, Writing
  <2>2. WritersTyped'
    BY <1>0, <1>3 DEF WriteTmp, WritersTyped, Presses, Writing
  <2>3. FileTyped' /\ edit' \in {edit, edit + 1}
    BY <1>0, <1>3, <2>1 DEF WriteTmp, FileTyped, channel
  <2>4. StreamsTyped'
    BY <1>3, <2>3, HistoryStays DEF WriteTmp, campaign
  <2> QED BY <1>3, <2>2, <2>3, <2>4 DEF WriteTmp, SurfacesTyped, WatchTyped, campaign
<1>4. CASE Rename(s)
  <2>1. Mine(s) \in Request
    BY <1>4, MineIsRequest DEF Rename, Writing
  <2>2. WritersTyped'
    <3>1. \A h \in {"none", "tmp", "slot", "gone"} : Follow(h) \in {"none", "tmp", "slot", "gone"}
      BY DEF Follow
    <3>2. Quiet \in Presses /\ Quiet.at = "idle"
      BY DEF Quiet, Presses
    <3>3. \A t \in Surface : [writer[t] EXCEPT !.handle = Follow(@)] \in Presses
            /\ [writer[t] EXCEPT !.handle = Follow(@)].at = writer[t].at
            /\ [writer[t] EXCEPT !.handle = Follow(@)].act = writer[t].act
      BY <3>1 DEF WritersTyped, Presses
    <3> QED BY <1>4, <3>2, <3>3 DEF Rename, WritersTyped, Writing
  <2>3. FileTyped' /\ edit' \in {edit, edit + 1}
    BY <1>0, <1>4 DEF Rename, FileTyped, channel
  <2>4. StreamsTyped'
    BY <1>4, <2>3, HistoryStays DEF Rename, campaign
  <2>5. SurfacesTyped'
    BY <1>4, <2>1 DEF Rename, SurfacesTyped, campaign
  <2> QED BY <1>4, <2>2, <2>3, <2>4, <2>5 DEF Rename, WatchTyped, campaign
<1> QED BY <1>1, <1>2, <1>3, <1>4 DEF Writes

\* A handler leaves the phase alone.
HandlerMoves(act) ==
  /\ Handler(act).outcome \in Outcomes
  /\ \E p, a \in BOOLEAN :
       Handler(act).loop = [phase |-> loop.phase, paused |-> p, aborting |-> a]

\* An acknowledgement is a record of the stream.
LEMMA AckIsEvent ==
  ASSUME NEW req \in Request \cup {NoReq}, NEW outcome \in Outcomes
  PROVE  Ack(req, outcome) \in Events
<1>1. CASE req = NoReq
  BY <1>1 DEF Ack, Events
<1>2. CASE req # NoReq
  <2>1. req.seq \in Nat /\ req.act \in Action /\ req.id \in Nat
    BY <1>2 DEF Request
  <2> QED BY <1>2, <2>1 DEF Ack, Events
<1> QED BY <1>1, <1>2

\* A handler says what it did and moves no flag but its own.
LEMMA HandlerAnswers ==
  ASSUME WatchTyped, NEW act \in Action
  PROVE  HandlerMoves(act)
<1>1. loop.paused \in BOOLEAN /\ loop.aborting \in BOOLEAN
      /\ loop = [phase |-> loop.phase, paused |-> loop.paused, aborting |-> loop.aborting]
  BY DEF WatchTyped
<1>2. CASE act = "pause"
  BY <1>1, <1>2 DEF Handler, HandlerMoves, Outcomes
<1>3. CASE act = "resume"
  BY <1>1, <1>3 DEF Handler, HandlerMoves, Outcomes
<1>4. CASE act = "abort"
  BY <1>1, <1>4 DEF Handler, HandlerMoves, Outcomes
<1> QED BY <1>2, <1>3, <1>4 DEF Action

\* Whatever fails on the way, the watcher's read comes to one of these: it found nothing
\* to obey, or it hands on what is on file.
Reading(missed, unsaid) ==
  /\ missed \in BOOLEAN /\ unsaid \in BOOLEAN /\ Lapses(missed, unsaid)
  /\ \/ /\ missed \/ slot = NoReq
        /\ Declines(NoReq, "unreadable", unsaid)
     \/ /\ ~missed /\ slot # NoReq /\ IsStale(slot)
        /\ Declines(slot, "ignored_stale", unsaid)
     \/ /\ ~missed /\ slot # NoReq /\ ~IsStale(slot)
        /\ Dispatches(slot, unsaid)

\* One poll is one reading.
LEMMA PollReads == ASSUME PollRead PROVE \E missed, unsaid \in BOOLEAN : Reading(missed, unsaid)
<1>1. PICK missed \in May("read"), unsaid \in May("ack") :
        /\ Lapses(missed, unsaid)
        /\ IF Found(missed) = NoReq THEN Declines(NoReq, "unreadable", unsaid)
           ELSE IF IsStale(slot) THEN Declines(slot, "ignored_stale", unsaid)
           ELSE Dispatches(slot, unsaid)
  BY DEF PollRead
<1>2. missed \in BOOLEAN /\ unsaid \in BOOLEAN
  BY <1>1 DEF May
<1>3. Found(missed) = NoReq <=> missed \/ slot = NoReq
  BY DEF Found
<1>4. Reading(missed, unsaid)
  BY <1>1, <1>2, <1>3 DEF Reading
<1> QED BY <1>2, <1>4

\* The mark that is left of it is an edit, or none.
LEMMA LapseTyped ==
  ASSUME edit \in Nat, NEW missed \in BOOLEAN, NEW unsaid \in BOOLEAN, Lapses(missed, unsaid)
  PROVE  /\ lapse' \in [missed : Nat, unsaid : Nat]
         /\ lapse'.missed = (IF missed THEN edit ELSE 0)
         /\ lapse'.unsaid = (IF unsaid THEN edit ELSE 0)
BY DEF Lapses

\* A word of the watcher is one record more, or none.
LEMMA TellTyped ==
  ASSUME StreamsTyped, NEW req \in Request \cup {NoReq}, NEW outcome \in Outcomes,
         NEW unsaid \in BOOLEAN, Tell(req, outcome, unsaid)
  PROVE  events' \in Seq(Events) /\ Len(events') >= Len(events) /\ Len(events) \in Nat
<1>1. CASE unsaid
  BY <1>1 DEF Tell, StreamsTyped
<1>2. CASE ~unsaid
  <2>1. Ack(req, outcome) \in Events /\ Emit(Ack(req, outcome))
    BY <1>2, AckIsEvent DEF Tell
  <2> QED BY <2>1, StreamGrows DEF Emit, StreamsTyped
<1> QED BY <1>1, <1>2

\* What a handler says, or that it failed.
LEMMA SaysTyped ==
  ASSUME WatchTyped, NEW act \in Action
  PROVE  Says(act) \subseteq Outcomes
<1>1. Handler(act).outcome \in Outcomes
  BY HandlerAnswers DEF HandlerMoves
<1> QED BY <1>1 DEF Says, Outcomes

\* The types of what the watcher and the campaign do.
LEMMA WatchKeepsTypes ==
  ASSUME ChannelTyped, Watches
  PROVE  ChannelTyped'
<1> USE DEF ChannelTyped
<1>0. edit \in Nat /\ slot \in Request \cup {NoReq}
  BY DEF FileTyped
<1>1. CASE WatchRead
  <2>1. PICK missed \in BOOLEAN, unsaid \in BOOLEAN :
          /\ Begins(Found(missed)) /\ Lapses(missed, unsaid \/ missed)
          /\ IF Found(missed) = NoReq THEN UNCHANGED events
             ELSE Tell(slot, "ignored_pre_existing", unsaid)
    BY <1>1 DEF WatchRead, May
  <2>2. events' \in Seq(Events) /\ Len(events') >= Len(events) /\ Len(events) \in Nat
    <3>1. CASE UNCHANGED events
      BY <3>1 DEF StreamsTyped
    <3>2. CASE Tell(slot, "ignored_pre_existing", unsaid)
      <4>1. "ignored_pre_existing" \in Outcomes
        BY DEF Outcomes
      <4> QED BY <1>0, <3>2, <4>1, TellTyped
    <3> QED BY <2>1, <3>1, <3>2
  <2>3. SurfacesTyped'
    BY <1>1, <2>2 DEF WatchRead, surfaces, SurfacesTyped
  <2>4. WatchTyped'
    <3>1. lapse' \in [missed : Nat, unsaid : Nat]
      BY <1>0, <2>1, LapseTyped
    <3>2. Found(missed) \in Request \cup {NoReq}
      BY <1>0 DEF Found
    <3>3. (IF Found(missed) = NoReq THEN 0 ELSE Found(missed).seq) \in Nat
      BY <3>2 DEF Request
    <3> QED BY <1>0, <1>1, <2>1, <3>1, <3>3 DEF WatchRead, Begins, WatchTyped
  <2> QED BY <1>1, <2>2, <2>3, <2>4
          DEF WatchRead, FileTyped, WritersTyped, StreamsTyped, channel, surfaces, Writing
<1>2. CASE WatchStat \/ PollStat
  <2>1. WatchTyped'
    BY <1>2 DEF WatchStat, PollStat, WatchTyped, FileTyped
  <2> QED BY <1>2, <2>1
          DEF WatchStat, PollStat, FileTyped, WritersTyped, SurfacesTyped, StreamsTyped, channel, surfaces, Writing
<1>3. CASE PollRead
  <2>0. PICK missed \in BOOLEAN, unsaid \in BOOLEAN : Reading(missed, unsaid)
    BY <1>3, PollReads
  <2>1. lapse' \in [missed : Nat, unsaid : Nat]
    BY <1>0, <2>0, LapseTyped DEF Reading
  <2>2. CASE \E req \in Request \cup {NoReq}, outcome \in Outcomes : Declines(req, outcome, unsaid)
    <3>1. PICK req \in Request \cup {NoReq}, outcome \in Outcomes : Declines(req, outcome, unsaid)
      BY <2>2
    <3>2. events' \in Seq(Events) /\ Len(events') >= Len(events) /\ Len(events) \in Nat
      BY <3>1, TellTyped DEF Declines
    <3>3. SurfacesTyped'
      BY <1>3, <3>2 DEF PollRead, surfaces, SurfacesTyped
    <3>4. WatchTyped'
      BY <1>3, <2>1, <3>1 DEF PollRead, Declines, WatchTyped
    <3>5. StreamsTyped'
      BY <1>3, <3>1, <3>2 DEF PollRead, Declines, StreamsTyped, channel
    <3> QED BY <1>3, <3>3, <3>4, <3>5 DEF PollRead, FileTyped, WritersTyped, channel, surfaces, Writing
  <2>3. CASE slot # NoReq /\ Dispatches(slot, unsaid)
    <3>0. slot \in Request /\ slot.act \in Action /\ slot.seq \in Nat
      BY <2>3 DEF FileTyped, Request
    <3>1. PICK outcome \in Says(slot.act) : Tell(slot, outcome, unsaid)
      BY <2>3 DEF Dispatches
    <3>2. events' \in Seq(Events) /\ Len(events') >= Len(events) /\ Len(events) \in Nat
      <4>1. outcome \in Outcomes
        BY <3>0, <3>1, SaysTyped
      <4> QED BY <3>0, <3>1, <4>1, TellTyped
    <3>3. SurfacesTyped'
      BY <1>3, <3>2 DEF PollRead, surfaces, SurfacesTyped
    <3>4. WatchTyped'
      <4>1. PICK p, a \in BOOLEAN : loop' = [phase |-> loop.phase, paused |-> p, aborting |-> a]
        BY <2>3, <3>0, HandlerAnswers DEF Dispatches, HandlerMoves
      <4>2. watch' = [watch EXCEPT !.at = "up", !.acted = slot.seq]
        BY <2>3 DEF Dispatches
      <4> QED BY <1>3, <2>1, <3>0, <4>1, <4>2 DEF PollRead, WatchTyped
    <3>5. StreamsTyped'
      <4>1. [id |-> slot.id, edit |-> edit] \in Handed /\ edit <= edit
        BY <1>0, <3>0 DEF Handed, Request
      <4>2. obeyed' = Append(obeyed, [id |-> slot.id, edit |-> edit]) /\ edit' = edit /\ parked' = parked
        BY <1>3, <2>3 DEF PollRead, Dispatches, channel
      <4>3. obeyed' \in Seq(Handed) /\ Len(obeyed') = Len(obeyed) + 1
            /\ (\A i \in 1..Len(obeyed) : obeyed'[i] = obeyed[i])
            /\ obeyed'[Len(obeyed) + 1] = [id |-> slot.id, edit |-> edit]
        BY <4>1, <4>2, StreamGrows DEF StreamsTyped
      <4>4. \A i \in 1..Len(obeyed') : i \in 1..Len(obeyed) \/ i = Len(obeyed) + 1
        BY <4>3 DEF StreamsTyped
      <4>5. \A i \in 1..Len(obeyed') : obeyed'[i].edit <= edit'
        BY <4>1, <4>2, <4>3, <4>4 DEF StreamsTyped
      <4> QED BY <3>2, <4>2, <4>3, <4>5 DEF StreamsTyped
    <3> QED BY <1>3, <3>3, <3>4, <3>5 DEF PollRead, FileTyped, WritersTyped, channel, surfaces, Writing
  <2>4. "unreadable" \in Outcomes /\ "ignored_stale" \in Outcomes
    BY DEF Outcomes
  <2> QED BY <1>0, <2>0, <2>2, <2>3, <2>4 DEF Reading
<1> QED BY <1>1, <1>2, <1>3 DEF Watches

\* The types of what the campaign does around the watcher, and of its death.
LEMMA GoesTyped ==
  ASSUME ChannelTyped, Goes
  PROVE  ChannelTyped'
<1> USE DEF ChannelTyped
<1>1. FileTyped' /\ WritersTyped'
  BY DEF Goes, Finish, ParkBegins, ParkEnds, Unwind, Declined, Close, Crash, FileTyped,
         WritersTyped, Writing, channel, surfaces
<1>2. WatchTyped'
  <2>1. CASE Finish \/ ParkBegins \/ ParkEnds \/ Unwind \/ Declined
    BY <2>1 DEF Finish, ParkBegins, ParkEnds, Unwind, Declined, Free, WatchTyped
  <2>2. CASE Close \/ Crash
    BY <2>2 DEF Close, Crash, Died, WatchTyped
  <2> QED BY <2>1, <2>2 DEF Goes
<1>3. events' \in Seq(Events) /\ Len(events') >= Len(events) /\ Len(events) \in Nat
  <2>1. [type |-> "park"] \in Events /\ [type |-> "safe_park"] \in Events
    BY DEF Events
  <2>2. CASE UNCHANGED events
    BY <2>2 DEF StreamsTyped
  <2>3. CASE ParkBegins \/ ParkEnds
    <3>1. PICK e \in Events : events' = Append(events, e)
      BY <2>1, <2>3 DEF ParkBegins, ParkEnds, Emit
    <3> QED BY <3>1, StreamGrows DEF StreamsTyped
  <2>4. CASE Unwind
    <3>1. <<[type |-> "park"], [type |-> "safe_park"]>> \in Seq(Events)
          /\ Len(<<[type |-> "park"], [type |-> "safe_park"]>>) = 2
      BY <2>1
    <3>2. events' = events \o <<[type |-> "park"], [type |-> "safe_park"]>>
      BY <2>4 DEF Unwind
    <3> QED BY <3>1, <3>2 DEF StreamsTyped
  <2> QED BY <2>2, <2>3, <2>4 DEF Goes, Finish, Declined, Close, Crash
<1>4. obeyed' = obeyed /\ edit' = edit /\ parked' \in {parked, TRUE}
      /\ UNCHANGED <<cursor, pending, held>>
  BY DEF Goes, Finish, ParkBegins, ParkEnds, Unwind, Declined, Close, Crash, channel, surfaces
<1>5. SurfacesTyped'
  BY <1>3, <1>4 DEF SurfacesTyped
<1>6. StreamsTyped'
  BY <1>3, <1>4 DEF StreamsTyped
<1> QED BY <1>1, <1>2, <1>5, <1>6

\* What a bar reads.
LEMMA BarPollTyped ==
  ASSUME ChannelTyped, NEW b \in Bar, BarPoll(b)
  PROVE  ChannelTyped'
<1> USE DEF ChannelTyped
<1>1. FileTyped' /\ WritersTyped' /\ WatchTyped' /\ StreamsTyped'
  BY DEF BarPoll, FileTyped, WritersTyped, WatchTyped, StreamsTyped, Writing, channel, campaign
<1>2. cursor' = [cursor EXCEPT ![b] = Len(events)] /\ events' = events /\ Len(events) \in Nat
  BY DEF BarPoll, campaign, StreamsTyped
<1>3. pending' = pending \/ pending' = [pending EXCEPT ![b] = NoReq]
  BY DEF BarPoll
<1>4. held' \in [Bar -> BOOLEAN]
  <2>1. held \in [Bar -> BOOLEAN]
    BY DEF SurfacesTyped
  <2>2. held' = held \/ \E e : held' = [held EXCEPT ![b] =
                  CASE e.act = "pause" /\ e.outcome \in {"applied", "already_paused"} -> TRUE
                    [] e.act = "resume" /\ e.outcome \in {"applied", "not_paused"} -> FALSE
                    [] e.act = "abort" /\ e.outcome = "applied" -> FALSE
                    [] OTHER -> @]
    BY DEF BarPoll
  <2> QED BY <2>1, <2>2
<1>5. SurfacesTyped'
  <2>1. cursor' \in [Surface -> Nat] /\ \A s \in Surface : cursor'[s] <= Len(events)
    <3>1. cursor \in [Surface -> Nat] /\ \A s \in Surface : cursor[s] <= Len(events)
      BY DEF SurfacesTyped
    <3>2. Len(events) <= Len(events)
      BY <1>2
    <3> QED BY <1>2, <3>1, <3>2
  <2>2. pending' \in [Surface -> Request \cup {NoReq}]
    BY <1>3 DEF SurfacesTyped
  <2> QED BY <1>2, <1>4, <2>1, <2>2 DEF SurfacesTyped
<1> QED BY <1>1, <1>5

\* Every step of the channel keeps the types, whoever takes it.
LEMMA ChannelTypesKept == ChannelTyped /\ [ChannelNext]_cvars => ChannelTyped'
<1> SUFFICES ASSUME ChannelTyped, [ChannelNext]_cvars PROVE ChannelTyped'
  OBVIOUS
<1>1. CASE UNCHANGED cvars
  BY <1>1 DEF ChannelTyped, FileTyped, WritersTyped, SurfacesTyped, WatchTyped, StreamsTyped,
              Writing, cvars, channel, surfaces, campaign
<1>2. ASSUME NEW s \in Surface, BarPress(s) \/ CliPress(s) PROVE ChannelTyped'
  BY <1>2, PressTyped DEF BarPress, CliPress, Action
<1>3. ASSUME NEW s \in Surface, BarPoll(s) PROVE ChannelTyped'
  <2>1. s \in Bar
    BY <1>3 DEF BarPoll
  <2> QED BY <1>3, <2>1, BarPollTyped
<1> QED BY <1>1, <1>2, <1>3, WriteTyped, WatchKeepsTypes, GoesTyped DEF ChannelNext

--------------------------------------------------------------------------------
(* At most once, in order.                                                 *)

ChannelInv == ChannelTyped /\ ObeyKnown /\ InOrderOnce

\* What the watcher knows of the file does not change with what happens elsewhere; a
\* file that changed is newer than all that was obeyed.
LEMMA WritingKeepsOrder ==
  ASSUME ChannelInv, UNCHANGED <<watch, obeyed>>,
         UNCHANGED <<slot, edit>> \/ edit' = edit + 1
  PROVE  ObeyKnown' /\ InOrderOnce'
<1>1. edit \in Nat /\ watch.born \in Nat
  BY DEF ChannelInv, ChannelTyped, FileTyped, WatchTyped
<1>2. \A i \in 1..Len(obeyed) : obeyed[i].edit \in Nat /\ obeyed[i].edit <= edit
  BY ObeyedTyped DEF ChannelInv, ChannelTyped, StreamsTyped
<1>3. InOrderOnce'
  BY DEF ChannelInv, InOrderOnce
<1>4. CASE UNCHANGED <<slot, edit>>
  BY <1>3, <1>4 DEF ChannelInv, ObeyKnown, Fresh, PassedOver
<1>5. CASE edit' = edit + 1
  BY <1>1, <1>2, <1>3, <1>5 DEF ChannelInv, ObeyKnown
<1> QED BY <1>4, <1>5

\* The watcher passes over what it finds when it is built, and obeys nothing twice.
LEMMA WatchKeepsOrder ==
  ASSUME ChannelInv, Watches
  PROVE  ObeyKnown' /\ InOrderOnce'
<1> USE DEF ChannelInv, ChannelTyped
<1>1. edit \in Nat /\ watch.born \in Nat /\ edit' = edit /\ slot' = slot
  BY DEF FileTyped, WatchTyped, Watches, WatchRead, WatchStat, PollStat, PollRead, channel
<1>2. CASE WatchRead
  <2>0. PICK missed : Begins(Found(missed))
    BY <1>2 DEF WatchRead
  <2>1. watch'.born = edit /\ watch'.at = "stat0" /\ obeyed' = <<>> /\ Len(<<>>) = 0
        /\ watch'.acted = IF Found(missed) = NoReq THEN 0 ELSE Found(missed).seq
    BY <1>2, <2>0 DEF WatchRead, Begins, WatchTyped, ObeyKnown
  <2> QED BY <1>1, <2>1 DEF ObeyKnown, InOrderOnce, PassedOver
<1>3. CASE WatchStat \/ PollStat
  <2>1. watch'.born = watch.born /\ watch'.acted = watch.acted /\ obeyed' = obeyed
        /\ watch.at \in {"stat0", "up"} /\ watch'.at \in {"up", "read"}
    BY <1>3 DEF WatchStat, PollStat, WatchTyped
  <2>2. PassedOver => PassedOver'
    BY <1>1, <1>3 DEF WatchStat, PollStat, WatchTyped, PassedOver
  <2> QED BY <1>1, <2>1, <2>2 DEF ObeyKnown, InOrderOnce, Fresh
<1>4. CASE PollRead
  <2>0. PICK missed \in BOOLEAN, unsaid \in BOOLEAN : Reading(missed, unsaid)
    BY <1>4, PollReads
  <2>1. CASE \E req, outcome : Declines(req, outcome, unsaid)
    <3>1. watch'.born = watch.born /\ watch'.acted = watch.acted /\ obeyed' = obeyed
          /\ watch.at = "read" /\ watch'.at = "up" /\ ~PassedOver
      BY <1>4, <2>1 DEF PollRead, Declines, WatchTyped, PassedOver
    <3> QED BY <1>1, <3>1 DEF ObeyKnown, InOrderOnce, Fresh
  <2>2. CASE slot # NoReq /\ ~IsStale(slot) /\ Dispatches(slot, unsaid)
    <3>1. slot.seq \in Nat /\ slot.id \in Nat /\ watch.acted \in Nat
      BY <2>2 DEF FileTyped, Request, WatchTyped
    <3>2. Fresh
      BY <2>2, <3>1 DEF Fresh, IsStale
    <3>3. edit > watch.born /\ \A i \in 1..Len(obeyed) : obeyed[i].edit < edit
      BY <1>4, <3>2 DEF PollRead, ObeyKnown, PassedOver
    <3>4. watch'.born = watch.born /\ watch'.acted = slot.seq /\ watch'.at = "up"
      BY <1>4, <2>2 DEF PollRead, Dispatches, WatchTyped
    <3>5. ~Fresh'
      BY <1>1, <3>1, <3>4 DEF Fresh
    <3> DEFINE this == [id |-> slot.id, edit |-> edit]
    <3>6. this \in Handed /\ this.edit = edit /\ obeyed' = Append(obeyed, this)
      BY <1>1, <1>4, <2>2, <3>1 DEF PollRead, Dispatches, Handed
    <3>7. /\ Len(obeyed) \in Nat /\ Len(obeyed') = Len(obeyed) + 1
          /\ \A i \in 1..Len(obeyed) : obeyed'[i] = obeyed[i]
          /\ obeyed'[Len(obeyed) + 1].edit = edit
      BY <3>6, StreamGrows DEF StreamsTyped
    <3> HIDE DEF this
    <3>8. \A i \in 1..Len(obeyed) : obeyed[i].edit \in Nat
      BY ObeyedTyped
    <3>9. \A i \in 1..Len(obeyed') : i \in 1..Len(obeyed) \/ i = Len(obeyed) + 1
      BY <3>7
    <3>10. \A i \in 1..Len(obeyed') : obeyed'[i].edit > watch'.born
      BY <3>3, <3>4, <3>7, <3>9 DEF InOrderOnce
    <3>11. \A i, j \in 1..Len(obeyed') : i < j => obeyed'[i].edit < obeyed'[j].edit
      <4> SUFFICES ASSUME NEW i \in 1..Len(obeyed'), NEW j \in 1..Len(obeyed'), i < j
                   PROVE  obeyed'[i].edit < obeyed'[j].edit
        OBVIOUS
      <4>1. i \in 1..Len(obeyed)
        BY <3>7
      <4> QED BY <4>1, <3>3, <3>7, <3>9 DEF InOrderOnce
    <3> QED BY <1>1, <3>4, <3>5, <3>10, <3>11 DEF ObeyKnown, InOrderOnce
  <2> QED BY <2>0, <2>1, <2>2 DEF Reading
<1> QED BY <1>2, <1>3, <1>4 DEF Watches

\* The campaign moves neither; its end closes the watcher.
LEMMA EndingKeepsOrder ==
  ASSUME ChannelInv, UNCHANGED <<slot, edit, obeyed>>,
         UNCHANGED watch \/ watch' = [watch EXCEPT !.at = "closed"]
  PROVE  ObeyKnown' /\ InOrderOnce'
<1>1. watch'.born = watch.born /\ watch'.acted = watch.acted /\ watch'.at \in {watch.at, "closed"}
  BY DEF ChannelInv, ChannelTyped, WatchTyped
<1>2. watch'.at # "closed" => UNCHANGED watch
  BY DEF ChannelInv, ChannelTyped, WatchTyped
<1> QED BY <1>1, <1>2 DEF ChannelInv, ObeyKnown, InOrderOnce, Fresh, PassedOver

\* Every step of the channel keeps the order.
LEMMA OrderKept == ChannelInv /\ [ChannelNext]_cvars => ChannelInv'
<1> SUFFICES ASSUME ChannelInv, [ChannelNext]_cvars PROVE ChannelInv'
  OBVIOUS
<1>1. ChannelTyped'
  BY ChannelTypesKept DEF ChannelInv
<1>2. CASE Watches
  BY <1>1, <1>2, WatchKeepsOrder DEF ChannelInv
<1>3. CASE Goes
  <2>1. UNCHANGED <<slot, edit, obeyed>>
    BY <1>3 DEF Goes, Finish, ParkBegins, ParkEnds, Unwind, Declined, Close, Crash, channel
  <2>2. UNCHANGED watch \/ watch' = [watch EXCEPT !.at = "closed"]
    BY <1>3 DEF Goes, Finish, ParkBegins, ParkEnds, Unwind, Declined, Close, Crash, Died
  <2> QED BY <1>1, <2>1, <2>2, EndingKeepsOrder DEF ChannelInv
<1>4. ASSUME UNCHANGED cvars \/ \E s \in Surface : BarPress(s) \/ CliPress(s) \/ Writes(s) \/ BarPoll(s)
      PROVE  ChannelInv'
  <2>1. UNCHANGED <<watch, obeyed>>
    BY <1>4 DEF cvars, campaign, BarPress, CliPress, Press, Writes, ReadSeq, OpenTmp, WriteTmp,
                Rename, BarPoll
  <2>2. UNCHANGED <<slot, edit>> \/ edit' = edit + 1
    <3>1. CASE \E s \in Surface : WriteTmp(s)
      BY <3>1 DEF WriteTmp, channel
    <3>2. CASE \E s \in Surface : Rename(s)
      BY <3>2 DEF Rename, channel
    <3>3. CASE ~\E s \in Surface : WriteTmp(s) \/ Rename(s)
      BY <1>4, <3>3 DEF cvars, channel, BarPress, CliPress, Press, Writes, ReadSeq, OpenTmp, BarPoll
    <3> QED BY <3>1, <3>2, <3>3
  <2> QED BY <1>1, <2>1, <2>2, WritingKeepsOrder DEF ChannelInv
<1> QED BY <1>2, <1>3, <1>4 DEF ChannelNext

--------------------------------------------------------------------------------
(* The ladder.                                                             *)

Done == parked /\ loop.phase \in {"ending", "over"}

\* The record of a park is written after the park, and read after it was written.
ParkTold ==
  /\ \A i \in 1..Len(events) : events[i].type = "safe_park" => Done
  /\ ladder.safe => Done
  /\ ladder.state = "parked" => ladder.safe

\* What is on offer has not been overtaken by the park, and the takeover only after T2.
OffersKnown ==
  /\ ladder \in [state : {"idle", "taking"} \cup Waiting \cup Offered \cup Ended,
                 acked : BOOLEAN, park : BOOLEAN, safe : BOOLEAN]
  /\ ladder.state \in {"idle"} \cup Waiting \cup Offered => ~(ladder.park /\ ladder.safe)
  /\ ladder.state = "offered_takeover" => "T2" \in expired
  /\ reach \in SUBSET (1..4) /\ expired \subseteq {"T1", "T2"} /\ killed \in BOOLEAN

LadderInv == ChannelInv /\ ParkTold /\ OffersKnown

\* No ladder, nothing said and nothing offered.
LEMMA LadderStarts == BarInit => LadderInv
<1> SUFFICES ASSUME BarInit PROVE LadderInv
  OBVIOUS
<1>1. ChannelInv
  BY ChannelStarts DEF BarInit, ChannelInv
<1>2. ParkTold
  <2>1. 1..Len(events) = {}
    BY DEF BarInit, ChannelInit
  <2> QED BY <2>1 DEF BarInit, ParkTold
<1>3. OffersKnown
  <2>1. reach \in SUBSET (1..4)
    BY DEF BarInit, ReachableRungs
  <2>2. ladder = [state |-> "idle", acked |-> FALSE, park |-> FALSE, safe |-> FALSE]
    BY DEF BarInit
  <2>3. ladder \in [state : {"idle", "taking"} \cup Waiting \cup Offered \cup Ended,
                   acked : BOOLEAN, park : BOOLEAN, safe : BOOLEAN]
    BY <2>2
  <2>4. expired = {} /\ killed = FALSE
    BY DEF BarInit
  <2> QED BY <2>1, <2>2, <2>3, <2>4 DEF OffersKnown
<1> QED BY <1>1, <1>2, <1>3 DEF LadderInv

\* A campaign that has parked and said so goes nowhere but to its end.
LEMMA DoneStays == ChannelTyped /\ Done /\ [ChannelNext]_cvars => Done'
<1> SUFFICES ASSUME ChannelTyped, Done, [ChannelNext]_cvars PROVE Done'
  OBVIOUS
<1> USE DEF Done
<1>1. CASE Watches
  <2>1. ~WatchRead /\ ~WatchStat
    BY DEF WatchRead, Begins, WatchStat, ChannelTyped, WatchTyped
  <2>2. CASE PollStat
    BY <2>2 DEF PollStat
  <2>3. CASE PollRead
    <3>0. PICK missed, unsaid \in BOOLEAN : Reading(missed, unsaid)
      BY <2>3, PollReads
    <3>1. CASE \E req, outcome : Declines(req, outcome, unsaid)
      BY <2>3, <3>1 DEF PollRead, Declines
    <3>2. CASE slot # NoReq /\ Dispatches(slot, unsaid)
      <4>1. slot.act \in Action
        BY <3>2 DEF ChannelTyped, FileTyped, Request
      <4>2. HandlerMoves(slot.act)
        BY <4>1, HandlerAnswers DEF ChannelTyped
      <4> QED BY <2>3, <3>2, <4>2 DEF PollRead, Dispatches, HandlerMoves
    <3> QED BY <3>0, <3>1, <3>2 DEF Reading
  <2> QED BY <1>1, <2>1, <2>2, <2>3 DEF Watches
<1>2. CASE Goes
  <2>1. loop \in [phase : {"starting", "running", "parking", "ending", "over"},
                  paused : BOOLEAN, aborting : BOOLEAN]
    BY DEF ChannelTyped, WatchTyped
  <2> QED BY <1>2, <2>1 DEF Goes, Finish, ParkBegins, ParkEnds, Unwind, Declined, Close, Crash, Died
<1>3. ASSUME UNCHANGED cvars \/ \E s \in Surface : BarPress(s) \/ CliPress(s) \/ Writes(s) \/ BarPoll(s)
      PROVE  UNCHANGED <<parked, loop>>
  BY <1>3 DEF cvars, campaign, BarPress, CliPress, Press, Writes, ReadSeq, OpenTmp, WriteTmp,
              Rename, BarPoll
<1> QED BY <1>1, <1>2, <1>3 DEF ChannelNext

\* All the watcher ever writes is an acknowledgement, of what is on file or of nothing.
LEMMA WatcherTells ==
  ASSUME WatchRead \/ PollRead
  PROVE  UNCHANGED events \/ \E req \in {slot, NoReq} : \E outcome : Emit(Ack(req, outcome))
<1>1. CASE WatchRead
  BY <1>1 DEF WatchRead, Tell
<1>2. CASE PollRead
  <2>1. PICK missed, unsaid \in BOOLEAN : Reading(missed, unsaid)
    BY <1>2, PollReads
  <2> QED BY <2>1 DEF Reading, Declines, Dispatches, Tell
<1> QED BY <1>1, <1>2

\* What is new on the stream is no park, or the park is done.
LEMMA NewsIsTrue ==
  ASSUME ChannelTyped, \A i \in 1..Len(events) : events[i].type = "safe_park" => Done,
         [ChannelNext]_cvars
  PROVE  \A i \in 1..Len(events') : events'[i].type = "safe_park" => Done'
<1>1. CASE UNCHANGED events
  BY <1>1, DoneStays
<1>2. ASSUME NEW e, Emit(e), e.type = "safe_park" => Done'
      PROVE  \A i \in 1..Len(events') : events'[i].type = "safe_park" => Done'
  <2>1. Len(events) \in Nat /\ Len(events') = Len(events) + 1
        /\ (\A i \in 1..Len(events) : events'[i] = events[i]) /\ events'[Len(events) + 1] = e
    BY <1>2 DEF Emit, ChannelTyped, StreamsTyped
  <2>2. \A i \in 1..Len(events') : i \in 1..Len(events) \/ i = Len(events) + 1
    BY <2>1
  <2> QED BY <1>2, <2>1, <2>2, DoneStays
<1>3. CASE WatchRead \/ PollRead
  <2>1. UNCHANGED events \/ \E req, outcome : Emit(Ack(req, outcome))
    BY <1>3, WatcherTells
  <2>2. \A req, outcome : Ack(req, outcome).type # "safe_park"
    BY DEF Ack
  <2> QED BY <1>1, <1>2, <2>1, <2>2
<1>4. CASE ParkBegins
  BY <1>2, <1>4 DEF ParkBegins
<1>5. CASE ParkEnds
  <2>1. Done'
    BY <1>5 DEF ParkEnds, Done, ChannelTyped, WatchTyped
  <2> QED BY <1>2, <1>5, <2>1 DEF ParkEnds
<1>6. CASE Unwind
  BY <1>6 DEF Unwind, Done, ChannelTyped, WatchTyped
<1>7. CASE UNCHANGED cvars \/ WatchStat \/ PollStat \/ Finish \/ Declined \/ Close \/ Crash
           \/ \E s \in Surface : BarPress(s) \/ CliPress(s) \/ Writes(s) \/ BarPoll(s)
  <2>1. UNCHANGED events
    BY <1>7 DEF cvars, campaign, BarPress, CliPress, Press, Writes, ReadSeq, OpenTmp, WriteTmp,
                Rename, BarPoll, WatchStat, PollStat, Finish, Declined, Close, Crash
  <2> QED BY <1>1, <2>1
<1> QED BY <1>3, <1>4, <1>5, <1>6, <1>7 DEF ChannelNext, Watches, Goes

\* The ladder's own steps leave the channel to the others: it presses, reads, and kills.
LEMMA LadderKeepsChannel ==
  ASSUME LadderInv, LadderNext
  PROVE  /\ ChannelInv' /\ events' = events
         /\ Done => Done'
<1> USE DEF LadderInv
<1>1. CASE Asked \/ Advance
  <2>1. UNCHANGED cvars
    BY <1>1 DEF Asked, Advance
  <2>2. events' = events /\ Done' = Done
    BY <2>1 DEF cvars, campaign, Done
  <2> QED BY <2>1, <2>2, OrderKept
<1>2. CASE StartLadder
  <2>1. Press(Estop, "abort") /\ Estop \in Surface /\ "abort" \in Action
    BY <1>2 DEF StartLadder, Surface, Action
  <2>2. ChannelTyped'
    BY <2>1, PressTyped DEF ChannelInv
  <2>3. UNCHANGED <<slot, edit, watch, obeyed, events, parked, loop>>
    BY <2>1 DEF Press, channel, campaign
  <2> QED BY <2>2, <2>3, WritingKeepsOrder DEF ChannelInv, Done
<1>3. CASE \E late \in BOOLEAN : LadderPoll(late)
  <2>1. UNCHANGED <<channel, campaign, writer, pending, held, presses, answers>>
        /\ cursor' = [cursor EXCEPT ![Estop] = Len(events)]
    BY <1>3 DEF LadderPoll
  <2>2. UNCHANGED <<slot, edit, tmp, watch, lapse, loop, parked, events, obeyed, writer, presses, held,
                    pending>>
    BY <2>1 DEF channel, campaign
  <2>3. FileTyped' /\ WritersTyped' /\ WatchTyped' /\ StreamsTyped'
    BY <2>2 DEF ChannelInv, ChannelTyped, FileTyped, WritersTyped, WatchTyped, StreamsTyped, Writing
  <2>4. SurfacesTyped'
    <3>1. /\ cursor \in [Surface -> Nat] /\ \A s \in Surface : cursor[s] <= Len(events)
          /\ Len(events) \in Nat /\ Len(events) <= Len(events)
      BY DEF ChannelInv, ChannelTyped, SurfacesTyped, StreamsTyped
    <3>2. cursor' \in [Surface -> Nat] /\ \A s \in Surface : cursor'[s] <= Len(events)
      BY <2>1, <3>1
    <3> QED BY <2>2, <3>2 DEF ChannelInv, ChannelTyped, SurfacesTyped
  <2> QED BY <2>2, <2>3, <2>4, WritingKeepsOrder DEF ChannelInv, ChannelTyped, Done
<1>4. CASE Terminate \/ TakeAndPark
  <2>1. UNCHANGED <<slot, edit, tmp, lapse, events, obeyed, writer, presses, held, pending, cursor>>
        /\ parked' \in {parked, TRUE}
        /\ (UNCHANGED <<watch, loop>> \/ Died)
    BY <1>4 DEF Terminate, TakeAndPark, channel, surfaces
  <2>2. FileTyped' /\ WritersTyped' /\ SurfacesTyped' /\ StreamsTyped'
    BY <2>1 DEF ChannelInv, ChannelTyped, FileTyped, WritersTyped, SurfacesTyped, StreamsTyped, Writing
  <2>3. WatchTyped'
    <3>1. WatchTyped
      BY DEF ChannelInv, ChannelTyped
    <3>2. CASE UNCHANGED <<watch, loop>>
      BY <2>1, <3>1, <3>2 DEF WatchTyped
    <3>3. CASE Died
      BY <2>1, <3>1, <3>3 DEF WatchTyped, Died
    <3> QED BY <2>1, <3>2, <3>3
  <2>4. Done => Done'
    <3>1. loop'.phase \in {loop.phase, "over"}
      <4>1. CASE UNCHANGED loop
        BY <4>1
      <4>2. CASE Died
        BY <4>2 DEF Died, ChannelInv, ChannelTyped, WatchTyped
      <4> QED BY <2>1, <4>1, <4>2
    <3>2. parked => parked'
      BY <2>1
    <3> QED BY <3>1, <3>2 DEF Done
  <2> QED BY <2>1, <2>2, <2>3, <2>4, EndingKeepsOrder DEF ChannelInv, ChannelTyped, Died
<1> QED BY <1>1, <1>2, <1>3, <1>4 DEF LadderNext

\* What a poll makes of the ladder.
LEMMA PollSays ==
  ASSUME LadderInv, NEW late \in BOOLEAN, LadderPoll(late)
  PROVE  OffersKnown' /\ (ladder'.safe => Done) /\ (ladder'.state = "parked" => ladder'.safe)
<1> USE DEF LadderInv
<1> DEFINE read  == {events[i] : i \in New(Estop)}
           acked == ladder.acked \/ \E e \in read : Answers(e, pending[Estop])
           park  == ladder.park \/ \E e \in read : e.type = "park"
           safe  == ladder.safe \/ \E e \in read : e.type = "safe_park"
           state == AfterPoll(acked, park, safe, late)
<1>1. ladder.state \in Waiting \cup Offered
  BY DEF LadderPoll
<1>2. ladder' = [state |-> state, acked |-> acked, park |-> park, safe |-> safe]
      /\ expired' = expired \cup
             (IF ~late \/ HasParked(park, safe) THEN {}
              ELSE IF ladder.state = "awaiting_ack" /\ ~acked THEN {"T1"}
              ELSE IF ladder.state = "awaiting_park" THEN {"T2"} ELSE {})
      /\ reach' = reach /\ killed' = killed
  BY DEF LadderPoll
<1>3. acked \in BOOLEAN /\ park \in BOOLEAN /\ safe \in BOOLEAN
  BY DEF OffersKnown
<1>4. safe => Done
  <2>1. \A i \in New(Estop) : i \in 1..Len(events)
    <3>1. cursor[Estop] \in Nat
      BY DEF ChannelInv, ChannelTyped, SurfacesTyped, Surface
    <3> QED BY <3>1 DEF New, ChannelInv, ChannelTyped, StreamsTyped
  <2> QED BY <2>1 DEF ParkTold
<1>5. /\ park /\ safe => state = "parked"
      /\ ~(park /\ safe) => state \in {"awaiting_park", "acked_only", "offered_wait", "exhausted",
                                      "offered_takeover", ladder.state}
      /\ ~(park /\ safe) /\ state = "offered_takeover" =>
           (ladder.state = "awaiting_park" /\ late) \/ ladder.state = "offered_takeover"
  <2> HIDE DEF acked, park, safe
  <2> QED BY <1>3 DEF AfterPoll, HasParked
<1> HIDE DEF acked, park, safe, state
<1>6. ladder'.state = "parked" => ladder'.safe
  BY <1>1, <1>2, <1>5 DEF Waiting, Offered
<1>7. state \in {"idle", "taking"} \cup Waiting \cup Offered \cup Ended
  BY <1>1, <1>3, <1>5 DEF Waiting, Offered, Ended
<1>8. state = "offered_takeover" => "T2" \in expired'
  BY <1>1, <1>2, <1>3, <1>5 DEF OffersKnown, HasParked, Waiting, Offered
<1>9. state \in {"idle"} \cup Waiting \cup Offered => ~(park /\ safe)
  BY <1>5 DEF Waiting, Offered
<1>10. OffersKnown'
  BY <1>2, <1>3, <1>7, <1>8, <1>9 DEF OffersKnown
<1> QED BY <1>2, <1>4, <1>6, <1>10

\* Every step of either keeps it.
LEMMA LadderKept == LadderInv /\ [BarNext]_evars => LadderInv'
<1> SUFFICES ASSUME LadderInv, [BarNext]_evars PROVE LadderInv'
  OBVIOUS
<1> USE DEF LadderInv
<1>1. ASSUME [ChannelNext]_cvars, UNCHANGED <<ladder, reach, expired, killed>> PROVE LadderInv'
  <2>1. ChannelInv' /\ (Done => Done')
    BY <1>1, OrderKept, DoneStays DEF ChannelInv
  <2>2. \A i \in 1..Len(events') : events'[i].type = "safe_park" => Done'
    BY <1>1, NewsIsTrue DEF ChannelInv, ParkTold
  <2> QED BY <1>1, <2>1, <2>2 DEF ParkTold, OffersKnown
<1>2. ASSUME LadderNext PROVE LadderInv'
  <2>1. ChannelInv' /\ events' = events /\ (Done => Done')
    BY <1>2, LadderKeepsChannel
  <2>2. CASE \E late \in BOOLEAN : LadderPoll(late)
    BY <2>1, <2>2, PollSays DEF ParkTold
  <2>3. CASE StartLadder
    BY <2>1, <2>3 DEF StartLadder, ParkTold, OffersKnown
  <2>4. CASE Asked
    BY <2>1, <2>4 DEF Asked, Show, ParkTold, OffersKnown, Waiting
  <2>5. CASE Advance
    BY <2>1, <2>5 DEF Advance, Show, ParkTold, OffersKnown, Waiting, Offered
  <2>6. CASE Terminate
    BY <2>1, <2>6 DEF Terminate, Show, ParkTold, OffersKnown, Waiting, Offered
  <2>7. CASE TakeAndPark
    BY <2>1, <2>7 DEF TakeAndPark, Show, ParkTold, OffersKnown, Waiting, Offered, Ended
  <2> QED BY <1>2, <2>2, <2>3, <2>4, <2>5, <2>6, <2>7 DEF LadderNext
<1>3. CASE UNCHANGED evars
  BY <1>1, <1>3 DEF evars
<1> QED BY <1>1, <1>2, <1>3 DEF BarNext

\* The channel, the watcher and the ladder keep their types, for any number of windows,
\* command lines and presses (campaign_events.py, estop_ladder.py).
THEOREM LadderTyped == BarSpec => []LadderTypeOK
<1>1. LadderInv => LadderTypeOK
  <2> SUFFICES ASSUME LadderInv PROVE LadderTypeOK
    OBVIOUS
  <2> USE DEF LadderInv, ChannelInv, ChannelTyped
  <2>1. cursor \in [Surface -> 0..Len(events)]
    BY DEF SurfacesTyped, StreamsTyped
  <2>2. ChannelTypeOK
    BY <2>1 DEF ChannelTypeOK, FileTyped, WritersTyped, SurfacesTyped, WatchTyped, StreamsTyped, Presses
  <2> QED BY <2>2 DEF LadderTypeOK, OffersKnown
<1> QED BY <1>1, LadderStarts, LadderKept, PTL DEF BarSpec

\* A request is handed to the campaign at most once, in the order the requests reached the
\* file, and never when it was there before, however many write, whatever they overwrite
\* and even where two of them write at a time (ControlWatcher.poll_once).
THEOREM InOrderOnceHolds == BarSpec => []InOrderOnce
<1>1. LadderInv => InOrderOnce
  BY DEF LadderInv, ChannelInv
<1> QED BY <1>1, LadderStarts, LadderKept, PTL DEF BarSpec

\* A ladder that shows the campaign parked the rig shows what happened (_absorb, on_park).
THEOREM ParkedIsTrueHolds == BarSpec => []ParkedIsTrue
<1>1. LadderInv => ParkedIsTrue
  BY DEF LadderInv, ParkTold, ParkedIsTrue, Done
<1> QED BY <1>1, LadderStarts, LadderKept, PTL DEF BarSpec

\* The process is terminated only after the time for a park ran out, or where there was
\* nobody to ask, and never after the ladder has read of the park (take_over).
THEOREM KillIsLastResortHolds == BarSpec => KillIsLastResort
<1>1. LadderInv /\ [BarNext]_evars =>
        [killed' # killed => /\ "T2" \in expired \/ 1 \notin reach
                             /\ ~(ladder.park /\ ladder.safe)]_evars
  <2> SUFFICES ASSUME LadderInv, [BarNext]_evars, killed' # killed
               PROVE  /\ "T2" \in expired \/ 1 \notin reach
                      /\ ~(ladder.park /\ ladder.safe)
    OBVIOUS
  <2>1. Terminate
    BY DEF evars, BarNext, LadderNext, StartLadder, Asked, Advance, TakeAndPark, LadderPoll
  <2> QED BY <2>1 DEF Terminate, MayTakeOver, LadderInv, OffersKnown, Offered
<1> QED BY <1>1, LadderStarts, LadderKept, PTL DEF BarSpec, KillIsLastResort

--------------------------------------------------------------------------------
(* Whose answer it is.                                                     *)

\* At most one surface is writing; past the read it has the file's next number, and what
\* it is about to rename is its own request.
OneWriter == \A s, t \in Surface : Writing(s) /\ Writing(t) => s = t
WriterKnown == \A s \in Surface :
  /\ writer[s].at \in {"open", "write", "rename"} => writer[s].seq = edit + 1
  /\ writer[s].handle = IF writer[s].at = "write" THEN "tmp" ELSE "none"
  /\ writer[s].at = "rename" => tmp = Mine(s)

\* The file is numbered by its writes, and whole.
SlotKnown == IF edit = 0 THEN slot = NoReq ELSE slot # NoReq /\ slot.seq = edit

\* All that carries a number: the file, what is waited for, and the answers that quote one.
Quoting == {i \in 1..Len(events) : events[i].type = "ack" /\ events[i].seq # 0}
Records ==
  (({slot} \cup {pending[s] : s \in Surface}) \ {NoReq}) \cup {events[i] : i \in Quoting}

\* A number names one press, whoever quotes it, and a press has one number.
Numbered ==
  \A r, q \in Records :
    r.seq \in 1..edit /\ r.id \in 1..presses /\ (r.seq = q.seq <=> r.id = q.id)

\* What is being written has none yet.
Unnumbered ==
  \A s \in Surface : Writing(s) =>
    writer[s].id \in 1..presses /\ \A r \in Records : r.id # writer[s].id

Nameless == \A i \in 1..Len(events) : events[i].type = "ack" /\ events[i].seq = 0 => events[i].id = 0

WritesKnown == OneWriter /\ WriterKnown /\ SlotKnown
AnswerInv == ChannelInv /\ WritesKnown /\ Numbered /\ Unnumbered /\ Nameless /\ OwnAnswer

\* Nobody writes, nothing is numbered.
LEMMA AnswersInit == BarInit => AnswerInv
<1> SUFFICES ASSUME BarInit PROVE AnswerInv
  OBVIOUS
<1>1. ChannelInv
  BY ChannelStarts DEF BarInit, ChannelInv
<1>2. WritesKnown
  BY DEF BarInit, ChannelInit, WritesKnown, OneWriter, WriterKnown, SlotKnown, Writing, Quiet
<1>3. 1..Len(events) = {}
  BY DEF BarInit, ChannelInit
<1>4. Records = {}
  BY <1>3 DEF BarInit, ChannelInit, Records, Quoting
<1>5. Numbered /\ Nameless /\ OwnAnswer
  BY <1>3, <1>4 DEF Numbered, Nameless, OwnAnswer, BarInit, ChannelInit
<1>6. Unnumbered
  BY DEF BarInit, ChannelInit, Unnumbered, Writing, Quiet
<1> QED BY <1>1, <1>2, <1>5, <1>6 DEF AnswerInv

\* Nothing new is numbered, or one press gets the number of its write.
LEMMA NumbersGrow ==
  ASSUME Numbered, FileTyped, presses \in Nat, presses' \in {presses, presses + 1}, NEW id,
         \/ edit' = edit /\ \A r \in Records' : \E q \in Records : r.seq = q.seq /\ r.id = q.id
         \/ /\ edit' = edit + 1 /\ id \in 1..presses /\ \A r \in Records : r.id # id
            /\ \A r \in Records' : \/ \E q \in Records : r.seq = q.seq /\ r.id = q.id
                                   \/ r.seq = edit + 1 /\ r.id = id
  PROVE  Numbered'
<1>1. edit \in Nat /\ edit + 1 \notin 1..edit /\ edit + 1 \in 1..(edit + 1)
      /\ 1..edit \subseteq 1..edit' /\ 1..presses \subseteq 1..presses'
  BY DEF FileTyped
<1>2. SUFFICES ASSUME NEW r \in Records', NEW q \in Records'
               PROVE  r.seq \in 1..edit' /\ r.id \in 1..presses' /\ (r.seq = q.seq <=> r.id = q.id)
  BY DEF Numbered
<1>3. CASE edit' = edit /\ \A z \in Records' : \E o \in Records : z.seq = o.seq /\ z.id = o.id
  <2>1. PICK o \in Records : r.seq = o.seq /\ r.id = o.id
    BY <1>3
  <2>2. PICK u \in Records : q.seq = u.seq /\ q.id = u.id
    BY <1>3
  <2>3. o.seq \in 1..edit /\ o.id \in 1..presses /\ (o.seq = u.seq <=> o.id = u.id)
    BY DEF Numbered
  <2> QED BY <1>1, <2>1, <2>2, <2>3
<1>4. CASE /\ edit' = edit + 1 /\ id \in 1..presses /\ \A o \in Records : o.id # id
           /\ \A z \in Records' : \/ \E o \in Records : z.seq = o.seq /\ z.id = o.id
                                  \/ z.seq = edit + 1 /\ z.id = id
  <2>1. \A o \in Records : o.seq \in 1..edit /\ o.id \in 1..presses
    BY DEF Numbered
  <2>2. r.seq \in 1..edit' /\ r.id \in 1..presses'
    BY <1>1, <1>4, <2>1
  <2>3. CASE r.seq = edit + 1 /\ r.id = id
    BY <1>1, <1>4, <2>1, <2>3
  <2>4. ASSUME NEW o \in Records, r.seq = o.seq, r.id = o.id PROVE r.seq = q.seq <=> r.id = q.id
    BY <1>1, <1>4, <2>1, <2>4 DEF Numbered
  <2> QED BY <1>4, <2>2, <2>3, <2>4
<1> QED BY <1>3, <1>4

\* Who goes on writing goes on unnumbered, until a record bears its press.
LEMMA UnnumberedStays ==
  ASSUME Unnumbered, presses' = presses,
         \A t \in Surface : Writing(t)' => Writing(t) /\ writer'[t].id = writer[t].id,
         \A r \in Records' : \E q \in Records : r.id = q.id
  PROVE  Unnumbered'
BY DEF Unnumbered

\* Numbers stay where the file, the waits and the stream stay.
LEMMA NumbersStay ==
  ASSUME AnswerInv, ChannelInv', WritesKnown', UNCHANGED <<slot, edit, pending, events, answers>>,
         \/ Unnumbered' /\ presses' = presses + 1
         \/ presses' = presses /\
            \A t \in Surface : Writing(t)' => Writing(t) /\ writer'[t].id = writer[t].id
  PROVE  AnswerInv'
<1>1. Records' = Records /\ presses \in Nat
  BY DEF Records, Quoting, AnswerInv, ChannelInv, ChannelTyped, WritersTyped
<1>2. Unnumbered'
  BY <1>1, UnnumberedStays DEF AnswerInv
<1>3. Numbered'
  BY <1>1, NumbersGrow DEF AnswerInv, ChannelInv, ChannelTyped
<1> QED BY <1>2, <1>3 DEF AnswerInv, Nameless, OwnAnswer

\* Whoever begins to write is alone.
LEMMA PressKeepsWrites ==
  ASSUME ChannelTyped, WritesKnown, ~Overlap, NEW s \in Surface, NEW act \in Action, Press(s, act)
  PROVE  WritesKnown'
<1> USE DEF WritesKnown
<1>1. ~Writing(s) /\ Alone(s) /\ UNCHANGED <<slot, edit, tmp>>
  BY DEF Press, channel
<1>2. writer \in [Surface -> Presses]
  BY DEF ChannelTyped, WritersTyped
<1> DEFINE began == [Quiet EXCEPT !.at = "read", !.act = act, !.id = presses + 1]
<1>3. writer' = [writer EXCEPT ![s] = began]
  BY DEF Press
<1>4. began.at = "read" /\ began.handle = "none"
  BY DEF Quiet
<1> HIDE DEF began
<1>5. writer'[s] = began /\ \A t \in Surface \ {s} : writer'[t] = writer[t]
  BY <1>2, <1>3
<1>6. \A t \in Surface \ {s} : writer[t].at = "idle"
  BY <1>1 DEF Alone, Writing
<1>7. OneWriter'
  BY <1>5, <1>6 DEF OneWriter, Writing
<1>8. WriterKnown'
  BY <1>4, <1>5, <1>6 DEF WriterKnown
<1> QED BY <1>1, <1>7, <1>8 DEF SlotKnown

\* A press that begins is newer than all that is numbered.
LEMMA PressUnnumbered ==
  ASSUME AnswerInv, ~Overlap, NEW s \in Surface, NEW act \in Action, Press(s, act)
  PROVE  Unnumbered' /\ presses' = presses + 1 /\ UNCHANGED <<slot, edit, pending, events, answers>>
<1> USE DEF AnswerInv, ChannelInv
<1>1. Alone(s) /\ presses' = presses + 1 /\ UNCHANGED <<slot, edit, pending, events, answers>>
  BY DEF Press, channel, campaign
<1>2. writer \in [Surface -> Presses] /\ presses \in Nat
  BY DEF ChannelTyped, WritersTyped
<1> DEFINE began == [Quiet EXCEPT !.at = "read", !.act = act, !.id = presses + 1]
<1>3. writer' = [writer EXCEPT ![s] = began] /\ began.id = presses + 1
  BY DEF Press, Quiet
<1> HIDE DEF began
<1>4. writer'[s].id = presses + 1 /\ \A t \in Surface \ {s} : writer'[t] = writer[t]
  BY <1>2, <1>3
<1>5. \A t \in Surface \ {s} : ~Writing(t)'
  BY <1>1, <1>4 DEF Alone, Writing
<1>6. Records' = Records /\ \A r \in Records : r.id \in 1..presses
  BY <1>1 DEF Records, Quoting, Numbered
<1>7. Unnumbered'
  BY <1>1, <1>2, <1>4, <1>5, <1>6 DEF Unnumbered
<1> QED BY <1>1, <1>7

\* A surface writes alone, and what it writes has the file's next number.
LEMMA WritingKept ==
  ASSUME ChannelTyped, WritesKnown, ~Overlap, NEW s \in Surface,
         Writes(s)
  PROVE  WritesKnown'
<1> USE DEF WritesKnown
<1>1. ASSUME Writing(s) PROVE \A t \in Surface \ {s} : writer[t].at = "idle"
  BY <1>1 DEF OneWriter, Writing
<1>2. writer \in [Surface -> Presses]
  BY DEF ChannelTyped, WritersTyped
<1>3. CASE ReadSeq(s)
  <2>1. NextSeq = edit + 1
    BY DEF NextSeq, SlotKnown, ChannelTyped, FileTyped
  <2>2. /\ writer'[s].at = "open" /\ writer'[s].seq = edit + 1 /\ writer'[s].handle = writer[s].handle
        /\ writer[s].at = "read" /\ (\A t \in Surface \ {s} : writer'[t] = writer[t])
        /\ UNCHANGED <<slot, edit, tmp>>
    BY <1>2, <1>3, <2>1 DEF ReadSeq, Presses, channel
  <2>3. \A t \in Surface \ {s} : writer[t].at = "idle"
    BY <1>1, <2>2 DEF Writing
  <2>4. OneWriter'
    BY <2>2, <2>3 DEF OneWriter, Writing
  <2>5. WriterKnown'
    BY <2>2, <2>3 DEF WriterKnown
  <2> QED BY <2>2, <2>4, <2>5 DEF SlotKnown
<1>4. CASE OpenTmp(s)
  <2>1. /\ writer'[s].at = "write" /\ writer'[s].seq = writer[s].seq /\ writer'[s].handle = "tmp"
        /\ writer[s].at = "open" /\ (\A t \in Surface \ {s} : writer'[t] = writer[t])
        /\ UNCHANGED <<slot, edit>>
    BY <1>2, <1>4 DEF OpenTmp, Presses
  <2>2. \A t \in Surface \ {s} : writer[t].at = "idle"
    BY <1>1, <2>1 DEF Writing
  <2>3. OneWriter'
    BY <2>1, <2>2 DEF OneWriter, Writing
  <2>4. WriterKnown'
    BY <2>1, <2>2 DEF WriterKnown
  <2> QED BY <2>1, <2>3, <2>4 DEF SlotKnown
<1>5. CASE WriteTmp(s)
  <2>1. writer[s].at = "write" /\ writer[s].handle = "tmp"
    BY <1>5 DEF WriteTmp, WriterKnown
  <2>2. /\ writer'[s].at = "rename" /\ writer'[s].handle = "none"
        /\ writer'[s].seq = writer[s].seq /\ Mine(s)' = Mine(s)
        /\ (\A t \in Surface \ {s} : writer'[t] = writer[t])
        /\ tmp' = Mine(s) /\ UNCHANGED <<slot, edit>>
    BY <1>2, <1>5, <2>1 DEF WriteTmp, Presses, Mine
  <2>3. \A t \in Surface \ {s} : writer[t].at = "idle"
    BY <1>1, <2>1 DEF Writing
  <2>4. OneWriter'
    BY <2>2, <2>3 DEF OneWriter, Writing
  <2>5. WriterKnown'
    BY <2>1, <2>2, <2>3 DEF WriterKnown
  <2> QED BY <2>2, <2>4, <2>5 DEF SlotKnown
<1>6. CASE Rename(s)
  <2>1. writer[s].at = "rename" /\ tmp = Mine(s)
    BY <1>6 DEF Rename, WriterKnown
  <2>2. \A t \in Surface \ {s} : writer[t].at = "idle" /\ writer[t].handle = "none"
    BY <1>1, <2>1 DEF Writing, WriterKnown
  <2>3. tmp \in Request /\ tmp # NoReq /\ tmp # Torn
    BY <2>1, MineIsRequest, NoReqAssumption DEF ChannelTyped, Writing
  <2>4. /\ slot' = tmp /\ edit' = edit + 1
        /\ writer' = [t \in Surface |->
             IF t = s THEN Quiet ELSE [writer[t] EXCEPT !.handle = Follow(@)]]
    BY <1>6, <2>2, <2>3 DEF Rename, TmpOpen
  <2>5. \A t \in Surface : writer'[t].at = "idle" /\ writer'[t].handle = "none"
    BY <1>2, <2>2, <2>4 DEF Quiet, Follow, Presses
  <2>6. slot'.seq = edit + 1 /\ edit' # 0
    BY <2>1, <2>4 DEF Mine, WriterKnown, ChannelTyped, FileTyped
  <2> QED BY <2>3, <2>4, <2>5, <2>6 DEF OneWriter, WriterKnown, SlotKnown, Writing
<1> QED BY <1>3, <1>4, <1>5, <1>6 DEF Writes

\* A rename puts one press into the file and into the hands of who waits for it.
LEMMA RenameNumbers ==
  ASSUME AnswerInv, NEW s \in Surface, Rename(s), ChannelInv', WritesKnown'
  PROVE  AnswerInv'
<1> USE DEF AnswerInv, ChannelInv
<1>1. writer[s].at = "rename" /\ tmp = Mine(s) /\ writer[s].seq = edit + 1
  BY DEF Rename, WritesKnown, WriterKnown
<1>2. tmp \in Request /\ tmp # NoReq /\ tmp # Torn
  BY <1>1, MineIsRequest, NoReqAssumption DEF ChannelTyped, Writing
<1>3. ~TmpOpen(s)
  BY <1>1 DEF TmpOpen, WritesKnown, OneWriter, WriterKnown, Writing
<1>4. /\ slot' = Mine(s) /\ edit' = edit + 1 /\ UNCHANGED <<events, answers>>
      /\ pending' \in {pending, [pending EXCEPT ![s] = Mine(s)]}
  BY <1>1, <1>2, <1>3 DEF Rename, campaign
<1>5. \A t \in Surface : pending'[t] \in {pending[t], Mine(s)}
  BY <1>4 DEF ChannelTyped, SurfacesTyped
<1>6. Quoting' = Quoting
  BY <1>4 DEF Quoting
<1>7. ASSUME NEW r \in Records' PROVE r \in Records \/ r = Mine(s)
  BY <1>4, <1>5, <1>6 DEF Records
<1>8. Mine(s).seq = edit + 1
  BY <1>1 DEF Mine
<1>9. presses' = presses /\ presses \in Nat /\ Mine(s).id = writer[s].id
      /\ writer[s].id \in 1..presses /\ \A r \in Records : r.id # writer[s].id
  BY <1>1 DEF Rename, ChannelTyped, WritersTyped, Mine, Unnumbered, Writing
<1>10. Numbered'
  BY <1>4, <1>7, <1>8, <1>9, NumbersGrow DEF ChannelTyped
<1>11. \A t \in Surface : ~Writing(t)'
  <2>1. \A t \in Surface \ {s} : writer[t].at = "idle"
    BY <1>1 DEF WritesKnown, OneWriter, Writing
  <2>2. writer \in [Surface -> Presses]
    BY DEF ChannelTyped, WritersTyped
  <2>3. \A t \in Surface : writer'[t].at = "idle"
    BY <1>2, <1>3, <2>1, <2>2 DEF Rename, Quiet, Presses
  <2> QED BY <2>3 DEF Writing
<1>12. Nameless' /\ OwnAnswer' /\ Unnumbered'
  BY <1>4, <1>11 DEF Nameless, OwnAnswer, Unnumbered
<1> QED BY <1>10, <1>12

\* An answer quotes the number and the press of what it found in the file, if anything.
LEMMA AckNumbers ==
  ASSUME AnswerInv, NEW req \in {slot, NoReq}, NEW outcome, Emit(Ack(req, outcome)),
         UNCHANGED <<slot, edit, pending, answers, writer, presses>>
  PROVE  Numbered' /\ Unnumbered' /\ Nameless' /\ OwnAnswer'
<1> USE DEF AnswerInv, ChannelInv
<1>1. Len(events) \in Nat /\ Len(events') = Len(events) + 1
      /\ (\A i \in 1..Len(events) : events'[i] = events[i])
      /\ events'[Len(events) + 1] = Ack(req, outcome)
  BY DEF Emit, ChannelTyped, StreamsTyped
<1>2. \A i \in 1..Len(events') : i \in 1..Len(events) \/ i = Len(events) + 1
  BY <1>1
<1>3. /\ Ack(req, outcome).seq = (IF req = NoReq THEN 0 ELSE req.seq)
      /\ Ack(req, outcome).id = (IF req = NoReq THEN 0 ELSE req.id)
  BY DEF Ack
<1>4. req # NoReq => req.seq # 0
  BY DEF WritesKnown, SlotKnown
<1>5. ASSUME NEW r \in Records' PROVE \E q \in Records : r.seq = q.seq /\ r.id = q.id
  <2>1. CASE \E i \in Quoting' : r = events'[i]
    <3>1. PICK i \in 1..Len(events') : r = events'[i] /\ events'[i].type = "ack" /\ events'[i].seq # 0
      BY <2>1 DEF Quoting
    <3>2. CASE i \in 1..Len(events)
      BY <1>1, <3>1, <3>2 DEF Records, Quoting
    <3>3. CASE i = Len(events) + 1
      <4>1. req = slot /\ req # NoReq /\ r.seq = req.seq /\ r.id = req.id
        BY <1>1, <1>3, <3>1, <3>3
      <4>2. req \in Records
        BY <4>1 DEF Records
      <4> QED BY <4>1, <4>2
    <3> QED BY <1>2, <3>1, <3>2, <3>3
  <2>2. CASE ~\E i \in Quoting' : r = events'[i]
    BY <2>2 DEF Records
  <2> QED BY <2>1, <2>2
<1>6. Numbered' /\ Unnumbered'
  BY <1>5, NumbersGrow, UnnumberedStays DEF ChannelTyped, WritersTyped, Writing
<1>7. Nameless'
  BY <1>1, <1>2, <1>3, <1>4 DEF Nameless
<1> QED BY <1>6, <1>7 DEF OwnAnswer

\* What the campaign writes of itself quotes no number.
LEMMA ParkNumbers ==
  ASSUME AnswerInv, ChannelInv', WritesKnown',
         UNCHANGED <<slot, edit, pending, answers, writer, presses>>,
         \/ \E kind \in {"park", "safe_park"} : Emit([type |-> kind])
         \/ events' = events \o <<[type |-> "park"], [type |-> "safe_park"]>>
  PROVE  AnswerInv'
<1> USE DEF AnswerInv, ChannelInv
<1>1. events \in Seq(Events) /\ Len(events) \in Nat
  BY DEF ChannelTyped, StreamsTyped
<1>2. /\ Len(events') >= Len(events) /\ Len(events') \in Nat
      /\ \A i \in 1..Len(events) : events'[i] = events[i]
      /\ \A i \in 1..Len(events') : i \in 1..Len(events) \/ events'[i].type \in {"park", "safe_park"}
  <2>1. CASE \E kind \in {"park", "safe_park"} : Emit([type |-> kind])
    <3>1. PICK kind \in {"park", "safe_park"} : events' = Append(events, [type |-> kind])
      BY <2>1 DEF Emit
    <3>2. Len(events') = Len(events) + 1 /\ events'[Len(events) + 1].type = kind
          /\ \A i \in 1..Len(events) : events'[i] = events[i]
      BY <1>1, <3>1
    <3>3. \A i \in 1..Len(events') : i \in 1..Len(events) \/ i = Len(events) + 1
      BY <1>1, <3>2
    <3>4. \A i \in 1..Len(events') : i \in 1..Len(events) \/ events'[i].type \in {"park", "safe_park"}
      BY <3>1, <3>2, <3>3, Zenon
    <3>5. Len(events') >= Len(events) /\ Len(events') \in Nat
      BY <1>1, <3>2
    <3> QED BY <3>2, <3>4, <3>5
  <2>2. CASE events' = events \o <<[type |-> "park"], [type |-> "safe_park"]>>
    <3>1. Len(events') = Len(events) + 2 /\ (\A i \in 1..Len(events) : events'[i] = events[i])
          /\ events'[Len(events) + 1].type = "park" /\ events'[Len(events) + 2].type = "safe_park"
      BY <1>1, <2>2
    <3>2. \A i \in 1..Len(events') :
            i \in 1..Len(events) \/ i = Len(events) + 1 \/ i = Len(events) + 2
      BY <1>1, <3>1
    <3>3. \A i \in 1..Len(events') : i \in 1..Len(events) \/ events'[i].type \in {"park", "safe_park"}
      BY <3>1, <3>2, Zenon
    <3>4. Len(events') >= Len(events) /\ Len(events') \in Nat
      BY <1>1, <3>1
    <3> QED BY <3>1, <3>3, <3>4
  <2> QED BY <2>1, <2>2
<1>3. Quoting' = Quoting
  <2>1. \A i \in 1..Len(events) : i \in 1..Len(events')
    BY <1>1, <1>2
  <2> QED BY <1>2, <2>1 DEF Quoting
<1>4. \A i \in Quoting : events'[i] = events[i]
  BY <1>2 DEF Quoting
<1>5. Records' = Records
  BY <1>3, <1>4 DEF Records
<1>6. Nameless'
  BY <1>2 DEF Nameless
<1> QED BY <1>5, <1>6 DEF Numbered, Unnumbered, OwnAnswer, Writing

\* Among numbers of a stream there is a first.
LEMMA FirstIsThere ==
  ASSUME NEW a \in Nat, NEW n \in Nat, NEW S, S \subseteq (a + 1)..n, S # {}
  PROVE  (CHOOSE i \in S : \A j \in S : i <= j) \in S
<1>1. S \in SUBSET Nat
  OBVIOUS
<1>2. \E i \in S : \A j \in S : ~ (<<j, i>> \in OpToRel(<, Nat))
  BY <1>1, WFMin, NatLessThanWellFounded, Zenon
<1>3. PICK i \in S : \A j \in S : ~ (<<j, i>> \in OpToRel(<, Nat))
  BY <1>2, Zenon
<1>4. \A j \in S : j < i => <<j, i>> \in OpToRel(<, Nat)
  BY <1>1, Zenon DEF OpToRel
<1>5. \A j \in S : ~ (j < i)
  BY <1>3, <1>4, Zenon
<1>6. \A j \in S : i <= j
  BY <1>1, <1>5
<1> QED BY <1>6

\* Whatever the channel does, a number names one press, and a bar is told of its own.
LEMMA AnswersKept == ASSUME ~Overlap, AnswerInv, [ChannelNext]_cvars PROVE AnswerInv'
<1> USE DEF AnswerInv
<1>1. ChannelInv'
  BY OrderKept
<1>2. ASSUME UNCHANGED <<slot, edit, tmp, writer>> PROVE WritesKnown'
  BY <1>2 DEF WritesKnown, OneWriter, WriterKnown, SlotKnown, Writing, Mine
<1>3. ASSUME NEW s \in Surface, BarPress(s) \/ CliPress(s) PROVE AnswerInv'
  <2>1. PICK act \in Action : Press(s, act)
    BY <1>3 DEF BarPress, CliPress, Action
  <2>2. WritesKnown'
    BY <2>1, PressKeepsWrites DEF ChannelInv
  <2> QED BY <1>1, <2>1, <2>2, PressUnnumbered, NumbersStay
<1>4. ASSUME NEW s \in Surface, Writes(s) PROVE AnswerInv'
  <2>1. WritesKnown'
    BY <1>4, WritingKept DEF ChannelInv
  <2>2. CASE Rename(s)
    BY <1>1, <2>1, <2>2, RenameNumbers
  <2>3. CASE ReadSeq(s) \/ OpenTmp(s) \/ WriteTmp(s)
    <3>1. WriteTmp(s) => writer[s].handle = "tmp"
      BY DEF WriteTmp, WritesKnown, WriterKnown
    <3>2. UNCHANGED <<slot, edit, pending, events, answers, presses>>
      BY <2>3, <3>1 DEF ReadSeq, OpenTmp, WriteTmp, channel, campaign
    <3>3. writer \in [Surface -> Presses]
      BY DEF ChannelInv, ChannelTyped, WritersTyped
    <3>4. \A t \in Surface : Writing(t)' => Writing(t) /\ writer'[t].id = writer[t].id
      BY <2>3, <3>3 DEF ReadSeq, OpenTmp, WriteTmp, Writing, Presses
    <3> QED BY <1>1, <2>1, <3>2, <3>4, NumbersStay
  <2> QED BY <1>4, <2>2, <2>3 DEF Writes
<1>5. ASSUME NEW b \in Surface, BarPoll(b) PROVE AnswerInv'
  <2>1. UNCHANGED <<slot, edit, tmp, writer, events, presses>>
    BY <1>5 DEF BarPoll, channel, campaign
  <2>2. WritesKnown' /\ Nameless'
    BY <1>2, <2>1 DEF Nameless
  <2>3. pending \in [Surface -> Request \cup {NoReq}] /\ Len(events) \in Nat /\ cursor[b] \in Nat
    BY DEF ChannelInv, ChannelTyped, SurfacesTyped, StreamsTyped
  <2>4. CASE UNCHANGED <<pending, answers>>
    BY <1>1, <2>1, <2>2, <2>4, NumbersStay DEF Writing
  <2>5. CASE ~UNCHANGED <<pending, answers>>
    <3> DEFINE found == {i \in New(b) : Answers(events[i], pending[b])}
               first == CHOOSE i \in found : \A j \in found : i <= j
    <3>1. pending' = [pending EXCEPT ![b] = NoReq] /\ found # {}
          /\ answers' = answers \cup {[press |-> pending[b].id, by |-> events[first].id]}
      BY <1>5, <2>5 DEF BarPoll
    <3>2. first \in found
      BY <2>3, <3>1, FirstIsThere DEF New
    <3>3. first \in 1..Len(events) /\ Answers(events[first], pending[b])
      BY <2>3, <3>2 DEF New
    <3> HIDE DEF first, found
    <3>4. events[first].id \in {pending[b].id, 0}
      <4>1. CASE events[first].seq = 0
        BY <3>3, <4>1 DEF Answers, Nameless
      <4>2. CASE events[first].seq # 0
        <5>1. first \in Quoting /\ events[first].seq = pending[b].seq
          BY <3>3, <4>2 DEF Answers, Quoting
        <5>2. events[first] \in Records /\ pending[b] \in Records
          BY <1>5, <5>1 DEF Records, BarPoll
        <5> QED BY <5>1, <5>2 DEF Numbered
      <4> QED BY <4>1, <4>2
    <3>5. OwnAnswer'
      BY <3>1, <3>4 DEF OwnAnswer
    <3>6. \A t \in Surface : pending'[t] \in {pending[t], NoReq}
      BY <2>3, <3>1
    <3>7. Records' \subseteq Records
      BY <2>1, <3>6 DEF Records, Quoting
    <3>8. Numbered' /\ Unnumbered'
      BY <2>1, <3>7 DEF Numbered, Unnumbered, Writing
    <3> QED BY <1>1, <2>2, <3>5, <3>8
  <2> QED BY <2>4, <2>5
<1>6. CASE Watches
  <2>1. UNCHANGED <<slot, edit, tmp, writer, pending, answers, presses>>
    BY <1>6 DEF Watches, WatchRead, WatchStat, PollStat, PollRead, channel, surfaces
  <2>2. CASE UNCHANGED events
    BY <1>1, <1>2, <2>1, <2>2, NumbersStay DEF Writing
  <2>3. CASE ~UNCHANGED events
    <3>1. \E req \in {slot, NoReq} : \E outcome : Emit(Ack(req, outcome))
      BY <1>6, <2>3, WatcherTells DEF Watches, WatchStat, PollStat
    <3> QED BY <1>1, <1>2, <2>1, <3>1, AckNumbers
  <2> QED BY <2>2, <2>3
<1>7. CASE Goes
  <2>1. UNCHANGED <<slot, edit, tmp, writer, pending, answers, presses>>
    BY <1>7 DEF Goes, Finish, ParkBegins, ParkEnds, Unwind, Declined, Close, Crash, channel, surfaces
  <2>2. CASE UNCHANGED events
    BY <1>1, <1>2, <2>1, <2>2, NumbersStay DEF Writing
  <2>3. CASE ~UNCHANGED events
    <3>1. \/ \E kind \in {"park", "safe_park"} : Emit([type |-> kind])
          \/ events' = events \o <<[type |-> "park"], [type |-> "safe_park"]>>
      BY <1>7, <2>3 DEF Goes, Finish, ParkBegins, ParkEnds, Unwind, Declined, Close, Crash
    <3> QED BY <1>1, <1>2, <2>1, <3>1, ParkNumbers
  <2> QED BY <2>2, <2>3
<1>8. CASE UNCHANGED cvars
  BY <1>1, <1>2, <1>8, NumbersStay DEF Writing, cvars, channel, surfaces, campaign
<1> QED BY <1>3, <1>4, <1>5, <1>6, <1>7, <1>8 DEF ChannelNext

\* The E-Stop writes one abort, before its ladder shows anything.
EstopKnown ==
  /\ Writing(Estop) => ladder.state = "idle" /\ 1 \in reach /\ pending[Estop] = NoReq
  /\ ladder.acked => ladder.state # "idle" /\ pending[Estop] # NoReq
  /\ ladder.state \in Waiting \cup Offered => pending[Estop] # NoReq
  /\ HeardItself

\* It begins to write in no step of the channel, and waits for what it wrote.
EstopApart ==
  /\ Writing(Estop)' => Writing(Estop)
  /\ pending'[Estop] = pending[Estop] \/ (Writing(Estop) /\ ~Writing(Estop)')

\* The stream is only appended to.
LEMMA StreamKept ==
  ASSUME ChannelTyped, [ChannelNext]_cvars
  PROVE  Len(events') >= Len(events) /\ \A i \in 1..Len(events) : events'[i] = events[i]
<1>1. events \in Seq(Events) /\ Len(events) \in Nat
  BY DEF ChannelTyped, StreamsTyped
<1>2. \/ UNCHANGED events \/ \E e : Emit(e)
      \/ events' = events \o <<[type |-> "park"], [type |-> "safe_park"]>>
  <2>1. CASE Watches \/ Goes
    BY <2>1, WatcherTells DEF Watches, WatchStat, PollStat, Goes, Finish, ParkBegins,
                ParkEnds, Unwind, Declined, Close, Crash
  <2>2. ASSUME NEW s \in Surface, BarPress(s) \/ CliPress(s) PROVE UNCHANGED events
    <3>1. PICK act \in Action : Press(s, act)
      BY <2>2 DEF BarPress, CliPress, Action
    <3> QED BY <3>1 DEF Press, campaign
  <2>3. ASSUME NEW s \in Surface, Writes(s) \/ BarPoll(s) PROVE UNCHANGED events
    BY <2>3 DEF campaign, Writes, ReadSeq, OpenTmp, WriteTmp, Rename, BarPoll
  <2>4. CASE UNCHANGED cvars
    BY <2>4 DEF cvars, campaign
  <2> QED BY <2>1, <2>2, <2>3, <2>4 DEF ChannelNext
<1>3. CASE \E e : Emit(e)
  BY <1>1, <1>3 DEF Emit
<1>4. CASE events' = events \o <<[type |-> "park"], [type |-> "safe_park"]>>
  BY <1>1, <1>4
<1> QED BY <1>1, <1>2, <1>3, <1>4

\* Nobody else writes in its name, and what it waits for it goes on waiting for.
LEMMA EstopKept ==
  ASSUME ChannelInv, EstopKnown, [ChannelNext]_cvars, UNCHANGED <<ladder, reach>>
  PROVE  EstopKnown'
<1> USE DEF ChannelInv, ChannelTyped
<1>1. Estop \in Surface /\ writer \in [Surface -> Presses] /\ pending \in [Surface -> Request \cup {NoReq}]
  BY DEF Surface, WritersTyped, SurfacesTyped
<1>2. Len(events) \in Nat /\ Len(events') >= Len(events) /\ \A i \in 1..Len(events) : events'[i] = events[i]
  BY StreamKept
<1>3. EstopApart
  <2>1. ASSUME NEW s \in Surface, BarPress(s) \/ CliPress(s) PROVE EstopApart
    <3>1. s # Estop
      BY <2>1, SurfaceAssumption DEF BarPress, CliPress
    <3>2. PICK act \in Action : Press(s, act)
      BY <2>1 DEF BarPress, CliPress, Action
    <3>3. UNCHANGED pending /\ \E w : writer' = [writer EXCEPT ![s] = w]
      BY <3>2 DEF Press
    <3> QED BY <1>1, <3>1, <3>3 DEF EstopApart, Writing
  <2>2. ASSUME NEW s \in Surface, ReadSeq(s) \/ OpenTmp(s) \/ WriteTmp(s) PROVE EstopApart
    <3>1. writer[s].at # "idle" /\ UNCHANGED pending /\ \A t \in Surface \ {s} : writer'[t] = writer[t]
      BY <1>1, <2>2 DEF ReadSeq, OpenTmp, WriteTmp
    <3> QED BY <1>1, <3>1 DEF EstopApart, Writing
  <2>3. ASSUME NEW s \in Surface, Rename(s) PROVE EstopApart
    <3>1. writer[s].at # "idle" /\ writer'[s].at = "idle"
      BY <1>1, <2>3 DEF Rename, Quiet
    <3>2. \A t \in Surface \ {s} : writer'[t].at = writer[t].at /\ pending'[t] = pending[t]
      BY <1>1, <2>3 DEF Rename, Presses
    <3> QED BY <1>1, <3>1, <3>2 DEF EstopApart, Writing
  <2>4. ASSUME NEW s \in Surface, BarPoll(s) PROVE EstopApart
    <3>1. s # Estop
      BY <2>4, SurfaceAssumption DEF BarPoll
    <3>2. writer' = writer /\ pending' \in {pending, [pending EXCEPT ![s] = NoReq]}
      BY <2>4 DEF BarPoll
    <3> QED BY <1>1, <3>1, <3>2 DEF EstopApart, Writing
  <2>5. CASE UNCHANGED <<writer, pending>>
    BY <2>5 DEF EstopApart, Writing
  <2>6. Watches \/ Goes \/ UNCHANGED cvars => UNCHANGED <<writer, pending>>
    BY DEF Watches, WatchRead, WatchStat, PollStat, PollRead, Goes, Finish, ParkBegins, ParkEnds,
           Unwind, Declined, Close, Crash, surfaces, cvars
  <2> QED BY <2>1, <2>2, <2>3, <2>4, <2>5, <2>6 DEF ChannelNext, Writes
<1>4. pending[Estop] # NoReq => pending'[Estop] = pending[Estop]
  BY <1>3 DEF EstopApart, EstopKnown
<1>5. HeardItself'
  <2>1. SUFFICES ASSUME ladder.acked
                 PROVE  \E i \in 1..Len(events') :
                          events'[i].type = "ack" /\ events'[i].id \in {pending'[Estop].id, 0}
    BY DEF HeardItself
  <2>2. PICK i \in 1..Len(events) : events[i].type = "ack" /\ events[i].id \in {pending[Estop].id, 0}
    BY <2>1 DEF EstopKnown, HeardItself
  <2> QED BY <1>2, <1>4, <2>1, <2>2 DEF EstopKnown
<1> QED BY <1>3, <1>4, <1>5 DEF EstopApart, EstopKnown

\* What the ladder takes for its answer quotes the number of its abort.
LEMMA LadderHears ==
  ASSUME AnswerInv, OffersKnown, EstopKnown, NEW late \in BOOLEAN, LadderPoll(late)
  PROVE  EstopKnown'
<1> USE DEF AnswerInv, ChannelInv, ChannelTyped
<1>1. Estop \in Surface /\ cursor[Estop] \in Nat /\ Len(events) \in Nat
  BY DEF Surface, SurfacesTyped, StreamsTyped
<1>2. ladder.state \in Waiting \cup Offered /\ UNCHANGED <<writer, pending, events, reach>>
  BY DEF LadderPoll, campaign
<1>3. pending[Estop] # NoReq /\ ladder.state # "idle"
  BY <1>2 DEF EstopKnown, Waiting, Offered
<1>4. \E a, p, q : ladder' = [state |-> AfterPoll(a, p, q, late), acked |-> a, park |-> p, safe |-> q]
                   /\ (a => ladder.acked \/ \E i \in New(Estop) : Answers(events[i], pending[Estop]))
  BY DEF LadderPoll
<1>5. PICK a, p, q : ladder' = [state |-> AfterPoll(a, p, q, late), acked |-> a, park |-> p, safe |-> q]
                     /\ (a => ladder.acked \/ \E i \in New(Estop) : Answers(events[i], pending[Estop]))
  BY <1>4
<1>6. ladder'.state # "idle"
  BY <1>2, <1>3, <1>5 DEF AfterPoll
<1>7. ladder'.acked =>
        \E i \in 1..Len(events) : events[i].type = "ack" /\ events[i].id \in {pending[Estop].id, 0}
  <2>1. CASE ladder.acked
    BY <2>1 DEF EstopKnown, HeardItself
  <2>2. ASSUME NEW i \in New(Estop), Answers(events[i], pending[Estop])
        PROVE  events[i].type = "ack" /\ events[i].id \in {pending[Estop].id, 0} /\ i \in 1..Len(events)
    <3>1. i \in 1..Len(events) /\ events[i].type = "ack"
      BY <1>1, <2>2 DEF New, Answers
    <3>2. CASE events[i].seq = 0
      BY <3>1, <3>2 DEF Nameless
    <3>3. CASE events[i].seq # 0
      <4>1. i \in Quoting /\ events[i].seq = pending[Estop].seq
        BY <2>2, <3>1, <3>3 DEF Answers, Quoting
      <4>2. events[i] \in Records /\ pending[Estop] \in Records
        BY <1>1, <1>3, <4>1 DEF Records
      <4> QED BY <3>1, <4>1, <4>2 DEF Numbered
    <3> QED BY <3>1, <3>2, <3>3
  <2> QED BY <1>5, <2>1, <2>2
<1> QED BY <1>2, <1>3, <1>6, <1>7 DEF EstopKnown, HeardItself, Writing

\* The ladder's own steps write like a bar's, and read.
LEMMA LadderAnswers ==
  ASSUME ~Overlap, LadderInv, AnswerInv, EstopKnown, LadderNext
  PROVE  AnswerInv' /\ EstopKnown'
<1> USE DEF LadderInv
<1>1. ChannelInv'
  BY LadderKeepsChannel
<1>2. ASSUME UNCHANGED <<slot, edit, tmp, writer, pending, events, answers, presses>>
      PROVE  AnswerInv'
  <2>1. WritesKnown'
    BY <1>2 DEF AnswerInv, WritesKnown, OneWriter, WriterKnown, SlotKnown, Writing, Mine
  <2> QED BY <1>1, <1>2, <2>1, NumbersStay DEF Writing
<1>3. CASE StartLadder
  <2>1. Press(Estop, "abort") /\ Estop \in Surface /\ "abort" \in Action
    BY <1>3 DEF StartLadder, Surface, Action
  <2>2. WritesKnown'
    BY <2>1, PressKeepsWrites DEF AnswerInv, ChannelInv
  <2>3. UNCHANGED <<slot, edit, pending, events, answers>>
    BY <2>1 DEF Press, channel, campaign
  <2>4. AnswerInv'
    BY <1>1, <2>1, <2>2, PressUnnumbered, NumbersStay
  <2>5. EstopKnown'
    BY <1>3, <2>3 DEF StartLadder, EstopKnown, HeardItself, Waiting, Offered
  <2> QED BY <2>4, <2>5
<1>4. CASE \E late \in BOOLEAN : LadderPoll(late)
  <2>1. UNCHANGED <<slot, edit, tmp, writer, pending, events, answers, presses>>
    BY <1>4 DEF LadderPoll, channel, campaign
  <2> QED BY <1>2, <1>4, <2>1, LadderHears
<1>5. CASE Asked \/ Advance \/ Terminate \/ TakeAndPark
  <2>1. UNCHANGED <<slot, edit, tmp, writer, pending, events, answers, presses, reach>>
    BY <1>5 DEF Asked, Advance, Terminate, TakeAndPark, cvars, channel, surfaces, campaign
  <2>2. ladder'.acked = ladder.acked
    BY <1>5 DEF Asked, Advance, Terminate, TakeAndPark, Show, OffersKnown
  <2>3. HeardItself'
    BY <2>1, <2>2 DEF EstopKnown, HeardItself
  <2>4. AnswerInv'
    BY <1>2, <2>1
  <2>5. Writing(Estop)' = Writing(Estop)
    BY <2>1 DEF Writing
  <2>6. CASE Asked
    <3>1. ladder'.state = "awaiting_ack" /\ ladder.state = "idle" /\ pending[Estop] # NoReq
      BY <2>6 DEF Asked, Show, OffersKnown
    <3> QED BY <2>1, <2>2, <2>3, <2>4, <2>5, <3>1 DEF EstopKnown
  <2>7. CASE Advance
    <3>1. ladder'.state = "awaiting_park" /\ ladder.state = "offered_wait"
      BY <2>7 DEF Advance, Show, OffersKnown
    <3> QED BY <2>1, <2>2, <2>3, <2>4, <2>5, <3>1 DEF EstopKnown, Offered
  <2>8. CASE Terminate
    <3>1. ladder'.state = "taking" /\ (ladder.state = "idle" => 1 \notin reach)
      BY <2>8 DEF Terminate, MayTakeOver, Show, OffersKnown
    <3> QED BY <2>1, <2>2, <2>3, <2>4, <2>5, <3>1 DEF EstopKnown, Waiting, Offered
  <2>9. CASE TakeAndPark
    <3>1. ladder'.state = "taken_over" /\ ladder.state = "taking"
      BY <2>9 DEF TakeAndPark, Show, OffersKnown
    <3> QED BY <2>1, <2>2, <2>3, <2>4, <2>5, <3>1 DEF EstopKnown, Waiting, Offered
  <2> QED BY <1>5, <2>6, <2>7, <2>8, <2>9
<1> QED BY <1>3, <1>4, <1>5 DEF LadderNext

\* Where no two presses are written at a time every number names one press.
LEMMA AnswersHold == ASSUME ~Overlap PROVE BarSpec => [](AnswerInv /\ EstopKnown)
<1> DEFINE I == LadderInv /\ AnswerInv /\ EstopKnown
<1>1. BarInit => I
  <2> SUFFICES ASSUME BarInit PROVE I
    OBVIOUS
  <2>1. EstopKnown
    BY DEF BarInit, ChannelInit, EstopKnown, HeardItself, Writing, Quiet, Surface, Waiting, Offered
  <2> QED BY <2>1, LadderStarts, AnswersInit
<1>2. I /\ [BarNext]_evars => I'
  <2> SUFFICES ASSUME I, [BarNext]_evars PROVE I'
    OBVIOUS
  <2>1. LadderInv'
    BY LadderKept
  <2>2. ASSUME [ChannelNext]_cvars, UNCHANGED <<ladder, reach>> PROVE AnswerInv' /\ EstopKnown'
    BY <2>2, AnswersKept, EstopKept DEF LadderInv
  <2>3. CASE LadderNext
    BY <2>1, <2>3, LadderAnswers
  <2>4. CASE ~LadderNext
    BY <2>1, <2>2, <2>4 DEF BarNext, evars
  <2> QED BY <2>1, <2>3, <2>4
<1>3. I => AnswerInv /\ EstopKnown
  OBVIOUS
<1> QED BY <1>1, <1>2, <1>3, PTL DEF BarSpec

\* Where no two presses are written at a time, a bar resolves a press by the answer to that
\* press and never by somebody else's, for any number of surfaces, requests that replace one
\* another, watchers that start late and campaigns that die (ack_answers_request).
THEOREM OwnAnswerHolds == ASSUME ~Overlap PROVE BarSpec => []OwnAnswer
<1>1. AnswerInv => OwnAnswer
  BY DEF AnswerInv
<1> QED BY <1>1, AnswersHold, PTL

\* Under the same proviso what the emergency stop takes for the answer to its abort is about
\* its abort (EstopLadder._absorb).
THEOREM HeardItselfHolds == ASSUME ~Overlap PROVE BarSpec => []HeardItself
<1>1. EstopKnown => HeardItself
  BY DEF EstopKnown
<1> QED BY <1>1, AnswersHold, PTL

--------------------------------------------------------------------------------
(* Nothing is forgotten.                                                   *)

Listening == watch.at \in {"stat0", "up", "read"}

\* The watcher's two marks are the file's: up to one it has acted, or began, if it could
\* read what was there; what it
\* obeyed last is what the file held; and while it is built nothing is written.
MarksKnown ==
  /\ watch.seen <= edit
  /\ Listening => \/ watch.acted \in {0, watch.born}
                  \/ \E i \in 1..Len(obeyed) : obeyed[i].edit = watch.acted
  /\ \A i \in 1..Len(obeyed) : obeyed[i].edit = edit => obeyed[i].id = slot.id
  /\ watch.at = "stat0" => watch.born = edit

\* Who waits for what is on file: the watcher will read it, or has said so.
WaitsFor(b) == pending[b] # NoReq /\ slot # NoReq /\ slot.id = pending[b].id
Told(b) == \E i \in New(b) : Answers(events[i], pending[b])
ToldInTime == \A b \in Bar :
  WaitsFor(b) /\ Listening /\ lapse.unsaid # edit =>
    watch.at = "read" \/ (watch.at = "up" /\ watch.seen # edit) \/ Told(b)

StillInv == MarksKnown /\ StillToHear /\ ToldInTime

\* Nobody listens, nobody waits.
LEMMA StillInit == BarInit => StillInv
<1> SUFFICES ASSUME BarInit PROVE StillInv
  OBVIOUS
<1>1. watch.at = "none" /\ watch.seen = 0 /\ edit = 0 /\ 1..Len(obeyed) = {}
  BY DEF BarInit, ChannelInit
<1> QED BY <1>1 DEF StillInv, MarksKnown, Listening, StillToHear, Unheard, ToldInTime

\* What was told is told still.
LEMMA ToldStays ==
  ASSUME ChannelTyped, NEW b \in Bar, Told(b), cursor'[b] = cursor[b], pending'[b] = pending[b],
         Len(events') \in Nat, Len(events') >= Len(events),
         \A i \in 1..Len(events) : events'[i] = events[i]
  PROVE  Told(b)'
<1>1. cursor[b] \in Nat /\ Len(events) \in Nat
  BY DEF ChannelTyped, SurfacesTyped, StreamsTyped, Surface
<1>2. PICK i \in New(b) : Answers(events[i], pending[b])
  BY DEF Told
<1>3. i \in 1..Len(events) /\ i \in New(b)'
  BY <1>1, <1>2 DEF New
<1> QED BY <1>2, <1>3 DEF Told, Answers

\* While the file and the watcher's marks stay, nothing is lost that the bars do not read.
LEMMA StillUnmoved ==
  ASSUME ChannelTyped, ChannelTyped', StillInv, UNCHANGED <<slot, edit, obeyed, lapse>>,
         UNCHANGED watch \/ watch' = [watch EXCEPT !.at = "closed"],
         Len(events') >= Len(events), \A i \in 1..Len(events) : events'[i] = events[i],
         \A b \in Bar : \/ pending'[b] = NoReq
                        \/ pending'[b] = pending[b] /\ (cursor'[b] = cursor[b] \/ ~Told(b))
  PROVE  StillInv'
<1> USE DEF StillInv
<1>1. watch'.seen = watch.seen /\ watch'.acted = watch.acted /\ watch'.born = watch.born
      /\ watch'.at \in {watch.at, "closed"}
  BY DEF ChannelTyped, WatchTyped
<1>2. MarksKnown'
  BY <1>1 DEF MarksKnown, Listening
<1>3. StillToHear'
  BY <1>1 DEF StillToHear, Unheard
<1>4. ASSUME NEW b \in Bar, WaitsFor(b)', Listening', lapse'.unsaid # edit'
      PROVE  watch'.at = "read" \/ (watch'.at = "up" /\ watch'.seen # edit') \/ Told(b)'
  <2>1. pending'[b] = pending[b] /\ WaitsFor(b) /\ Listening /\ watch'.at = watch.at
    BY <1>1, <1>4 DEF WaitsFor, Listening
  <2>2. Len(events') \in Nat
    BY DEF ChannelTyped, StreamsTyped
  <2>3. Told(b) => Told(b)'
    BY <2>1, <2>2, <1>4, ToldStays DEF WaitsFor
  <2>4. watch.at = "read" \/ (watch.at = "up" /\ watch.seen # edit) \/ Told(b)
    BY <1>4, <2>1 DEF ToldInTime
  <2> QED BY <1>1, <2>1, <2>3, <2>4
<1> QED BY <1>2, <1>3, <1>4 DEF ToldInTime

\* A rename is news to the watcher, and it comes only when there is one to notice.
LEMMA RenameStill ==
  ASSUME ~Overlap, ~Gap, AnswerInv, StillInv, NEW s \in Surface, Rename(s)
  PROVE  StillInv'
<1> USE DEF AnswerInv, ChannelInv, ChannelTyped, StillInv
<1>1. watch.at # "stat0" /\ UNCHANGED <<watch, lapse, obeyed>>
  BY DEF Rename, campaign
<1>2. tmp = Mine(s) /\ tmp # NoReq /\ ~TmpOpen(s)
  <2>1. writer[s].at = "rename" /\ tmp = Mine(s)
    BY DEF Rename, WritesKnown, WriterKnown
  <2>2. tmp # NoReq
    BY <2>1, MineIsRequest, NoReqAssumption DEF Writing
  <2> QED BY <2>1, <2>2 DEF TmpOpen, WritesKnown, OneWriter, WriterKnown, Writing
<1>3. edit' = edit + 1 /\ edit \in Nat /\ watch.seen \in Nat
  BY <1>2 DEF Rename, FileTyped, WatchTyped
<1>4. \A i \in 1..Len(obeyed) : obeyed[i].edit # edit'
  BY <1>3, ObeyedTyped DEF StreamsTyped
<1>5. watch.seen # edit' /\ watch.seen <= edit'
  BY <1>3 DEF MarksKnown
<1>6. MarksKnown'
  BY <1>1, <1>4, <1>5 DEF MarksKnown, Listening
<1> QED BY <1>1, <1>5, <1>6 DEF StillToHear, Unheard, ToldInTime, Listening

\* An acknowledgement of what is on file, or that it could not be read, answers whoever
\* waits for that.
LEMMA AckTells ==
  ASSUME AnswerInv, NEW req, NEW outcome, Emit(Ack(req, outcome)),
         req = slot \/ (req = NoReq /\ outcome = "unreadable"),
         UNCHANGED <<slot, pending, cursor>>
  PROVE  \A b \in Bar : WaitsFor(b)' => Told(b)'
<1> USE DEF AnswerInv, ChannelInv, ChannelTyped
<1> SUFFICES ASSUME NEW b \in Bar, WaitsFor(b)' PROVE Told(b)'
  OBVIOUS
<1>1. b \in Surface /\ pending[b] # NoReq /\ slot # NoReq /\ slot.id = pending[b].id
  BY DEF WaitsFor, Surface
<1>2. slot \in Records /\ pending[b] \in Records
  BY <1>1 DEF Records
<1>3. slot.seq = pending[b].seq
  BY <1>1, <1>2 DEF Numbered
<1>4. slot.seq # 0
  BY <1>1 DEF WritesKnown, SlotKnown
<1>5. Answers(Ack(req, outcome), pending[b])
  <2>1. CASE req = slot
    BY <1>1, <1>3, <1>4, <2>1 DEF Ack, Answers
  <2>2. CASE req = NoReq /\ outcome = "unreadable"
    BY <2>2 DEF Ack, Answers
  <2> QED BY <2>1, <2>2
<1>6. Len(events) \in Nat /\ Len(events') = Len(events) + 1
      /\ events'[Len(events) + 1] = Ack(req, outcome)
  BY DEF Emit, StreamsTyped
<1>7. cursor[b] \in Nat /\ cursor[b] <= Len(events)
  BY <1>1 DEF SurfacesTyped
<1>8. Len(events) + 1 \in New(b)'
  BY <1>6, <1>7 DEF New
<1>9. pending'[b] = pending[b]
  OBVIOUS
<1> QED BY <1>5, <1>6, <1>8, <1>9 DEF Told

\* The watcher obeys what it has not, and answers what it reads.
LEMMA WatchStill ==
  ASSUME AnswerInv, StillInv, Watches
  PROVE  StillInv'
<1> USE DEF AnswerInv, ChannelInv, ChannelTyped, StillInv
<1>1. UNCHANGED <<slot, edit, pending, cursor>> /\ edit \in Nat
  BY DEF Watches, WatchRead, WatchStat, PollStat, PollRead, channel, surfaces, FileTyped
<1>2. CASE WatchRead
  <2>0. PICK missed \in BOOLEAN, unsaid \in BOOLEAN :
          /\ Begins(Found(missed)) /\ Lapses(missed, unsaid \/ missed)
          /\ IF Found(missed) = NoReq THEN UNCHANGED events
             ELSE Tell(slot, "ignored_pre_existing", unsaid)
    BY <1>2 DEF WatchRead, May
  <2>1. /\ watch'.at = "stat0" /\ watch'.born = edit /\ watch'.seen = watch.seen /\ UNCHANGED obeyed
        /\ watch'.acted = IF Found(missed) = NoReq THEN 0 ELSE Found(missed).seq
    BY <1>2, <2>0 DEF WatchRead, Begins, WatchTyped
  <2>2. watch'.acted \in {0, edit}
    BY <2>1 DEF WritesKnown, SlotKnown, Found
  <2>3. MarksKnown'
    BY <1>1, <2>1, <2>2 DEF MarksKnown, Listening
  <2>4. slot # NoReq /\ lapse'.unsaid # edit => \A b \in Bar : WaitsFor(b)' => Told(b)'
    <3> SUFFICES ASSUME slot # NoReq, lapse'.unsaid # edit
                 PROVE  \A b \in Bar : WaitsFor(b)' => Told(b)'
      OBVIOUS
    <3>1. ~unsaid /\ ~missed
      BY <2>0 DEF Lapses
    <3>2. Emit(Ack(slot, "ignored_pre_existing"))
      BY <2>0, <3>1 DEF Found, Tell
    <3> QED BY <1>1, <3>2, AckTells
  <2> QED BY <1>1, <2>1, <2>3, <2>4 DEF StillToHear, Unheard, ToldInTime, WaitsFor
<1>3. CASE WatchStat
  <2>1. /\ watch'.at = "up" /\ watch'.born = watch.born /\ watch'.acted = watch.acted
        /\ watch'.seen = edit /\ watch.at = "stat0" /\ UNCHANGED <<obeyed, events, lapse>>
    BY <1>3 DEF WatchStat, WatchTyped
  <2>2. watch.born = edit
    BY <2>1 DEF MarksKnown
  <2>3. MarksKnown'
    BY <1>1, <2>1 DEF MarksKnown, Listening
  <2>4. StillToHear'
    BY <1>1, <2>1, <2>2 DEF StillToHear, Unheard
  <2>5. lapse'.unsaid # edit => \A b \in Bar : WaitsFor(b)' => Told(b)'
    BY <1>1, <2>1 DEF ToldInTime, WaitsFor, Told, New, Listening
  <2> QED BY <1>1, <2>3, <2>4, <2>5 DEF ToldInTime
<1>4. CASE PollStat
  <2>1. /\ watch'.at = "read" /\ watch'.born = watch.born /\ watch'.acted = watch.acted
        /\ watch'.seen = edit /\ watch.at = "up" /\ UNCHANGED obeyed
    BY <1>4 DEF PollStat, WatchTyped
  <2> QED BY <1>1, <2>1 DEF MarksKnown, Listening, StillToHear, ToldInTime
<1>5. CASE PollRead
  <2>0. PICK missed \in BOOLEAN, unsaid \in BOOLEAN : Reading(missed, unsaid)
    BY <1>5, PollReads
  <2>1. slot # NoReq /\ lapse'.unsaid # edit => \A b \in Bar : WaitsFor(b)' => Told(b)'
    <3> SUFFICES ASSUME slot # NoReq, lapse'.unsaid # edit
                 PROVE  \A b \in Bar : WaitsFor(b)' => Told(b)'
      OBVIOUS
    <3>1. ~unsaid
      BY <2>0 DEF Reading, Lapses
    <3>2. PICK req, outcome : /\ Emit(Ack(req, outcome))
                              /\ req = slot \/ (req = NoReq /\ outcome = "unreadable")
      BY <2>0, <3>1 DEF Reading, Declines, Dispatches, Tell
    <3> QED BY <1>1, <3>2, AckTells
  <2>2. ToldInTime'
    BY <1>1, <2>1 DEF ToldInTime, WaitsFor
  <2>3. watch.at = "read" /\ watch'.at = "up" /\ watch'.born = watch.born /\ watch'.seen = watch.seen
    BY <1>5, <2>0 DEF PollRead, Reading, Declines, Dispatches, WatchTyped
  <2>4. CASE \E req, outcome : /\ Declines(req, outcome, unsaid)
                               /\ missed \/ slot = NoReq \/ IsStale(slot)
    <3>1. UNCHANGED obeyed /\ watch'.acted = watch.acted
      BY <2>4 DEF Declines, WatchTyped
    <3>2. MarksKnown'
      BY <1>1, <2>3, <3>1 DEF MarksKnown, Listening
    <3>3. ASSUME slot # NoReq, edit > watch.born, ~missed
          PROVE  \E i \in 1..Len(obeyed) : obeyed[i].id = slot.id
      <4>1. slot.seq = edit /\ edit <= watch.acted
        BY <2>4, <3>3 DEF WritesKnown, SlotKnown, IsStale
      <4>2. watch.born \in Nat /\ watch.acted \in Nat
        BY DEF WatchTyped
      <4>3. PICK i \in 1..Len(obeyed) : obeyed[i].edit = watch.acted
        BY <2>3, <3>3, <4>1, <4>2, <1>1 DEF MarksKnown, Listening
      <4>4. obeyed[i].edit = edit
        BY <1>1, <4>1, <4>2, <4>3 DEF StreamsTyped
      <4> QED BY <4>4 DEF MarksKnown
    <3>4. missed => lapse'.missed = edit
      BY <2>0 DEF Reading, Lapses
    <3>5. StillToHear'
      BY <1>1, <2>3, <3>1, <3>3, <3>4 DEF StillToHear, Unheard
    <3> QED BY <2>2, <3>2, <3>5
  <2>5. CASE slot # NoReq /\ Dispatches(slot, unsaid)
    <3> DEFINE this == [id |-> slot.id, edit |-> edit]
    <3>1. slot.seq = edit /\ slot.id \in Nat
      BY <2>5 DEF WritesKnown, SlotKnown, FileTyped, Request
    <3>2. this \in Handed /\ this.id = slot.id /\ this.edit = edit
      BY <1>1, <3>1 DEF Handed
    <3>3. obeyed' = Append(obeyed, this) /\ watch'.acted = edit
      BY <2>5, <3>1 DEF Dispatches, WatchTyped
    <3> HIDE DEF this
    <3>4. /\ Len(obeyed) \in Nat /\ Len(obeyed') = Len(obeyed) + 1
          /\ \A i \in 1..Len(obeyed) : obeyed'[i] = obeyed[i]
          /\ obeyed'[Len(obeyed) + 1] = this
      BY <3>2, <3>3, StreamGrows DEF StreamsTyped
    <3>5. Len(obeyed) + 1 \in 1..Len(obeyed')
          /\ \A i \in 1..Len(obeyed') : i \in 1..Len(obeyed) \/ i = Len(obeyed) + 1
      BY <3>4
    <3>6. MarksKnown'
      <4>1. \A i \in 1..Len(obeyed') : obeyed'[i].edit = edit => obeyed'[i].id = slot.id
        BY <3>2, <3>4, <3>5 DEF MarksKnown
      <4>2. \E i \in 1..Len(obeyed') : obeyed'[i].edit = watch'.acted
        BY <3>2, <3>3, <3>4, <3>5
      <4> QED BY <1>1, <2>3, <4>1, <4>2 DEF MarksKnown
    <3>7. ~Unheard'
      BY <1>1, <3>2, <3>4, <3>5 DEF Unheard
    <3> QED BY <2>2, <3>6, <3>7 DEF StillToHear
  <2> QED BY <2>0, <2>4, <2>5 DEF Reading
<1> QED BY <1>2, <1>3, <1>4, <1>5 DEF Watches

\* A bar that finds nothing in what it reads has been told nothing yet.
LEMMA BarReads ==
  ASSUME ChannelTyped, NEW s \in Surface, BarPoll(s), NEW b \in Bar
  PROVE  \/ pending'[b] = NoReq
         \/ pending'[b] = pending[b] /\ (cursor'[b] = cursor[b] \/ ~Told(b))
<1>1. cursor \in [Surface -> Nat] /\ pending \in [Surface -> Request \cup {NoReq}] /\ b \in Surface
  BY DEF ChannelTyped, SurfacesTyped, Surface
<1>2. cursor' = [cursor EXCEPT ![s] = Len(events)]
      /\ pending' = IF {i \in New(s) : Answers(events[i], pending[s])} = {}
                    THEN pending ELSE [pending EXCEPT ![s] = NoReq]
  BY DEF BarPoll
<1>3. CASE b # s
  BY <1>1, <1>2, <1>3
<1>4. CASE b = s
  BY <1>1, <1>2, <1>4 DEF Told
<1> QED BY <1>3, <1>4

\* Whoever writes leaves the others' place on the stream alone, and the watcher's.
LEMMA PressLeaves ==
  ASSUME ChannelTyped, NEW s \in Surface, NEW act \in Action, Press(s, act),
         s \in Bar => pending[s] = NoReq
  PROVE  /\ UNCHANGED <<slot, edit, obeyed, watch, lapse, events, pending>>
         /\ \A b \in Bar : pending'[b] = NoReq \/ cursor'[b] = cursor[b]
<1>1. cursor \in [Surface -> Nat] /\ \A b \in Bar : b \in Surface
  BY DEF ChannelTyped, SurfacesTyped, Surface
<1>2. UNCHANGED <<slot, edit, obeyed, watch, lapse, events, pending>>
      /\ cursor' \in {cursor, [cursor EXCEPT ![s] = Len(events)]}
  BY DEF Press, channel, campaign
<1> QED BY <1>1, <1>2

\* Every step of the channel keeps what is still to be heard and told.
LEMMA StillKept ==
  ASSUME ~Overlap, ~Gap, AnswerInv, StillInv, [ChannelNext]_cvars
  PROVE  StillInv'
<1> USE DEF AnswerInv, ChannelInv
<1>1. ChannelTyped' /\ Len(events') >= Len(events) /\ \A i \in 1..Len(events) : events'[i] = events[i]
  BY ChannelTypesKept, StreamKept
<1>2. ASSUME NEW s \in Surface, BarPress(s) \/ CliPress(s) PROVE StillInv'
  <2>1. PICK act \in Action : Press(s, act)
    BY <1>2 DEF BarPress, CliPress, Action
  <2>2. CASE BarPress(s)
    <3>1. pending[s] = NoReq
      BY <2>2 DEF BarPress
    <3> QED BY <1>1, <2>1, <3>1, PressLeaves, StillUnmoved
  <2>3. CASE CliPress(s)
    <3>1. s \in Cli
      BY <2>3 DEF CliPress
    <3>2. UNCHANGED <<slot, edit, obeyed, watch, lapse, events, pending, cursor>>
      BY <2>1, <3>1 DEF Press, channel, campaign
    <3> QED BY <1>1, <3>2, StillUnmoved
  <2> QED BY <1>2, <2>2, <2>3
<1>3. ASSUME NEW s \in Surface, ReadSeq(s) \/ OpenTmp(s) \/ WriteTmp(s) PROVE StillInv'
  <2>1. WriteTmp(s) => writer[s].handle = "tmp"
    BY DEF WriteTmp, WritesKnown, WriterKnown
  <2>2. UNCHANGED <<slot, edit, obeyed, watch, lapse, events, pending, cursor>>
    BY <1>3, <2>1 DEF ReadSeq, OpenTmp, WriteTmp, channel, campaign
  <2> QED BY <1>1, <2>2, StillUnmoved
<1>4. ASSUME NEW s \in Surface, BarPoll(s) PROVE StillInv'
  <2>1. UNCHANGED <<slot, edit, obeyed, watch, lapse, events>>
    BY <1>4 DEF BarPoll, channel, campaign
  <2> QED BY <1>1, <1>4, <2>1, BarReads, StillUnmoved
<1>5. CASE Goes
  <2>1. UNCHANGED <<slot, edit, obeyed, lapse, pending, cursor>>
        /\ (UNCHANGED watch \/ watch' = [watch EXCEPT !.at = "closed"])
    BY <1>5 DEF Goes, Finish, ParkBegins, ParkEnds, Unwind, Declined, Close, Crash, Died, channel,
                surfaces
  <2> QED BY <1>1, <2>1, StillUnmoved
<1>6. CASE UNCHANGED cvars
  BY <1>1, <1>6, StillUnmoved DEF cvars, channel, surfaces, campaign
<1> QED BY <1>2, <1>3, <1>4, <1>5, <1>6, RenameStill, WatchStill DEF ChannelNext, Writes

\* The ladder reads for itself.
LEMMA LadderStill ==
  ASSUME LadderInv, StillInv, LadderNext
  PROVE  StillInv'
<1> USE DEF LadderInv, ChannelInv
<1>1. ChannelTyped' /\ events' = events /\ Len(events) \in Nat
  BY LadderKeepsChannel DEF ChannelTyped, StreamsTyped
<1>2. \A b \in Bar : b # Estop /\ b \in Surface
  BY SurfaceAssumption DEF Surface
<1>3. cursor \in [Surface -> Nat] /\ Estop \in Surface
  BY DEF ChannelTyped, SurfacesTyped, Surface
<1>4. /\ UNCHANGED <<slot, edit, obeyed, lapse, pending>>
      /\ cursor' \in {cursor, [cursor EXCEPT ![Estop] = Len(events)]}
      /\ UNCHANGED watch \/ watch' = [watch EXCEPT !.at = "closed"]
  <2>1. CASE StartLadder
    BY <2>1 DEF StartLadder, Press, channel, campaign
  <2>2. CASE Asked \/ Advance \/ Terminate \/ TakeAndPark
    BY <2>2 DEF Asked, Advance, Terminate, TakeAndPark, Died, cvars, channel, surfaces, campaign
  <2>3. CASE \E late \in BOOLEAN : LadderPoll(late)
    BY <2>3 DEF LadderPoll, channel, campaign
  <2> QED BY <2>1, <2>2, <2>3 DEF LadderNext
<1>5. \A b \in Bar : cursor'[b] = cursor[b]
  BY <1>2, <1>3, <1>4
<1> QED BY <1>1, <1>4, <1>5, StillUnmoved

\* Where one writes at a time and none between the watcher's first read and its stat, what
\* is written is heard, and answered.
LEMMA StillHolds == ASSUME ~Overlap, ~Gap PROVE BarSpec => []StillInv
<1>1. BarSpec => [](AnswerInv /\ EstopKnown)
  BY AnswersHold
<1>2. BarSpec => []LadderInv
  BY LadderStarts, LadderKept, PTL DEF BarSpec
<1>3. LadderInv /\ AnswerInv /\ StillInv /\ [BarNext]_evars => StillInv'
  <2> SUFFICES ASSUME LadderInv, AnswerInv, StillInv, [BarNext]_evars PROVE StillInv'
    OBVIOUS
  <2>1. CASE LadderNext
    BY <2>1, LadderStill
  <2>2. CASE ~LadderNext
    BY <2>2, StillKept DEF BarNext, evars
  <2> QED BY <2>1, <2>2
<1> QED BY <1>1, <1>2, <1>3, StillInit, PTL DEF BarSpec

\* No request is forgotten: while the one on file has not been handed to the loop, the
\* watcher is reading the file or has not seen it as it is, or it spent its read on it in
\* vain (ControlWatcher.poll_once).
THEOREM StillToHearHolds == ASSUME ~Overlap, ~Gap PROVE BarSpec => []StillToHear
<1>1. StillInv => StillToHear
  BY DEF StillInv
<1> QED BY <1>1, StillHolds, PTL

\* Nor is an answer lost but by a write that failed: while the request a window waits for is
\* on file, the watcher has yet to read it or an answer to it lies ahead of the window's
\* cursor, so a window that goes on reading is not left waiting
\* (CampaignControlRequester.poll, ack_answers_request).
THEOREM StillToAnswerHolds == ASSUME ~Overlap, ~Gap PROVE BarSpec => []StillToAnswer
<1>1. StillInv => StillToAnswer
  BY DEF StillInv, ToldInTime, StillToAnswer, WaitsFor, Told, Listening
<1> QED BY <1>1, StillHolds, PTL

================================================================================
