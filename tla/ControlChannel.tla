----------------------------- MODULE ControlChannel -----------------------------
(***************************************************************************)
(* The control file of a campaign (the control.json part of                *)
(* src/softae/core/campaign_events.py), from the window, the command line  *)
(* and the E-Stop that write it to the watcher that polls it inside the    *)
(* campaign's process, and back by the acknowledgements on events.jsonl.   *)
(*                                                                         *)
(*   a press     cursor -> read the last seq -> open tmp -> write -> rename *)
(*   the watcher read -> stat when it is built; then stat -> read per poll *)
(*                                                                         *)
(* Every step is one file operation, and any other process may step in     *)
(* between two of them.  The file is a slot: a rename replaces what was    *)
(* there, read or not.                                                     *)
(***************************************************************************)
EXTENDS Naturals, Sequences, FiniteSets

CONSTANTS
  Bar,         \* windows with a Pause/Abort bar: they wait for the answer
  Cli,         \* softae-campaign control: writes and leaves
  Estop,       \* the attached window's E-Stop, which writes one abort
  NoReq,       \* no request: an absent or unparseable file, or nothing pending
  Torn,        \* the content of a tmp file that was opened and not yet written
  MaxPresses,  \* bound: requests that are begun
  RenameOpen,  \* TRUE: a file somebody has open can be renamed (POSIX); FALSE: not (NT)
  Overlap,    \* TRUE: two processes may be writing requests at the same time
  Slips,      \* what may fail in the watcher: reading the file, a handler, writing an answer
  Gap          \* TRUE: a rename may land between the new watcher's read and its stat

ASSUME PressAssumption == MaxPresses \in Nat
ASSUME ChannelSwitchAssumption ==
  /\ RenameOpen \in BOOLEAN /\ Overlap \in BOOLEAN /\ Gap \in BOOLEAN
  /\ Slips \subseteq {"read", "handler", "ack"}

ASSUME SurfaceAssumption == Estop \notin Bar \cup Cli

Surface == Bar \cup Cli \cup {Estop}
Action  == {"pause", "resume", "abort"}        \* CONTROL_ACTIONS

\* id tells presses apart (requested_by and requested_at); the code never reads it.
Request == [seq : Nat, act : Action, id : Nat]

ASSUME NoReqAssumption == NoReq # Torn /\ NoReq \notin Request /\ Torn \notin Request

VARIABLES
  slot,     \* control.json as a reader parses it; NoReq when absent or torn
  edit,     \* its (mtime, size): how often it was written; 0 when it does not exist
  tmp,      \* control.json.tmp: NoReq when absent, Torn, or a request
  writer,   \* per surface, its write in progress
  cursor,   \* per surface, how much of events.jsonl it had read
  pending,  \* per surface, the request it waits to see answered
  held,     \* per bar, whether the window takes the campaign for paused
  watch,    \* the watcher: where it is, its signature, the last seq acted on
  lapse,    \* history: the edit the watcher last read in vain, and last left unanswered
  loop,     \* the campaign: its phase and the two flags the handlers set
  parked,   \* the campaign's safe_park has been issued
  events,   \* events.jsonl: acknowledgements and the park records
  presses,  \* how many presses were begun
  obeyed,   \* history: per request handed to a handler, its id and edit
  answers   \* history: per press a bar saw answered, whose request the answer was about

channel  == <<slot, edit, tmp>>
surfaces == <<writer, cursor, pending, held, presses, answers>>
campaign == <<watch, lapse, loop, parked, events, obeyed>>
cvars    == <<channel, surfaces, campaign>>

\* Quiet: the surface is not writing.
Quiet == [at |-> "idle", act |-> "none", seq |-> 0, id |-> 0, handle |-> "none"]

\* The variables keep their types; the watcher lives exactly as long as the run it
\* controls, and no request is obeyed that never reached the file.
ChannelTypeOK ==
  /\ slot \in Request \cup {NoReq}
  /\ edit \in Nat
  /\ tmp \in Request \cup {NoReq, Torn}
  /\ writer \in [Surface -> [at : {"idle", "read", "open", "write", "rename"},
                             act : Action \cup {"none"}, seq : Nat, id : Nat,
                             handle : {"none", "tmp", "slot", "gone"}]]
  /\ cursor \in [Surface -> 0..Len(events)]
  /\ pending \in [Surface -> Request \cup {NoReq}]
  /\ held \in [Bar -> BOOLEAN]
  /\ watch \in [at : {"none", "stat0", "up", "read", "closed"},
                seen : Nat, acted : Nat, born : Nat]
  /\ lapse \in [missed : Nat, unsaid : Nat]
  /\ loop \in [phase : {"starting", "running", "parking", "ending", "over"},
               paused : BOOLEAN, aborting : BOOLEAN]
  /\ parked \in BOOLEAN
  /\ presses \in Nat
  /\ \A i \in 1..Len(obeyed) : obeyed[i].edit <= edit
  /\ watch.at \in {"up", "read"} => loop.phase # "starting"
  /\ watch.at = "closed" <=> loop.phase = "over"

ChannelInit ==
  /\ slot = NoReq /\ edit = 0 /\ tmp = NoReq
  /\ writer = [s \in Surface |-> Quiet]
  /\ cursor = [s \in Surface |-> 0]
  /\ pending = [s \in Surface |-> NoReq]
  /\ held = [b \in Bar |-> FALSE]
  /\ watch = [at |-> "none", seen |-> 0, acted |-> 0, born |-> 0]
  /\ lapse = [missed |-> 0, unsaid |-> 0]
  /\ loop = [phase |-> "starting", paused |-> FALSE, aborting |-> FALSE]
  /\ parked = FALSE /\ events = <<>> /\ presses = 0
  /\ obeyed = <<>> /\ answers = {}

--------------------------------------------------------------------------------
(* Writing a request: write_control_request and the callers' cursor.       *)

Writing(s) == writer[s].at # "idle"

\* Nobody else is writing, unless presses may overlap.
Alone(s) == Overlap \/ \A t \in Surface \ {s} : ~Writing(t)

\* find_running_campaign: a campaign holds the rig and published its directory.
\* The rig lock is released last of all, after the watcher was closed.
Controllable == loop.phase # "over"

\* Whoever will wait for the answer takes the stream position before it writes.
Press(s, act) ==
  /\ ~Writing(s) /\ Alone(s) /\ presses < MaxPresses
  /\ presses' = presses + 1
  /\ cursor' = IF s \in Cli THEN cursor ELSE [cursor EXCEPT ![s] = Len(events)]
  /\ writer' = [writer EXCEPT ![s] =
       [Quiet EXCEPT !.at = "read", !.act = act, !.id = presses + 1]]
  /\ UNCHANGED <<channel, campaign, pending, held, answers>>

\* The bar's buttons are disabled while an answer is awaited; one button is
\* Pause or Resume, whichever the window believes is next.
BarPress(b) ==
  /\ b \in Bar /\ pending[b] = NoReq /\ Controllable
  /\ \E act \in {IF held[b] THEN "resume" ELSE "pause", "abort"} : Press(b, act)

CliPress(c) == c \in Cli /\ Controllable /\ \E act \in Action : Press(c, act)

\* Mutant: every request is numbered 1.
NextSeqReset == 1

\* One past whatever is on disk; an absent or torn file starts again at 1.
NextSeq == IF slot = NoReq THEN 1 ELSE slot.seq + 1

ReadSeq(s) ==
  /\ writer[s].at = "read"
  /\ writer' = [writer EXCEPT ![s].at = "open", ![s].seq = NextSeq]
  /\ UNCHANGED <<channel, campaign, cursor, pending, held, presses, answers>>

OpenTmp(s) ==
  /\ writer[s].at = "open"
  /\ tmp' = Torn
  /\ writer' = [writer EXCEPT ![s].at = "write", ![s].handle = "tmp"]
  /\ UNCHANGED <<slot, edit, campaign, cursor, pending, held, presses, answers>>

Mine(s) == [seq |-> writer[s].seq, act |-> writer[s].act, id |-> writer[s].id]

\* The write goes to the file that was opened, wherever it was renamed to since.
WriteTmp(s) ==
  /\ writer[s].at = "write"
  /\ CASE writer[s].handle = "tmp"  -> tmp' = Mine(s) /\ UNCHANGED <<slot, edit>>
       [] writer[s].handle = "slot" -> slot' = Mine(s) /\ edit' = edit + 1 /\ UNCHANGED tmp
       [] OTHER -> UNCHANGED channel
  /\ writer' = [writer EXCEPT ![s].at = "rename", ![s].handle = "none"]
  /\ UNCHANGED <<campaign, cursor, pending, held, presses, answers>>

\* Where the handles of the other writers point once the tmp file is renamed.
Follow(h) == CASE h = "tmp" -> "slot" [] h = "slot" -> "gone" [] OTHER -> h

TmpOpen(s) == \E t \in Surface \ {s} : writer[t].handle = "tmp"

\* os.replace.  It raises when another process renamed the tmp file first, or (on NT)
\* has it open: the press is reported as not written.
Rename(s) ==
  /\ writer[s].at = "rename"
  /\ Gap \/ watch.at # "stat0"
  /\ IF tmp = NoReq \/ (TmpOpen(s) /\ ~RenameOpen)
     THEN /\ writer' = [writer EXCEPT ![s] = Quiet]
          /\ UNCHANGED <<channel, pending>>
     ELSE /\ slot' = IF tmp = Torn THEN NoReq ELSE tmp
          /\ edit' = edit + 1 /\ tmp' = NoReq
          /\ writer' = [t \in Surface |->
               IF t = s THEN Quiet ELSE [writer[t] EXCEPT !.handle = Follow(@)]]
          /\ pending' = IF s \in Cli THEN pending ELSE [pending EXCEPT ![s] = Mine(s)]
  /\ UNCHANGED <<campaign, cursor, held, presses, answers>>

--------------------------------------------------------------------------------
(* The watcher.                                                            *)

Ack(req, outcome) ==
  [type |-> "ack", outcome |-> outcome,
   seq |-> IF req = NoReq THEN 0 ELSE req.seq,
   act |-> IF req = NoReq THEN "none" ELSE req.act,
   id  |-> IF req = NoReq THEN 0 ELSE req.id]

Emit(e) == events' = Append(events, e)

\* _ack: writing the answer may fail, which is logged.
Tell(req, outcome, unsaid) ==
  IF unsaid THEN UNCHANGED events ELSE Emit(Ack(req, outcome))

May(slip) == IF slip \in Slips THEN BOOLEAN ELSE {FALSE}

\* read_control_request: the file as it is now.  What cannot be read is no request.
Found(missed) == IF missed THEN NoReq ELSE slot

Lapses(missed, unsaid) ==
  lapse' = [missed |-> IF missed THEN edit ELSE 0, unsaid |-> IF unsaid THEN edit ELSE 0]

Begins(req) ==
  /\ loop.phase = "starting" /\ watch.at = "none"
  /\ watch' = [watch EXCEPT !.at = "stat0", !.born = edit,
                            !.acted = IF req = NoReq THEN 0 ELSE req.seq]

\* Mutant: a request that was there before is passed over in silence.
WatchReadSilently ==
  /\ Begins(slot)
  /\ UNCHANGED <<channel, surfaces, lapse, loop, parked, events, obeyed>>

\* ControlWatcher.__init__: what it finds is never obeyed.  The claim is published
\* and the operator asked about the board before the watcher is built.
WatchRead ==
  /\ \E missed \in May("read"), unsaid \in May("ack") :
       /\ Begins(Found(missed))
       /\ Lapses(missed, unsaid \/ missed)
       /\ IF Found(missed) = NoReq THEN UNCHANGED events
          ELSE Tell(slot, "ignored_pre_existing", unsaid)
  /\ UNCHANGED <<channel, surfaces, loop, parked, obeyed>>

\* Its signature is taken after the read; the loop runs from here on.
WatchStat ==
  /\ watch.at = "stat0"
  /\ watch' = [watch EXCEPT !.at = "up", !.seen = edit]
  /\ loop' = [loop EXCEPT !.phase = "running"]
  /\ UNCHANGED <<channel, surfaces, lapse, parked, events, obeyed>>

\* poll_once, first half: a changed signature is worth a read.
PollStat ==
  /\ watch.at = "up" /\ loop.phase \in {"running", "ending"}
  /\ watch.seen # edit
  /\ watch' = [watch EXCEPT !.at = "read", !.seen = edit]
  /\ UNCHANGED <<channel, surfaces, lapse, loop, parked, events, obeyed>>

Terminal == loop.phase # "running"

\* AutonomousLoop.pause, resume and abort: the outcome, and the loop afterwards.
Handler(act) ==
  LET Keeps(outcome) == [outcome |-> outcome, loop |-> loop]
      Applied(after)  == [outcome |-> "applied", loop |-> after]
      tooLate == loop.aborting \/ Terminal
  IN CASE act = "pause"  -> IF tooLate THEN Keeps("ended")
                            ELSE IF loop.paused THEN Keeps("already_paused")
                            ELSE Applied([loop EXCEPT !.paused = TRUE])
       [] act = "resume" -> IF loop.paused THEN Applied([loop EXCEPT !.paused = FALSE])
                            ELSE Keeps("not_paused")
       [] act = "abort"  -> IF tooLate THEN Keeps("ended")
                            ELSE Applied([loop EXCEPT !.aborting = TRUE])

\* Mutant: the sequence number is not looked at; the signature alone decides.
IsStaleNever(req) == FALSE

IsStale(req) == req.seq <= watch.acted

\* A handler that raises has set its flags by then: only what follows them can fail.
Says(act) ==
  {Handler(act).outcome} \cup (IF "handler" \in Slips THEN {"handler_failed"} ELSE {})

Declines(req, outcome, unsaid) ==
  /\ Tell(req, outcome, unsaid)
  /\ watch' = [watch EXCEPT !.at = "up"]
  /\ UNCHANGED <<loop, obeyed>>

\* acted is set before the handler runs.
Dispatches(req, unsaid) ==
  /\ watch' = [watch EXCEPT !.at = "up", !.acted = req.seq]
  /\ obeyed' = Append(obeyed, [id |-> req.id, edit |-> edit])
  /\ loop' = Handler(req.act).loop
  /\ \E outcome \in Says(req.act) : Tell(req, outcome, unsaid)

\* poll_once, second half.  The signature is taken already: a file that could not be
\* read is not looked at again until it is written again.
PollRead ==
  /\ watch.at = "read"
  /\ \E missed \in May("read"), unsaid \in May("ack") :
       /\ Lapses(missed, unsaid)
       /\ IF Found(missed) = NoReq THEN Declines(NoReq, "unreadable", unsaid)
          ELSE IF IsStale(slot) THEN Declines(slot, "ignored_stale", unsaid)
          ELSE Dispatches(slot, unsaid)
  /\ UNCHANGED <<channel, surfaces, parked>>

--------------------------------------------------------------------------------
(* The campaign around the watcher.  Its process does nothing else between *)
(* a poll's stat and its read.                                             *)

Free == watch.at # "read"

\* The loop comes to its end by itself: converged, out of budget, or declined.  An
\* abort that was accepted parks instead.
Finish ==
  /\ loop.phase = "running" /\ Free /\ ~loop.aborting
  /\ loop' = [loop EXCEPT !.phase = "ending"]
  /\ UNCHANGED <<channel, surfaces, watch, lapse, parked, events, obeyed>>

\* on_park: the record first, then the park, then its result.
ParkBegins ==
  /\ loop.phase = "running" /\ Free
  /\ loop' = [loop EXCEPT !.phase = "parking"]
  /\ Emit([type |-> "park"])
  /\ UNCHANGED <<channel, surfaces, watch, lapse, parked, obeyed>>

ParkEnds ==
  /\ loop.phase = "parking"
  /\ parked' = TRUE
  /\ Emit([type |-> "safe_park"])
  /\ loop' = [loop EXCEPT !.phase = "ending"]
  /\ UNCHANGED <<channel, surfaces, watch, lapse, obeyed>>

\* Anything unforeseen unwinds: the rig is parked first, then both records written.
Unwind ==
  /\ loop.phase \in {"starting", "running"} /\ Free /\ watch.at # "stat0"
  /\ parked' = TRUE
  /\ events' = events \o <<[type |-> "park"], [type |-> "safe_park"]>>
  /\ loop' = [loop EXCEPT !.phase = "ending"]
  /\ UNCHANGED <<channel, surfaces, watch, lapse, obeyed>>

\* The operator says no at the board check.
Declined ==
  /\ loop.phase = "starting" /\ watch.at = "none"
  /\ loop' = [loop EXCEPT !.phase = "ending"]
  /\ UNCHANGED <<channel, surfaces, watch, lapse, parked, events, obeyed>>

\* The finally clause: the watcher is closed first, the rig claim last.
Close ==
  /\ loop.phase = "ending" /\ Free
  /\ watch' = [watch EXCEPT !.at = "closed"]
  /\ loop' = [loop EXCEPT !.phase = "over"]
  /\ UNCHANGED <<channel, surfaces, lapse, parked, events, obeyed>>

\* The process is gone, without a park and without a word.
Died ==
  /\ watch' = [watch EXCEPT !.at = "closed"]
  /\ loop' = [loop EXCEPT !.phase = "over"]

Crash ==
  /\ loop.phase # "over"
  /\ Died
  /\ UNCHANGED <<channel, surfaces, lapse, parked, events, obeyed>>

--------------------------------------------------------------------------------
(* The answer.                                                             *)

\* ack_answers_request: by seq, or by outcome when there was no seq to quote.
Answers(e, req) ==
  /\ e.type = "ack"
  /\ IF e.seq = 0 THEN e.outcome = "unreadable" ELSE e.seq = req.seq

New(s) == (cursor[s] + 1)..Len(events)

\* CampaignControlRequester.poll: the first record that answers; the rest of the
\* stream it has read is not looked at again.
BarPoll(b) ==
  /\ b \in Bar /\ pending[b] # NoReq /\ ~Writing(b) /\ New(b) # {}
  /\ cursor' = [cursor EXCEPT ![b] = Len(events)]
  /\ LET found == {i \in New(b) : Answers(events[i], pending[b])}
         first == CHOOSE i \in found : \A j \in found : i <= j
         e == events[first]
     IN IF found = {} THEN UNCHANGED <<pending, held, answers>>
        ELSE /\ pending' = [pending EXCEPT ![b] = NoReq]
             /\ held' = [held EXCEPT ![b] =
                  CASE e.act = "pause" /\ e.outcome \in {"applied", "already_paused"} -> TRUE
                    [] e.act = "resume" /\ e.outcome \in {"applied", "not_paused"} -> FALSE
                    [] e.act = "abort" /\ e.outcome = "applied" -> FALSE
                    [] OTHER -> @]
             /\ answers' = answers \cup {[press |-> pending[b].id, by |-> e.id]}
  /\ UNCHANGED <<channel, campaign, writer, presses>>

--------------------------------------------------------------------------------

Writes(s) == ReadSeq(s) \/ OpenTmp(s) \/ WriteTmp(s) \/ Rename(s)

Watches == WatchRead \/ WatchStat \/ PollStat \/ PollRead

Goes == Finish \/ ParkBegins \/ ParkEnds \/ Unwind \/ Declined \/ Close \/ Crash

ChannelNext ==
  \/ \E s \in Surface : BarPress(s) \/ CliPress(s) \/ Writes(s) \/ BarPoll(s)
  \/ Watches \/ Goes

ChannelSpec == ChannelInit /\ [][ChannelNext]_cvars

\* A write that was begun goes on, the watcher polls every second, the bar every two;
\* a park comes to its end.
ChannelFairness ==
  /\ \A s \in Surface : WF_cvars(Writes(s)) /\ WF_cvars(BarPoll(s))
  /\ WF_cvars(WatchStat) /\ WF_cvars(PollStat) /\ WF_cvars(PollRead)
  /\ WF_cvars(ParkEnds)

--------------------------------------------------------------------------------
(* Properties of the channel.                                              *)

\* A request is acted on at most once, in the order the requests reached the file,
\* and never when it was there before the campaign listened: whatever is read twice,
\* overwritten between two polls or found at the start (campaign_events.py:946-960).
InOrderOnce ==
  /\ \A i \in 1..Len(obeyed) : obeyed[i].edit > watch.born
  /\ \A i, j \in 1..Len(obeyed) : i < j => obeyed[i].edit < obeyed[j].edit

\* A bar resolves a press by the answer to that press, never by somebody else's
\* ("the failure mode this whole channel exists to remove", campaign_events.py:811).
OwnAnswer == \A a \in answers : a.by \in {a.press, 0}

\* The operator's latest word is acted on: a request that reached the file after the
\* campaign began to listen is handed to the loop, unless a later one replaced it, the
\* campaign ended first, or the one read the watcher spends on it failed, which it never
\* repeats (campaign_events.py:955-968).
Unheard ==
  /\ slot # NoReq /\ edit > watch.born /\ watch.at \in {"up", "read"}
  /\ lapse.missed # edit
  /\ \A i \in 1..Len(obeyed) : obeyed[i].id # slot.id
LastWordObeyed == []<>~Unheard

\* None is forgotten: what was not handed over the watcher has yet to read.
StillToHear == Unheard => watch.at = "read" \/ watch.seen # edit

\* A window that waits for an answer gets the one to its own press, so its buttons come
\* back, unless its request was overwritten, the campaign stopped listening first or the
\* answer could not be written.
PressAnswered ==
  []OwnAnswer /\ \A b \in Bar :
    (pending[b] # NoReq /\ watch.at = "up")
      ~> (\/ pending[b] = NoReq \/ slot = NoReq \/ slot.id # pending[b].id
          \/ watch.at = "closed" \/ lapse.unsaid = edit)

\* Nor is an answer: while the request a window waits for is on file, the watcher has yet
\* to read it, or an answer to it lies on the stream where the window will look, if it
\* could be written.
StillToAnswer ==
  \A b \in Bar :
    /\ pending[b] # NoReq /\ slot # NoReq /\ slot.id = pending[b].id
    /\ watch.at \in {"up", "read"} /\ lapse.unsaid # edit
    => \/ watch.at = "read" \/ watch.seen # edit
       \/ \E i \in New(b) : Answers(events[i], pending[b])
================================================================================
