------------------------------ MODULE EstopLadder -------------------------------
(***************************************************************************)
(* The E-Stop of a window that is attached to a campaign in another process*)
(* (src/softae/gui/estop_ladder.py, with the dialog that drives it): rung 1*)
(* writes an abort to the campaign's control file, rungs 2 and 3 wait for  *)
(* the acknowledgement and for the park, and rung 4 takes the rig by       *)
(* terminating the campaign.  A budget that runs out only changes which    *)
(* offer is on screen; how long a budget is, is left open.                 *)
(***************************************************************************)
EXTENDS ControlChannel

VARIABLES
  ladder,   \* the state it shows, the ack it took, and the park records it read
  reach,    \* the rungs this window can reach, fixed when it is built
  expired,  \* history: the budgets that ran out
  killed    \* the operator had the campaign's process terminated

evars == <<cvars, ladder, reach, expired, killed>>

Waiting  == {"awaiting_ack", "awaiting_park"}
Offered  == {"offered_wait", "offered_takeover"}
Ended    == {"parked", "acked_only", "exhausted", "taken_over"}

\* reachable_rungs: only a campaign's process may be killed, only on this machine,
\* and only a published run directory can be asked.
ReachableRungs(isCampaign, runDir, crossHost) ==
  IF ~isCampaign THEN {}
  ELSE (IF runDir THEN {1, 2} ELSE {}) \cup
       (IF crossHost THEN {} ELSE IF runDir THEN {3, 4} ELSE {4})

\* The variables keep their types.
LadderTypeOK ==
  /\ ChannelTypeOK
  /\ ladder \in [state : {"idle", "taking"} \cup Waiting \cup Offered \cup Ended,
                 acked : BOOLEAN, park : BOOLEAN, safe : BOOLEAN]
  /\ reach \in SUBSET (1..4)
  /\ expired \subseteq {"T1", "T2"}
  /\ killed \in BOOLEAN

BarInit ==
  /\ ChannelInit
  /\ ladder = [state |-> "idle", acked |-> FALSE, park |-> FALSE, safe |-> FALSE]
  /\ reach \in {ReachableRungs(c, d, x) : c, d, x \in BOOLEAN}
  /\ expired = {} /\ killed = FALSE

--------------------------------------------------------------------------------

Show(state) == ladder' = [ladder EXCEPT !.state = state]

\* Rung 1 (start): the abort is written like any press.  The window knows its
\* campaign from its own launch and does not look again.
StartLadder ==
  /\ ladder.state = "idle" /\ 1 \in reach /\ pending[Estop] = NoReq
  /\ Press(Estop, "abort")
  /\ UNCHANGED <<ladder, reach, expired, killed>>

Asked ==
  /\ ladder.state = "idle" /\ pending[Estop] # NoReq
  /\ Show("awaiting_ack")
  /\ UNCHANGED <<cvars, reach, expired, killed>>

\* Mutant: the first of the two park records is enough.
HasParkedEarly(park, safe) == park

HasParked(park, safe) == park /\ safe

\* Mutant: an unanswered abort offers the takeover at once.
AfterPollHasty(acked, park, safe, late) ==
  IF HasParked(park, safe) THEN "parked"
  ELSE IF ladder.state = "awaiting_ack" /\ acked THEN "awaiting_park"
  ELSE IF ladder.state \in Waiting /\ late
       THEN IF 4 \in reach THEN "offered_takeover" ELSE "exhausted"
  ELSE ladder.state

\* What one poll makes of what it has read: a park withdraws every offer, and an
\* answer comes before a budget that ran out.
AfterPoll(acked, park, safe, late) ==
  IF HasParked(park, safe) THEN "parked"
  ELSE CASE ladder.state = "awaiting_ack" /\ acked ->
              IF 3 \in reach THEN "awaiting_park" ELSE "acked_only"
         [] ladder.state = "awaiting_ack" /\ ~acked /\ late ->
              IF 3 \in reach THEN "offered_wait" ELSE "exhausted"
         [] ladder.state = "awaiting_park" /\ late -> "offered_takeover"
         [] ladder.state = "offered_wait" /\ acked -> "awaiting_park"
         [] OTHER -> ladder.state

\* The dialog's timer (poll, _absorb).  The acknowledgement's outcome is not looked at.
LadderPoll(late) ==
  /\ ladder.state \in Waiting \cup Offered
  /\ LET read  == {events[i] : i \in New(Estop)}
         acked == ladder.acked \/ \E e \in read : Answers(e, pending[Estop])
         park  == ladder.park \/ \E e \in read : e.type = "park"
         safe  == ladder.safe \/ \E e \in read : e.type = "safe_park"
         state == AfterPoll(acked, park, safe, late)
     IN /\ ladder' = [state |-> state, acked |-> acked, park |-> park, safe |-> safe]
        /\ expired' = expired \cup
             (IF ~late \/ HasParked(park, safe) THEN {}
              ELSE IF ladder.state = "awaiting_ack" /\ ~acked THEN {"T1"}
              ELSE IF ladder.state = "awaiting_park" THEN {"T2"} ELSE {})
  /\ cursor' = [cursor EXCEPT ![Estop] = Len(events)]
  /\ UNCHANGED <<channel, campaign, writer, pending, held, presses, answers, reach, killed>>

\* The operator goes on waiting (advance).
Advance ==
  /\ ladder.state = "offered_wait" /\ 3 \in reach
  /\ Show("awaiting_park")
  /\ UNCHANGED <<cvars, reach, expired, killed>>

MayTakeOver ==
  /\ 4 \in reach
  /\ ladder.state = "offered_takeover" \/ (ladder.state = "idle" /\ 1 \notin reach)

\* Rung 4 (take_over), confirmed by the operator who types the pid: the recorded
\* process is terminated, if it can be ...
Terminate ==
  /\ MayTakeOver
  /\ Show("taking") /\ killed' = TRUE
  /\ Died \/ UNCHANGED <<watch, loop>>
  /\ UNCHANGED <<channel, surfaces, lapse, parked, events, obeyed, reach, expired>>

\* ... and only then are the instruments opened and parked from here.
TakeAndPark ==
  /\ ladder.state = "taking"
  /\ parked' = TRUE /\ Show("taken_over")
  /\ UNCHANGED <<channel, surfaces, watch, lapse, loop, events, obeyed, reach, expired, killed>>

--------------------------------------------------------------------------------

LadderNext ==
  \/ StartLadder \/ Asked \/ Advance \/ Terminate \/ TakeAndPark
  \/ \E late \in BOOLEAN : LadderPoll(late)

BarNext ==
  \/ LadderNext
  \/ ChannelNext /\ UNCHANGED <<ladder, reach, expired, killed>>

BarSpec == BarInit /\ [][BarNext]_evars

\* The channel's fairness, and the dialog's timer.
BarFairness ==
  /\ ChannelFairness
  /\ WF_evars(Asked) /\ WF_evars(\E late \in BOOLEAN : LadderPoll(late))

--------------------------------------------------------------------------------
(* Properties of the ladder.                                               *)

\* "The campaign parked the rig" is shown only when its safe_park has been issued.
ParkedIsTrue == ladder.state = "parked" => parked /\ loop.phase \in {"ending", "over"}

\* What the ladder took for the answer to its abort is about its abort
\* (estop_ladder.py, _absorb; ack_answers_request).
HeardItself ==
  ladder.acked => \E i \in 1..Len(events) :
                    events[i].type = "ack" /\ events[i].id \in {pending[Estop].id, 0}

\* The campaign is terminated only as the last resort: after the time for a park ran
\* out, or when there was nobody to ask, and never once the ladder has read the park
\* it waited for.
KillIsLastResort ==
  [][killed' # killed =>
       /\ "T2" \in expired \/ 1 \notin reach
       /\ ~(ladder.park /\ ladder.safe)]_evars

================================================================================
