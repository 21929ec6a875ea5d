-------------------------------- MODULE WellLife --------------------------------
(***************************************************************************)
(* The life of a well in one campaign, "Drop-cast wells are single-use"    *)
(* (electrode_allocator.py): it is fresh, it is in the hand of one round,  *)
(* it is given up, and nothing leads back.  Material goes only onto a well *)
(* in hand, onto one at a time, and before the well is given up its row is *)
(* written, or the store was asked for it and refused.                     *)
(*                                                                         *)
(* CampaignLoop.tla implements this (OneLife), with the electrode          *)
(* allocator, the rounds, their failures and the exchange of plates.       *)
(***************************************************************************)
CONSTANTS Well,   \* every electrode of every plate
          Used    \* the wells that an earlier session used

VARIABLES hand,   \* the wells of the round in hand
          gone,   \* the wells that were given up
          wet,    \* the wells that may hold material
          rows,   \* the wells with an occupancy row
          lost    \* the wells whose row was refused

life == <<hand, gone, wet, rows, lost>>

Fresh == Well \ (hand \cup gone \cup wet \cup rows \cup lost)

Init == hand = {} /\ gone = Used /\ wet = Used /\ rows = Used /\ lost = {}

\* A round takes fresh wells, and no round has any then.
Take(S) == hand = {} /\ S \subseteq Fresh /\ hand' = S /\ UNCHANGED <<gone, wet, rows, lost>>

Cast(w) ==
  /\ w \in hand /\ wet \subseteq rows \cup lost
  /\ wet' = wet \cup {w} /\ UNCHANGED <<hand, gone, rows, lost>>

Record(S) ==
  /\ S \subseteq hand
  /\ \E kept \in SUBSET S : rows' = rows \cup kept
  /\ lost' = (lost \cup S) \ rows' /\ UNCHANGED <<hand, gone, wet>>

GiveUp(S) ==
  /\ S \subseteq hand /\ S \cap wet \subseteq rows \cup lost
  /\ hand' = hand \ S /\ gone' = gone \cup S /\ UNCHANGED <<wet, rows, lost>>

Next == \E S \in SUBSET Well : Take(S) \/ Record(S) \/ GiveUp(S) \/ \E w \in S : Cast(w)

Spec == Init /\ [][Next]_life
================================================================================
