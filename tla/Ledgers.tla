------------------------------ MODULE Ledgers -----------------------------------
(***************************************************************************)
(* The stock interlock (ReservoirLedger of src/softae/core/reservoir.py)   *)
(* under the pumps that ask it (_validate_single_pump of                   *)
(* src/softae/drivers/contracts.py): every process that drives the syringe *)
(* has a ledger of its own, which reads a pump's level from the project's  *)
(* store once and keeps it.                                                *)
(*                                                                         *)
(* A dispense is checked, booked and then commanded; the process may die   *)
(* between any two of these, and its commands to the store may fail.       *)
(***************************************************************************)
EXTENDS Naturals

CONSTANTS
  Windows,     \* desktops: they dispense, and declare what was loaded
  Campaigns,   \* campaigns in processes of their own
  Pumps,
  Full,        \* what a barrel holds
  Doses,       \* volumes that are dispensed
  HardStop,    \* reservoir_hard_stop_uL
  Unknown,     \* no level: the pump was never declared, or was not looked up
  StoreFaults, \* bound: calls of the store that fail
  Together     \* TRUE: a window stays open while a campaign it launched runs

ASSUME StockAssumption ==
  /\ Full \in Nat /\ HardStop \in 0..Full /\ Doses \subseteq Nat \ {0}
  /\ Unknown \notin Nat /\ StoreFaults \in Nat /\ Together \in BOOLEAN

Hosts == Windows \cup Campaigns
Level == 0..Full \cup {Unknown}
NoDispense == [at |-> "none"]

VARIABLES
  stock,     \* per pump, what is in its barrel
  row,       \* per pump, its row in reservoir_levels
  levels,    \* per host and pump, the level its ledger keeps
  attached,  \* the hosts that are running
  dispense,  \* per host, the single_pump it is in
  slipped,   \* history: the pumps drawn from unread, or whose level was not stored,
             \* since they were last declared
  lost       \* how many calls of the store have failed

books     == <<row, levels, slipped, lost>>
stockvars == <<stock, books, attached, dispense>>

SinglePump == [at : {"check", "debit", "pump"}, pump : Pumps, dose : Doses]
Dispenses  == SinglePump \cup {NoDispense}

StockTypeOK ==
  /\ stock \in [Pumps -> 0..Full] /\ row \in [Pumps -> Level]
  /\ levels \in [Hosts -> [Pumps -> Level]]
  /\ attached \subseteq Hosts
  /\ dispense \in [Hosts -> Dispenses]
  /\ slipped \subseteq Pumps /\ lost \in 0..StoreFaults

StockInit ==
  /\ stock = [p \in Pumps |-> Full] /\ row \in [Pumps -> {Full, Unknown}]
  /\ levels = [h \in Hosts |-> [p \in Pumps |-> Unknown]]
  /\ attached = {} /\ dispense = [h \in Hosts |-> NoDispense]
  /\ slipped = {} /\ lost = 0

--------------------------------------------------------------------------------

\* attach_reservoir_ledger: a new ledger has read nothing.
Attach(h) ==
  /\ h \notin attached /\ (Together \/ attached = {})
  /\ attached' = attached \cup {h}
  /\ UNCHANGED <<stock, books, dispense>>

\* It is closed, or killed wherever it is, and its ledger is gone.
Detach(h) ==
  /\ h \in attached /\ attached' = attached \ {h}
  /\ levels' = [levels EXCEPT ![h] = [p \in Pumps |-> Unknown]]
  /\ dispense' = [dispense EXCEPT ![h] = NoDispense]
  /\ UNCHANGED <<stock, row, slipped, lost>>

\* remaining_uL: what the ledger has read it does not read again.
Remaining(h, p) == IF levels[h][p] # Unknown THEN levels[h][p] ELSE row[p]

Keep(h, p, level) == levels' = [levels EXCEPT ![h][p] = level]

\* The stock labels, the dialog, the projection before a launch.
LookUp(h, p) ==
  /\ h \in attached /\ Keep(h, p, Remaining(h, p))
  /\ UNCHANGED <<stock, row, attached, dispense, slipped, lost>>

\* Nobody is at the pumps: a host drives the rig only with the claim on it.
Idle == \A h \in Hosts : dispense[h] = NoDispense

Stage(h, at) == dispense' = [dispense EXCEPT ![h].at = at]

Ask(h, p, d) ==
  /\ h \in attached /\ Idle
  /\ dispense' = [dispense EXCEPT ![h] = [at |-> "check", pump |-> p, dose |-> d]]
  /\ UNCHANGED <<stock, books, attached>>

\* check: a pump nobody declared passes.
Passes(level, d) == level = Unknown \/ level >= HardStop + d

Check(h) ==
  LET p == dispense[h].pump IN
  /\ dispense[h].at = "check" /\ Keep(h, p, Remaining(h, p))
  /\ IF Passes(Remaining(h, p), dispense[h].dose) THEN Stage(h, "debit")
     ELSE dispense' = [dispense EXCEPT ![h] = NoDispense]
  /\ UNCHANGED <<stock, row, attached, slipped, lost>>

\* The row cannot be read: the pump counts as one nobody declared, and passes.
CheckUnread(h) ==
  LET p == dispense[h].pump IN
  /\ dispense[h].at = "check" /\ levels[h][p] = Unknown
  /\ lost < StoreFaults /\ lost' = lost + 1
  /\ slipped' = slipped \cup {p} /\ Stage(h, "debit")
  /\ UNCHANGED <<stock, row, levels, attached>>

Less(level, d) == IF level >= d THEN level - d ELSE 0

\* Mutant: a level is kept by the ledger and not stored.
BookKeeping(h, p, level) == Keep(h, p, level) /\ UNCHANGED <<row, slipped, lost>>

\* The whole level is written, over whatever the row says; a write that fails is logged.
Book(h, p, level) ==
  /\ Keep(h, p, level)
  /\ \/ row' = [row EXCEPT ![p] = level] /\ UNCHANGED <<slipped, lost>>
     \/ /\ lost < StoreFaults /\ lost' = lost + 1 /\ slipped' = slipped \cup {p}
        /\ UNCHANGED row

Debit(h) ==
  LET p == dispense[h].pump level == Remaining(h, p) IN
  /\ dispense[h].at = "debit" /\ Stage(h, "pump")
  /\ IF level = Unknown THEN UNCHANGED books
     ELSE Book(h, p, Less(level, dispense[h].dose))
  /\ UNCHANGED <<stock, attached>>

DebitUnread(h) ==
  LET p == dispense[h].pump IN
  /\ dispense[h].at = "debit" /\ levels[h][p] = Unknown
  /\ lost < StoreFaults /\ lost' = lost + 1
  /\ slipped' = slipped \cup {p} /\ Stage(h, "pump")
  /\ UNCHANGED <<stock, row, levels, attached>>

\* The program is written and draws its dose, or less if it fails or is halted.
Pump(h) ==
  LET p == dispense[h].pump IN
  /\ dispense[h].at = "pump"
  /\ dispense' = [dispense EXCEPT ![h] = NoDispense]
  /\ \E left \in Less(stock[p], dispense[h].dose)..stock[p] :
       stock' = [stock EXCEPT ![p] = left]
  /\ UNCHANGED <<books, attached>>

\* The operator loads a barrel that is not being drawn from, and declares it (refill).
Declare(h, p, volume) ==
  /\ h \in Windows \cap attached /\ Idle
  /\ stock' = [stock EXCEPT ![p] = volume]
  /\ Keep(h, p, volume)
  /\ \/ row' = [row EXCEPT ![p] = volume] /\ slipped' = slipped \ {p} /\ UNCHANGED lost
     \/ /\ lost < StoreFaults /\ lost' = lost + 1 /\ slipped' = slipped \cup {p}
        /\ UNCHANGED row
  /\ UNCHANGED <<attached, dispense>>

StockNext ==
  \E h \in Hosts :
    \/ Attach(h) \/ Detach(h) \/ Check(h) \/ CheckUnread(h) \/ Debit(h) \/ DebitUnread(h)
    \/ Pump(h)
    \/ \E p \in Pumps : LookUp(h, p)
    \/ \E p \in Pumps, d \in Doses : Ask(h, p, d)
    \/ \E p \in Pumps, volume \in 0..Full : Declare(h, p, volume)

StockSpec == StockInit /\ [][StockNext]_stockvars

--------------------------------------------------------------------------------

\* A pump that was declared is commanded only when its barrel holds the dose and the
\* margin that keeps the plunger off its stop, whoever drew before, from whichever
\* process, and wherever that process died (_validate_single_pump).  Left out are pumps
\* with a level that could not be read or stored since they were declared.
KeptOffStop ==
  \A h \in Hosts :
    LET p == dispense[h].pump IN
    dispense[h].at = "pump" /\ p \notin slipped /\ row[p] # Unknown =>
      stock[p] >= HardStop + dispense[h].dose

================================================================================
