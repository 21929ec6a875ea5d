------------------------------- MODULE MCDesktop --------------------------------
(* What meets in a desktop: the controls of a campaign in another process       *)
(* (EstopLadder), the runs and purges of its own (RigActivity), and the ledger  *)
(* of the stock it draws from, like that campaign (Ledgers).  They share no     *)
(* state, so a behaviour follows one of them and leaves the others as they were.*)
EXTENDS EstopLadder, RigActivity, Ledgers

VARIABLE followed

DesktopInit ==
  /\ BarInit /\ RigInit /\ StockInit
  /\ followed \in {"campaign", "rig", "stock"}
  /\ followed = "campaign" <=> reach # {}
  /\ followed # "rig" => head = "up" /\ actuate
  /\ followed # "stock" => Unknown \notin {row[p] : p \in Pumps}

DesktopNext ==
  /\ UNCHANGED followed
  /\ \/ followed = "campaign" /\ BarNext /\ UNCHANGED <<rigvars, stockvars>>
     \/ followed = "rig" /\ RigNext /\ UNCHANGED <<evars, stockvars>>
     \/ followed = "stock" /\ StockNext /\ UNCHANGED <<evars, rigvars>>

DesktopSpec ==
  /\ DesktopInit /\ [][DesktopNext]_<<evars, rigvars, stockvars, followed>>
  /\ BarFairness /\ RigFairness

================================================================================
