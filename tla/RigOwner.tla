------------------------------- MODULE RigOwner -------------------------------
(***************************************************************************)
(* What the rig lock promises: the rig is one physical object, and at any  *)
(* time at most one process believes it may drive it.  RunLock.tla, the    *)
(* lock file of core/run_lock.py, is shown to implement this specification *)
(* when no two calls overlap inside one of its unprotected windows.        *)
(***************************************************************************)
CONSTANTS Proc,     \* the processes that may claim the rig
          NoOne     \* the owner of a rig nobody claims

VARIABLE owner

Init == owner = NoOne

\* A process takes a rig nobody holds ...
Take(p) == /\ owner = NoOne
           /\ owner' = p

\* ... and its claim ends: it gives the rig back, or it dies.
Drop(p) == /\ owner = p
           /\ owner' = NoOne

Next == \E p \in Proc : Take(p) \/ Drop(p)

Spec == Init /\ [][Next]_owner
===============================================================================
