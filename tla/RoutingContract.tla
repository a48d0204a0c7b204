-------------------------- MODULE RoutingContract --------------------------
(***************************************************************************)
(* What the routing administration promises the payment service: the       *)
(* configuration in force is absent until the first publication, and       *)
(* afterwards changes only to a valid graph under a version number other   *)
(* than the one it replaces.                                               *)
(***************************************************************************)
EXTENDS Naturals

CONSTANTS
    Valid,    \* the graphs that pass validateWorkflow
    None

VARIABLE live

Init == live = [version |-> 0, nodes |-> None]

Deploy == live' \in [version : Nat \ {live.version}, nodes : Valid]

Spec == Init /\ [][Deploy]_live
=============================================================================
