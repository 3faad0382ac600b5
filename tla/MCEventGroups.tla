--------------------------- MODULE MCEventGroups --------------------------
(* Values of the constants of EventGroups for TLC *)
EXTENDS EventGroups, TLC

CONSTANTS idle, a, b, third, group, ready, steady, here, there, yonder

\* two tasks of one priority and a more urgent one
TrioPriority == (idle :> 0) @@ (a :> 1) @@ (b :> 1) @@ (third :> 2)

TrioBits == (a :> here) @@ (b :> there) @@ (third :> yonder)
===========================================================================
