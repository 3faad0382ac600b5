------------------------------ MODULE MCUcos ------------------------------
(* Values of the constants of UcosEvents for TLC *)
EXTENDS UcosEvents, TLC

CONSTANTS idle, urgent, middle, late, sem, mbox, queue, mutex

\* The mutex lends priority 0, the tasks have 1 to 3, 4 is free.
StartPrio == (idle :> 5) @@ (urgent :> 1) @@ (middle :> 2) @@ (late :> 3)

Kinds == (sem :> "SEM") @@ (mbox :> "MBOX") @@ (queue :> "Q") @@ (mutex :> "MUTEX")
Pips == (mutex :> 0)
Capacities == (sem :> 2) @@ (mbox :> 1) @@ (queue :> 1)

\* The mutex is for the most and the least urgent task.
Waits == (urgent :> {sem, mutex}) @@ (middle :> {sem, mbox, queue}) @@ (late :> {mutex})
===========================================================================
