------------------------------ MODULE Barrier -----------------------------
(***************************************************************************)
(* What a rendezvous promises: nobody leaves before everybody has come.    *)
(* One who has left may come again while others have yet to leave.         *)
(***************************************************************************)
CONSTANT Member

VARIABLE phase  \* [Member -> "out", "in" (waiting), "free" (to leave)]

BarrierInit == phase = [t \in Member |-> "out"]

Arrive(t) ==
    /\ phase[t] = "out"
    /\ phase' = IF \A u \in Member \ {t} : phase[u] = "in"
                THEN [u \in Member |-> "free"] ELSE [phase EXCEPT ![t] = "in"]

Depart(t) ==
    /\ phase[t] = "free"
    /\ phase' = [phase EXCEPT ![t] = "out"]

BarrierSpec == BarrierInit /\ [][\E t \in Member : Arrive(t) \/ Depart(t)]_phase
===========================================================================
