----------------------------- MODULE MCTasks ------------------------------
(* Values of the constants of Tasks for TLC *)
EXTENDS Tasks, TLC

CONSTANTS idle, a, b

\* idle below two application tasks of different urgency
StepPriority == (idle :> 0) @@ (a :> 1) @@ (b :> 2)
===========================================================================
