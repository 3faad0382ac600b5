------------------------------ MODULE MCTimers ----------------------------
(* Values of the constants of Timers for TLC *)
EXTENDS Timers, TLC

CONSTANTS periodic, once

TwoAndThree == (periodic :> 2) @@ (once :> 3)
Three == (periodic :> 3)
===========================================================================
