---------------------------- MODULE TimerService --------------------------
(***************************************************************************)
(* What software timers promise, without lists, wraps or catching up: each *)
(* running timer is due in some number of ticks, counted from the moment   *)
(* its command was sent; its callback is called when it is due or late,    *)
(* once for each period.                                                   *)
(***************************************************************************)
EXTENDS Integers

CONSTANTS
    Timer,
    AutoReload,  \* the timers that start again when they expire
    Off,         \* the time that a timer which does not run is due
    None         \* no timer

VARIABLES
    due,       \* [Timer -> ticks until it expires, negative when it is late, or Off]
    period,    \* [Timer -> its period]
    inHand,    \* the timer that a command is carried out for
    since,     \* ticks since that command was sent, 0 if there is none
    called     \* the timer whose callback was called in the last step

vars == <<due, period, inHand, since, called>>

ServiceInit ==
    /\ due = [t \in Timer |-> Off]
    /\ inHand = None
    /\ since = 0
    /\ called = None

Next(t, d) == IF t \in AutoReload THEN d + period[t] ELSE Off

Tick ==
    /\ due' = [t \in Timer |-> IF due[t] = Off THEN Off ELSE due[t] - 1]
    /\ since' = IF inHand = None THEN 0 ELSE since + 1
    /\ called' = None
    /\ UNCHANGED <<period, inHand>>

Expire(t) ==
    /\ due[t] # Off /\ due[t] <= 0
    /\ due' = [due EXCEPT ![t] = Next(t, due[t])]
    /\ called' = t
    /\ UNCHANGED <<period, inHand, since>>

\* A command of the application is taken up; it takes the timer out.
TakeUp(t) ==
    /\ inHand = None
    /\ inHand' = t
    /\ due' = [due EXCEPT ![t] = Off]
    /\ since' \in Nat
    /\ called' = None
    /\ UNCHANGED period

Done == inHand' = None /\ since' = 0

\* Started as of the time the command was sent; it may have expired since.
Start(t) ==
    LET d == period[t] - since IN
    /\ inHand = t
    /\ \/ due' = [due EXCEPT ![t] = d] /\ called' = None
       \/ d <= 0 /\ due' = [due EXCEPT ![t] = Next(t, d)] /\ called' = t
    /\ Done
    /\ UNCHANGED period

Stop(t) ==
    /\ inHand = t
    /\ Done
    /\ called' = None
    /\ UNCHANGED <<due, period>>

\* The new period counts from a moment after the command was sent.
ChangePeriod(t) ==
    /\ inHand = t
    /\ period'[t] \in Nat \ {0}
    /\ period' = [period EXCEPT ![t] = period'[t]]
    /\ \E n \in 0 .. since : due' = [due EXCEPT ![t] = period'[t] - n]
    /\ Done
    /\ called' = None

\* Another timer in the place of a deleted one.
Create(t) ==
    /\ due[t] = Off
    /\ period'[t] \in Nat \ {0}
    /\ period' = [period EXCEPT ![t] = period'[t]]
    /\ called' = None
    /\ UNCHANGED <<due, inHand, since>>

\* The other steps of the program.
Other == called' = None /\ UNCHANGED <<due, period, inHand, since>>

ServiceNext ==
    \/ Tick
    \/ \E t \in Timer : \/ Expire(t)
                        \/ TakeUp(t) \/ Start(t) \/ Stop(t) \/ ChangePeriod(t)
                        \/ Create(t)
    \/ Other

ServiceSpec == ServiceInit /\ [][ServiceNext]_vars
===========================================================================
