---------------------------- MODULE MachineTimer ---------------------------
(***************************************************************************)
(* The 64 bit machine timer as a 32 bit core sees it: a word at a time.    *)
(* get_timer_value (n200_func.c) reads it in a task; vPortSetupTimer and   *)
(* vPortSysTickHandler (port.c) read it and write the comparator of the    *)
(* tick.  The handler preempts the reader and is not preempted by it.      *)
(***************************************************************************)
EXTENDS Integers

CONSTANTS
    WORD,     \* the values of a word; 2^32
    PERIOD,   \* configRTC_CLOCK_HZ / configTICK_RATE_HZ
    MaxTime   \* bound: the last time of the timer

ASSUME TimerAssumption ==
    /\ WORD \in Nat \ {0}
    /\ PERIOD \in Nat \ {0}
    /\ MaxTime \in Nat

\* Locals that are dead are 0.
VARIABLES
    mtime,
    mtimecmp,
    then,       \* static of vPortSysTickHandler
    port,       \* where the set-up or the handler is
    loaded,     \* the word of *mtime that it has loaded
    ticks,      \* calls of xTaskIncrementTick
    based,      \* history: what the first call of the handler read
    reader,     \* where get_timer_value is
    hi, lo,     \* its locals
    called,     \* history: when it was called
    value       \* what it returned

portVars == <<mtimecmp, then, port, loaded, ticks, based>>
readerVars == <<reader, hi, lo, called, value>>
vars == <<mtime, portVars, readerVars>>

Hi(t) == t \div WORD
Lo(t) == t % WORD
Joined(h, l) == h * WORD + l

Init ==
    /\ mtime \in 0 .. WORD
    /\ mtimecmp = 0 /\ then = 0
    /\ port = "setup" /\ loaded = 0
    /\ ticks = 0 /\ based = 0
    /\ reader = "idle" /\ hi = 0 /\ lo = 0 /\ called = 0 /\ value = 0

\* The timer counts.
Advance ==
    /\ mtime < MaxTime
    /\ mtime' = mtime + 1
    /\ UNCHANGED <<portVars, readerVars>>
---------------------------------------------------------------------------
(* The tick *)

(***************************************************************************)
(* A load of *mtime is two loads, in the order the compiler likes: first   *)
(* the one word at step "from", then the other one.  Got is the sum.       *)
(***************************************************************************)
LoadFirst(from, low, high) ==
    /\ port = from
    /\ \/ loaded' = Lo(mtime) /\ port' = low
       \/ loaded' = Hi(mtime) /\ port' = high

Got(low) == IF port = low THEN Joined(Hi(mtime), loaded) ELSE Joined(loaded, Lo(mtime))

SetupLoad ==
    /\ LoadFirst("setup", "setupLow", "setupHigh")
    /\ UNCHANGED <<mtime, mtimecmp, then, ticks, based, readerVars>>

\* The static of the handler is not the local variable of this function.
vPortSetupTimer ==
    /\ port \in {"setupLow", "setupHigh"}
    /\ mtimecmp' = Got("setupLow") + PERIOD
    /\ port' = "idle"
    /\ loaded' = 0
    /\ UNCHANGED <<mtime, then, ticks, based, readerVars>>

\* The timer interrupt is pending and nothing masks it any more.
HandlerEntry ==
    /\ port = "idle"
    /\ mtime >= mtimecmp
    /\ port' = IF then = 0 THEN "first" ELSE "next"
    /\ UNCHANGED <<mtime, mtimecmp, then, loaded, ticks, based, readerVars>>

FirstLoad ==
    /\ LoadFirst("first", "firstLow", "firstHigh")
    /\ UNCHANGED <<mtime, mtimecmp, then, ticks, based, readerVars>>

\* Writes the comparator and counts the tick.
Rearm(t) ==
    /\ then' = t
    /\ mtimecmp' = t
    /\ ticks' = ticks + 1
    /\ port' = "idle"
    /\ loaded' = 0
    /\ UNCHANGED <<mtime, readerVars>>

FirstTick ==
    /\ port \in {"firstLow", "firstHigh"}
    /\ based' = Got("firstLow")
    /\ Rearm(Got("firstLow") + PERIOD)

\* Variant: a period from now.
NextTickFromNow ==
    /\ port = "next"
    /\ Rearm(mtime + PERIOD)
    /\ UNCHANGED based

NextTick ==
    /\ port = "next"
    /\ Rearm(then + PERIOD)
    /\ UNCHANGED based
---------------------------------------------------------------------------
(* get_timer_value, in a task: it goes on while no handler runs *)

ReaderAt(at) ==
    /\ reader = at
    /\ port \in {"setup", "idle"}
    /\ UNCHANGED <<mtime, portVars>>

ReadHi ==
    /\ ReaderAt("idle") \/ ReaderAt("again")
    /\ hi' = Hi(mtime)
    /\ called' = IF reader = "idle" THEN mtime ELSE called
    /\ reader' = "low"
    /\ UNCHANGED <<lo, value>>

ReadLo ==
    /\ ReaderAt("low")
    /\ lo' = Lo(mtime)
    /\ reader' = "check"
    /\ UNCHANGED <<hi, called, value>>

\* Variant: without the second look at the high word.
ReturnAtOnce ==
    /\ ReaderAt("check")
    /\ value' = Joined(hi, lo)
    /\ reader' = "returned"
    /\ hi' = 0 /\ lo' = 0
    /\ UNCHANGED called

CheckHi ==
    /\ ReaderAt("check")
    /\ IF hi = Hi(mtime)
       THEN value' = Joined(hi, lo) /\ reader' = "returned"
       ELSE reader' = "again" /\ UNCHANGED value
    /\ hi' = 0 /\ lo' = 0
    /\ UNCHANGED called

Return ==
    /\ ReaderAt("returned")
    /\ reader' = "idle"
    /\ called' = 0 /\ value' = 0
    /\ UNCHANGED <<hi, lo>>

Next ==
    \/ Advance
    \/ SetupLoad \/ vPortSetupTimer
    \/ HandlerEntry \/ FirstLoad \/ FirstTick \/ NextTick
    \/ ReadHi \/ ReadLo \/ CheckHi \/ Return

Spec == Init /\ [][Next]_vars
---------------------------------------------------------------------------
(* Properties *)

TimerTypeOK ==
    /\ mtime \in Nat /\ mtimecmp \in Nat /\ then \in Nat
    /\ port \in {"setup", "setupLow", "setupHigh", "idle", "first", "firstLow", "firstHigh", "next"}
    /\ loaded \in Nat /\ ticks \in Nat /\ based \in Nat
    /\ reader \in {"idle", "low", "check", "again", "returned"}
    /\ hi \in Nat /\ lo \in 0 .. WORD - 1 /\ called \in Nat /\ value \in Nat

(***************************************************************************)
(* get_timer_value returns a time that the timer had during the call,      *)
(* however often its low word overflowed between the loads.                *)
(***************************************************************************)
ReadDuringTheCall == reader = "returned" => called <= value /\ value <= mtime

(***************************************************************************)
(* No tick is lost and none is invented: when no tick is pending the tick  *)
(* count is that of the periods since the first tick, however long the     *)
(* interrupt had to wait.  A torn load at the first tick may put "based"    *)
(* into the future: then no tick comes until the timer is there.           *)
(***************************************************************************)
TicksCountPeriods ==
    port = "idle" /\ ticks > 0 /\ mtime < mtimecmp /\ based <= mtime
        => ticks = 1 + (mtime - based) \div PERIOD

===========================================================================
