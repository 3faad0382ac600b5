------------------------------- MODULE Timers ------------------------------
(***************************************************************************)
(* The software timers (Source/timers.c): the timer task, which keeps the  *)
(* running timers in two lists, one for each side of the next wrap of the  *)
(* tick count, and the commands that tasks and interrupts send to it.      *)
(*                                                                         *)
(* An action of the timer task is what it does between two points at which *)
(* the tick count may change or a command may arrive.  Its blocking on the *)
(* command queue is one step: module Queue shows that a command sent while *)
(* the queue is locked wakes it.                                           *)
(***************************************************************************)
EXTENDS Integers, SequencesExt

CONSTANTS
    Timer,
    AutoReload,     \* the timers with uxAutoReload
    Off, None,      \* see TimerService
    InitialPeriod,  \* [Timer -> xTimerPeriodInTicks it is created with]
    Periods,        \* those given to xTimerChangePeriod
    TickMod,        \* a TickType_t counts modulo TickMod
    QueueLength,    \* configTIMER_QUEUE_LENGTH
    Reserved,       \* the entries of the queue that the application leaves free
    IsrTimers,      \* the timers that interrupts and callbacks send commands for
    MaxDelay,       \* bound: ticks between the call of xTimerStart and the sending
    MaxBusy         \* bound: ticks until the timer task has caught up

ASSUME TimersAssumption ==
    /\ AutoReload \subseteq Timer
    /\ TickMod \in Nat \ {0}
    /\ InitialPeriod \in [Timer -> 1 .. TickMod - 1]
    /\ Periods \subseteq 1 .. TickMod - 1
    /\ QueueLength \in Nat
    /\ Reserved \in 0 .. QueueLength
    /\ IsrTimers \subseteq Timer
    /\ MaxDelay \in Nat /\ MaxBusy \in Nat
    /\ MaxBusy + MaxDelay <= TickMod - 1
    /\ Off \notin Int /\ None \notin Timer

VARIABLES
    xTickCount,
    uxPendedTicks,         \* those of a suspended scheduler
    pxCurrentTimerList,    \* sorted by xItemValue
    pxOverflowTimerList,
    xItemValue,            \* [Timer -> the tick it expires at; 0 if it is in no list]
    xTimerPeriodInTicks,
    exists,                \* [Timer -> it is created and not deleted]
    xTimerQueue,           \* the commands
    xLastTime,             \* the tick count at the last sample
    pc,                    \* where the timer task is
    xNextExpireTime,       \* its locals; 0, TRUE and 0 when they are not used again
    xListWasEmpty,
    xTimeNow,
    xMessage,
    wake,                  \* ticks until its wait ends, or Off
    halted,                \* an assertion failed
    busy,                  \* history: ticks since it was woken
    called,                \* history: the timer whose callback the last step called
    stopped                \* history: the timers stopped while a restart was under way

taskVars == <<pc, xNextExpireTime, xListWasEmpty, xTimeNow, xMessage, wake>>
timeVars == <<xTickCount, uxPendedTicks, busy>>
listVars == <<pxCurrentTimerList, pxOverflowTimerList, xItemValue>>
timerVars == <<xTimerPeriodInTicks, exists, stopped>>
vars == <<taskVars, timeVars, listVars, timerVars, xTimerQueue, xLastTime, halted, called>>

Tick == 0 .. TickMod - 1
Plus(x, n) == (x + n) % TickMod
Minus(x, n) == (x - n) % TickMod

InLists == Range(pxCurrentTimerList) \union Range(pxOverflowTimerList)
Messages == Range(xTimerQueue) \union {xMessage}

\* The time that the lists refer to: counted on from the wrap before the last sample.
Clock == xTickCount + uxPendedTicks + IF xTickCount < xLastTime THEN TickMod ELSE 0

\* When each timer is due, from the lists and the restarts under way.
Due(t) ==
    IF t \in Range(pxCurrentTimerList) THEN xItemValue[t] - Clock
    ELSE IF t \in Range(pxOverflowTimerList) THEN xItemValue[t] + TickMod - Clock
    ELSE IF \E m \in Messages : m.timer = t /\ m.id = "restart"
    THEN xTimerPeriodInTicks[t] - (CHOOSE m \in Messages : m.timer = t /\ m.id = "restart").age
    ELSE Off

NoMessage == [id |-> "none", timer |-> None, value |-> 0, age |-> 0]

Init ==
    /\ xTickCount = 0
    /\ uxPendedTicks = 0
    /\ pxCurrentTimerList = <<>>
    /\ pxOverflowTimerList = <<>>
    /\ xItemValue = [t \in Timer |-> 0]
    /\ xTimerPeriodInTicks = InitialPeriod
    /\ exists = [t \in Timer |-> TRUE]
    /\ xTimerQueue = <<>>
    /\ xLastTime = 0
    /\ pc = "next"
    /\ xNextExpireTime = 0
    /\ xListWasEmpty = TRUE
    /\ xTimeNow = 0
    /\ xMessage = NoMessage
    /\ wake = Off
    /\ halted = FALSE
    /\ busy = 0
    /\ called = None
    /\ stopped = {}
---------------------------------------------------------------------------
(* Time and commands *)

Suspended == pc = "switchSuspended"

Older(m) == [m EXCEPT !.age = @ + 1]

\* A tick; one that ends the wait of the timer task makes it ready.
TickInterrupt ==
    /\ ~halted
    /\ pc # "blocked" => busy < MaxBusy
    /\ InLists # {} => Clock - xLastTime < TickMod - 1
    /\ IF Suspended THEN uxPendedTicks' = uxPendedTicks + 1 /\ UNCHANGED xTickCount
       ELSE xTickCount' = Plus(xTickCount, 1) /\ UNCHANGED uxPendedTicks
    /\ busy' = IF pc = "blocked" THEN 0 ELSE busy + 1
    /\ wake' = IF pc # "blocked" \/ wake = Off THEN wake ELSE IF wake <= 1 THEN Off ELSE wake - 1
    /\ pc' = IF pc = "blocked" /\ wake # Off /\ wake' = Off THEN "receive" ELSE pc
    /\ xTimerQueue' = [i \in DOMAIN xTimerQueue |-> Older(xTimerQueue[i])]
    /\ xMessage' = IF xMessage = NoMessage THEN xMessage ELSE Older(xMessage)
    /\ called' = None
    /\ UNCHANGED <<xNextExpireTime, xListWasEmpty, xTimeNow, listVars, timerVars, xLastTime, halted>>

\* The application uses a timer that it has not deleted and knows the timer task has not
\* been told to delete.
Usable(t) ==
    /\ exists[t]
    /\ \A m \in Range(xTimerQueue) \union {xMessage} : ~(m.timer = t /\ m.id = "delete")

\* xTimerGenericCommand of the application, for commands that find room.  A task gets to send
\* one only when the timer task, which is more urgent, is blocked; an interrupt or a callback
\* always.
xTimerGenericCommand(t, id, value, age) ==
    /\ ~halted
    /\ Usable(t)
    /\ pc = "blocked" \/ t \in IsrTimers
    /\ Len(xTimerQueue) < QueueLength - Reserved
    /\ xTimerQueue' = Append(xTimerQueue, [id |-> id, timer |-> t, value |-> value, age |-> age])
    /\ IF pc = "blocked" THEN pc' = "receive" /\ wake' = Off /\ busy' = 0
       ELSE UNCHANGED <<pc, wake, busy>>
    /\ called' = None
    /\ UNCHANGED <<xNextExpireTime, xListWasEmpty, xTimeNow, xMessage, xTickCount, uxPendedTicks,
                   listVars, timerVars, xLastTime, halted>>

\* xTimerStart and xTimerReset give the tick count when they were called, which a suspended
\* scheduler keeps back.
xTimerStart(t) ==
    \E d \in 0 .. MaxDelay :
        xTimerGenericCommand(t, "start", Minus(xTickCount, d), uxPendedTicks + d)
xTimerStop(t) == xTimerGenericCommand(t, "stop", 0, 0)
xTimerChangePeriod(t) == \E p \in Periods : xTimerGenericCommand(t, "changePeriod", p, 0)
xTimerDelete(t) == xTimerGenericCommand(t, "delete", 0, 0)

\* xTimerPendFunctionCall
xTimerPendFunctionCall ==
    /\ ~halted
    /\ Len(xTimerQueue) < QueueLength - Reserved
    /\ xTimerQueue' = Append(xTimerQueue, [NoMessage EXCEPT !.id = "execute"])
    /\ IF pc = "blocked" THEN pc' = "receive" /\ wake' = Off /\ busy' = 0
       ELSE UNCHANGED <<pc, wake, busy>>
    /\ called' = None
    /\ UNCHANGED <<xNextExpireTime, xListWasEmpty, xTimeNow, xMessage, xTickCount, uxPendedTicks,
                   listVars, timerVars, xLastTime, halted>>

\* A new timer in the place of a deleted one.
xTimerCreate(t) ==
    /\ ~halted
    /\ ~exists[t]
    /\ exists' = [exists EXCEPT ![t] = TRUE]
    /\ xTimerPeriodInTicks' = [xTimerPeriodInTicks EXCEPT ![t] = InitialPeriod[t]]
    /\ called' = None
    /\ UNCHANGED <<taskVars, timeVars, listVars, xTimerQueue, xLastTime, halted, stopped>>
---------------------------------------------------------------------------
(* The timer lists *)

\* vListInsert: after those that expire at the same tick.
Inserted(list, t, value) ==
    InsertAt(list, 1 + Cardinality({i \in DOMAIN list : xItemValue[list[i]] <= value}), t)

\* Variant: does not see that the tick count wrapped after the timer expired.
PlacementWithoutWrap(next, now, command, period) ==
    IF next <= now
    THEN IF Minus(now, command) >= period THEN "now" ELSE "overflow"
    ELSE "current"

\* prvInsertTimerInActiveList: where a timer goes that expires at next, or "now" if it is to be
\* called at once because it expired between the command and now.
Placement(next, now, command, period) ==
    IF next <= now
    THEN IF Minus(now, command) >= period THEN "now" ELSE "overflow"
    ELSE IF now < command /\ next >= command THEN "now" ELSE "current"

\* To where in the current list that is given, or in the overflow list.
Place(t, next, where, current) ==
    /\ xItemValue' = [xItemValue EXCEPT ![t] = IF where \in {"current", "overflow"} THEN next ELSE 0]
    /\ pxCurrentTimerList' = IF where = "current" THEN Inserted(current, t, next) ELSE current
    /\ pxOverflowTimerList' = IF where = "overflow" THEN Inserted(pxOverflowTimerList, t, next)
                              ELSE pxOverflowTimerList

\* xTimerGenericCommand with tmrCOMMAND_START_DONT_TRACE from the timer task; late is for how
\* long the timer has expired.
Restart(t, value, late) ==
    LET room == Len(xTimerQueue) < QueueLength IN
    /\ xTimerQueue' = IF ~room THEN xTimerQueue
                      ELSE Append(xTimerQueue, [id |-> "restart", timer |-> t, value |-> value,
                                                age |-> late])
    /\ halted' = ~room

NoRestart == UNCHANGED <<xTimerQueue, halted>>

---------------------------------------------------------------------------
(* The timer task *)

prvGetNextExpireTime ==
    /\ pc = "next"
    /\ xListWasEmpty' = (pxCurrentTimerList = <<>>)
    /\ xNextExpireTime' = IF pxCurrentTimerList = <<>> THEN 0 ELSE xItemValue[Head(pxCurrentTimerList)]
    /\ pc' = "process"
    /\ called' = None
    /\ UNCHANGED <<xTimeNow, xMessage, wake, timeVars, listVars, timerVars, xTimerQueue, xLastTime,
                   halted>>

\* prvSampleTimeNow; when the tick count has wrapped the lists are switched first.
SampleTimeNow(next, switch) ==
    /\ xTimeNow' = xTickCount
    /\ IF xTickCount < xLastTime THEN pc' = switch /\ UNCHANGED xLastTime
       ELSE pc' = next /\ xLastTime' = xTickCount

\* Variant: blocks although a command has come.
BlockAnyway(ticks, indefinitely) ==
    pc' = "blocked" /\ wake' = IF indefinitely THEN Off ELSE ticks

\* vQueueWaitForMessageRestricted
Block(ticks, indefinitely) ==
    IF xTimerQueue = <<>>
    THEN pc' = "blocked" /\ wake' = IF indefinitely THEN Off ELSE ticks
    ELSE pc' = "receive" /\ UNCHANGED wake

\* prvProcessTimerOrBlockTask up to prvProcessExpiredTimer
prvProcessTimerOrBlockTask ==
    LET expired == ~xListWasEmpty /\ xNextExpireTime <= xTickCount
        indefinitely == xListWasEmpty /\ pxOverflowTimerList = <<>>
    IN  /\ pc = "process"
        /\ \/ /\ xTickCount < xLastTime \/ expired
              /\ SampleTimeNow("expired", "switchSuspended")
              /\ xNextExpireTime' = IF xTickCount < xLastTime THEN 0 ELSE xNextExpireTime
              /\ UNCHANGED wake
           \/ /\ xTickCount >= xLastTime /\ ~expired
              /\ xLastTime' = xTickCount
              /\ Block(Minus(xNextExpireTime, xTickCount), indefinitely)
              /\ xNextExpireTime' = 0
              /\ UNCHANGED xTimeNow
        /\ xListWasEmpty' = TRUE
        /\ called' = None
        /\ UNCHANGED <<xMessage, timeVars, listVars, timerVars, xTimerQueue, halted>>

prvProcessExpiredTimer ==
    LET t == Head(pxCurrentTimerList)
        next == Plus(xNextExpireTime, xTimerPeriodInTicks[t])
        where == IF t \in AutoReload
                 THEN Placement(next, xTimeNow, xNextExpireTime, xTimerPeriodInTicks[t]) ELSE "none"
    IN  /\ pc = "expired"
        /\ Place(t, next, where, Tail(pxCurrentTimerList))
        /\ IF where = "now" THEN Restart(t, xNextExpireTime, Clock - xNextExpireTime) ELSE NoRestart
        /\ called' = t
        /\ pc' = "receive"
        /\ xNextExpireTime' = 0
        /\ xTimeNow' = 0
        /\ UNCHANGED <<xListWasEmpty, xMessage, wake, timeVars, timerVars, xLastTime>>

\* prvSwitchTimerLists, one timer at a time: what is left of the current list has expired.
prvSwitchTimerLists ==
    LET t == Head(pxCurrentTimerList)
        expired == xItemValue[t]
        reload == Plus(expired, xTimerPeriodInTicks[t])
    IN  /\ pc \in {"switch", "switchSuspended"}
        /\ pxCurrentTimerList # <<>>
        /\ IF t \in AutoReload /\ reload > expired
           THEN Place(t, reload, "current", Tail(pxCurrentTimerList)) /\ NoRestart
           ELSE /\ pxCurrentTimerList' = Tail(pxCurrentTimerList)
                /\ IF t \in AutoReload THEN Restart(t, expired, Clock - expired) ELSE NoRestart
                /\ xItemValue' = [xItemValue EXCEPT ![t] = 0]
                /\ UNCHANGED pxOverflowTimerList
        /\ called' = t
        /\ UNCHANGED <<taskVars, timeVars, timerVars, xLastTime>>

\* The end of prvSwitchTimerLists and prvSampleTimeNow; xTaskResumeAll if they ran suspended.
SwitchDone ==
    /\ pc \in {"switch", "switchSuspended"}
    /\ pxCurrentTimerList = <<>>
    /\ pxCurrentTimerList' = pxOverflowTimerList
    /\ pxOverflowTimerList' = <<>>
    /\ xLastTime' = xTimeNow
    /\ pc' = IF Suspended THEN "receive" ELSE "handle"
    /\ xTimeNow' = IF Suspended THEN 0 ELSE xTimeNow
    /\ xTickCount' = Plus(xTickCount, uxPendedTicks)
    /\ uxPendedTicks' = 0
    /\ called' = None
    /\ UNCHANGED <<xNextExpireTime, xListWasEmpty, xMessage, wake, busy, xItemValue, timerVars,
                   xTimerQueue, halted>>

\* Variant: the timer of a command stays in its list.
LeaveIn(t) == UNCHANGED listVars

\* uxListRemove, if it is in a list
Without(list, t) ==
    IF t \in Range(list) THEN RemoveAt(list, CHOOSE i \in DOMAIN list : list[i] = t) ELSE list

TakeOut(t) ==
    /\ pxCurrentTimerList' = Without(pxCurrentTimerList, t)
    /\ pxOverflowTimerList' = Without(pxOverflowTimerList, t)
    /\ xItemValue' = [u \in Timer |-> IF u = t THEN 0 ELSE xItemValue[u]]

\* prvProcessReceivedCommands: the next command; its timer is taken out of its list.
Receive ==
    LET m == Head(xTimerQueue) IN
    /\ pc = "receive"
    /\ \/ /\ xTimerQueue = <<>>
          /\ pc' = "next"
          /\ UNCHANGED <<xTimerQueue, xMessage, listVars>>
       \/ /\ xTimerQueue # <<>>
          /\ xTimerQueue' = Tail(xTimerQueue)
          /\ TakeOut(m.timer)
          /\ IF m.id = "execute" THEN UNCHANGED <<pc, xMessage>>
             ELSE pc' = "sample" /\ xMessage' = m
    /\ called' = None
    /\ UNCHANGED <<xNextExpireTime, xListWasEmpty, xTimeNow, wake, timeVars, timerVars,
                   xLastTime, halted>>

SampleForCommand ==
    /\ pc = "sample"
    /\ SampleTimeNow("handle", "switch")
    /\ called' = None
    /\ UNCHANGED <<xNextExpireTime, xListWasEmpty, xMessage, wake, timeVars, listVars, timerVars,
                   xTimerQueue, halted>>

HandleStart ==
    LET t == xMessage.timer
        period == xTimerPeriodInTicks[t]
        next == Plus(xMessage.value, period)
        where == Placement(next, xTimeNow, xMessage.value, period)
    IN  /\ xMessage.id \in {"start", "restart"}
        /\ Place(t, next, where, pxCurrentTimerList)
        /\ IF where = "now" /\ t \in AutoReload THEN Restart(t, next, xMessage.age - period)
           ELSE NoRestart
        /\ called' = IF where = "now" THEN t ELSE None
        /\ stopped' = stopped \ {IF xMessage.id = "start" THEN t ELSE None}
        /\ UNCHANGED <<xTimerPeriodInTicks, exists>>

HandleStop ==
    /\ xMessage.id = "stop"
    /\ stopped' = IF Due(xMessage.timer) = Off THEN stopped ELSE stopped \union {xMessage.timer}
    /\ called' = None
    /\ NoRestart
    /\ UNCHANGED <<listVars, xTimerPeriodInTicks, exists>>

HandleChangePeriod ==
    LET t == xMessage.timer
        next == Plus(xTimeNow, xMessage.value)
    IN  /\ xMessage.id = "changePeriod"
        /\ xTimerPeriodInTicks' = [xTimerPeriodInTicks EXCEPT ![t] = xMessage.value]
        /\ Place(t, next, Placement(next, xTimeNow, xTimeNow, xMessage.value), pxCurrentTimerList)
        /\ stopped' = stopped \ {t}
        /\ called' = None
        /\ NoRestart
        /\ UNCHANGED exists

HandleDelete ==
    /\ xMessage.id = "delete"
    /\ exists' = [exists EXCEPT ![xMessage.timer] = FALSE]
    /\ stopped' = stopped \ {xMessage.timer}
    /\ called' = None
    /\ NoRestart
    /\ UNCHANGED <<listVars, xTimerPeriodInTicks>>

Handle ==
    /\ pc = "handle"
    /\ HandleStart \/ HandleStop \/ HandleChangePeriod \/ HandleDelete
    /\ pc' = "receive"
    /\ xMessage' = NoMessage
    /\ xTimeNow' = 0
    /\ UNCHANGED <<xNextExpireTime, xListWasEmpty, wake, timeVars, xLastTime>>

TimerTask ==
    /\ ~halted
    /\ \/ prvGetNextExpireTime
       \/ prvProcessTimerOrBlockTask
       \/ prvProcessExpiredTimer
       \/ prvSwitchTimerLists
       \/ SwitchDone
       \/ Receive
       \/ SampleForCommand
       \/ Handle

Application ==
    \/ \E t \in Timer : \/ xTimerStart(t)
                        \/ xTimerStop(t)
                        \/ xTimerChangePeriod(t)
                        \/ xTimerDelete(t)
                        \/ xTimerCreate(t)
    \/ xTimerPendFunctionCall

Next == TickInterrupt \/ TimerTask \/ Application

Spec == Init /\ [][Next]_vars
---------------------------------------------------------------------------
(* Properties *)

Sorted(list) ==
    \A i, j \in DOMAIN list : i <= j => xItemValue[list[i]] <= xItemValue[list[j]]

\* The types, and the lists: sorted, and no timer is in them twice.
TimersTypeOK ==
    /\ xTickCount \in Tick /\ xLastTime \in Tick /\ xTimeNow \in Tick
    /\ xItemValue \in [Timer -> Tick]
    /\ xTimerPeriodInTicks \in [Timer -> Tick \ {0}]
    /\ Len(xTimerQueue) <= QueueLength
    /\ IsInjective(pxCurrentTimerList \o pxOverflowTimerList)
    /\ Sorted(pxCurrentTimerList) /\ Sorted(pxOverflowTimerList)

OfApplication == xMessage.id \notin {"none", "restart"}

Service == INSTANCE TimerService WITH
    due <- [t \in Timer |-> Due(t)],
    period <- xTimerPeriodInTicks,
    inHand <- IF OfApplication THEN xMessage.timer ELSE None,
    since <- IF OfApplication THEN xMessage.age ELSE 0

(***************************************************************************)
(* Every callback comes when its timer is due and once for each period,    *)
(* across wraps of the tick count, however late the timer task is and      *)
(* whichever of its three ways of catching up it takes.                    *)
(***************************************************************************)
ImplementsTimerService == Service!ServiceSpec

(***************************************************************************)
(* The timer task does not sleep through anything: while it is blocked no  *)
(* command waits and no timer is due.                                      *)
(***************************************************************************)
SleepsThroughNothing ==
    pc = "blocked" => /\ xTimerQueue = <<>>
                      /\ \A t \in InLists : Due(t) > 0

\* A deleted timer is forgotten: nothing of it is left in the lists or on its way.
DeletedIsForgotten ==
    \A t \in Timer : ~exists[t] => t \notin InLists /\ \A m \in Messages : m.timer # t

(***************************************************************************)
(* The lists are sorted and hold no timer twice, none that was deleted is  *)
(* left anywhere, and configASSERT( xResult ) holds: the command with      *)
(* which the timer task starts a timer again finds room in the queue.      *)
(***************************************************************************)
TimersAreSound == TimersTypeOK /\ DeletedIsForgotten /\ ~halted

\* A timer that was stopped is not active until it is started again.
StopIsFinal == stopped \intersect InLists = {}
===========================================================================
