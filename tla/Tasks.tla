------------------------------ MODULE Tasks -------------------------------
(***************************************************************************)
(* The FreeRTOS v9 scheduler (Source/tasks.c) as it runs on the N200 port. *)
(*                                                                         *)
(* One processor: a step is taken by the running task (pxCurrentTCB), at   *)
(* its program point pc, or by an interrupt, when the threshold mth lets   *)
(* one in.  Code between two points where an interrupt may come in is one  *)
(* action.  portYIELD is an ECALL that switches at once, also inside a     *)
(* critical section: the task stops before its vPortExitCritical and does  *)
(* it when it runs again.                                                  *)
(*                                                                         *)
(* Lists are sets: stateList[t] is the list that holds t's xStateListItem. *)
(* The delayed lists are sorted by xItemValue, so the head is any task     *)
(* with the least value.  Which of several tasks of the highest priority   *)
(* runs next is left open here; module ReadyList has the round robin.      *)
(***************************************************************************)
EXTENDS Port

CONSTANTS
    Idle,            \* the idle task
    MaxPriority,     \* configMAX_PRIORITIES - 1
    TickMod,         \* number of values of TickType_t (2^32 in the build)
    OverflowMod,     \* bound: xNumOfOverflows is counted modulo this
    InitialPriority, \* priority each task is created with
    Unborn,          \* the tasks that xTaskCreate has not made yet
    MaxPended,       \* bound on the ticks that come while the scheduler is suspended
    MaxSuspendDepth, \* bound on nested vTaskSuspendAll calls
    MaxNotify,       \* bound on ulNotifiedValue
    Delays,          \* ticks given to vTaskDelay
    Periods,         \* increments given to vTaskDelayUntil
    NotifyWaits,     \* xTicksToWait given to ulTaskNotifyTake and xTaskNotifyWait
    NotifyActions,   \* eNotifyAction values used
    Notifiable,      \* tasks that others or interrupts notify
    IsrNotifiable,   \* tasks that an interrupt notifies
    Suspendable,     \* tasks that vTaskSuspend and vTaskResume are called for
    IsrResumable,    \* tasks that xTaskResumeFromISR is called for
    Deletable,       \* tasks that vTaskDelete is called for
    NewPriorities,   \* priorities given to vTaskPrioritySet
    ObjectLists,     \* the event lists of queues and event groups
    ObjectLabels     \* the program points in the calls on them

Tick == 0 .. TickMod - 1
portMAX_DELAY == TickMod - 1
Priority == 0 .. MaxPriority
SchedulerLabel == {"run", "userCritical", "delay", "delayUntil", "resumeAll", "replay", "exit",
                   "yield", "reset", "createYield", "take", "wait", "reap"}
NotifyAction == {"eNoAction", "eSetBits", "eIncrement",
                 "eSetValueWithOverwrite", "eSetValueWithoutOverwrite"}

ASSUME TasksAssumption ==
    /\ Idle \in Task
    /\ MaxPriority \in Nat
    /\ TickMod \in Nat \ {0, 1}
    /\ OverflowMod \in Nat \ {0}
    /\ InitialPriority \in [Task -> Priority]
    /\ InitialPriority[Idle] = 0
    /\ Unborn \subseteq Task \ {Idle}
    /\ MaxPended \in Nat
    /\ MaxSuspendDepth \in Nat \ {0}
    /\ MaxNotify \in Nat
    /\ Delays \subseteq Tick \ {0}
    /\ Periods \subseteq Tick \ {0}
    /\ NotifyWaits \subseteq Tick
    /\ NotifyActions \subseteq NotifyAction
    /\ Notifiable \subseteq Task
    /\ IsrNotifiable \subseteq Task
    /\ Suspendable \subseteq Task \ {Idle}
    /\ IsrResumable \subseteq Task \ {Idle}
    /\ Deletable \subseteq Task \ {Idle}
    /\ NewPriorities \subseteq Priority
    /\ {"none", "pending"} \intersect ObjectLists = {}
    /\ (SchedulerLabel \union {"yieldUnless"}) \intersect ObjectLabels = {}

VARIABLES
    pxCurrentTCB,          \* the running task
    xYieldPending,         \* a context switch was asked for and could not be done
    uxTopReadyPriority,    \* no ready task has a higher priority
    uxSchedulerSuspended,  \* depth of vTaskSuspendAll
    uxPendedTicks,         \* ticks that came while the scheduler was suspended
    xTickCount,
    xNumOfOverflows,
    xNextTaskUnblockTime,  \* no task of the delayed list wakes before it
    stateList,             \* [Task -> list holding xStateListItem]
    eventList,             \* [Task -> list holding xEventListItem]
    xItemValue,            \* [Task -> Tick], the wake time of a delayed task
    uxPriority,
    uxBasePriority,
    ucNotifyState,
    ulNotifiedValue,
    pc,                    \* [Task -> program point in the kernel call it makes]
    after,                 \* [Task -> program point that follows the current one]
    arg,                   \* [Task -> argument of the call]
    pxPreviousWakeTime,    \* [Task -> Tick], the variable a task gives vTaskDelayUntil
    userSuspended          \* history: tasks vTaskSuspend put aside and nobody resumed

switchVars == <<pxCurrentTCB, xYieldPending, uxTopReadyPriority>>
suspendVars == <<uxSchedulerSuspended, uxPendedTicks>>
timeVars == <<xTickCount, xNumOfOverflows, xNextTaskUnblockTime>>
listVars == <<stateList, eventList, xItemValue>>
priorityVars == <<uxPriority, uxBasePriority>>
notifyVars == <<ucNotifyState, ulNotifiedValue>>
controlVars == <<pc, after, arg>>
appVars == <<pxPreviousWakeTime, userSuspended>>

vars == <<portVars, switchVars, suspendVars, timeVars, listVars, priorityVars,
          notifyVars, controlVars, appVars>>

StateList == {"none", "ready", "delayed", "overflow", "suspended", "terminated", "freed"}
EventList == {"none", "pending"} \union ObjectLists
NotifyState == {"NOT_WAITING", "WAITING", "RECEIVED"}
Label == SchedulerLabel \union ObjectLabels
\* yieldUnless: yield, unless xTaskResumeAll already did.
Continuation == {"run", "yield", "yieldUnless", "take", "wait", "reap"} \union ObjectLabels
---------------------------------------------------------------------------
(* Operators of tasks.c *)

In(l) == {t \in Task : stateList[t] = l}
Ready == In("ready")
Alive == {t \in Task : stateList[t] \notin {"none", "terminated", "freed"}}
\* Variant: only the tasks more urgent than the running one.
PendingReadyUrgent ==
    {t \in Task : eventList[t] = "pending" /\ uxPriority[t] > uxPriority[pxCurrentTCB]}

PendingReady == {t \in Task : eventList[t] = "pending"}

\* Variant: a count wider than the wake times.
WrapWide(n) == n

\* TickType_t arithmetic: n is a sum of two ticks.
Wrap(n) == IF n < TickMod THEN n ELSE n - TickMod

\* Variant: forgets the tasks that stay in the list.
HeadValueNone(S, value) == portMAX_DELAY

\* The value of the head entry of a sorted list of the tasks S, or portMAX_DELAY.
HeadValue(S, value) ==
    IF S = {} THEN portMAX_DELAY
    ELSE CHOOSE w \in {value[t] : t \in S} : \A t \in S : w <= value[t]

prvResetNextTaskUnblockTime ==
    xNextTaskUnblockTime' = HeadValue({t \in Task : stateList'[t] = "delayed"}, xItemValue)

\* Variant: does not record the priority.
TopWithout(S, priority) == uxTopReadyPriority

\* prvAddTaskToReadyList records the priority of each task of S it adds.
TopWith(S, priority) ==
    CHOOSE p \in {uxTopReadyPriority} \union {priority[t] : t \in S} :
        p >= uxTopReadyPriority /\ \A t \in S : p >= priority[t]

\* taskSELECT_HIGHEST_PRIORITY_TASK looks down from top for a list that is not empty.
Selectable(top, ready, priority) ==
    {t \in ready : /\ priority[t] <= top
                   /\ \A u \in ready : priority[u] <= top => priority[u] <= priority[t]}

\* Variant: switches although the scheduler is suspended.
SwitchAlways(top) ==
    /\ xYieldPending' = FALSE
    /\ \E t \in Selectable(top, {u \in Task : stateList'[u] = "ready"}, uxPriority') :
           /\ pxCurrentTCB' = t
           /\ uxTopReadyPriority' = uxPriority'[t]

\* The ready tasks and their priorities are those after the step, top the highest recorded.
\* (An action states its other variables first: TLC reads stateList' and uxPriority' here.)
vTaskSwitchContext(top) ==
    IF uxSchedulerSuspended # 0
    THEN /\ xYieldPending' = TRUE
         /\ uxTopReadyPriority' = top
         /\ UNCHANGED pxCurrentTCB
    ELSE /\ xYieldPending' = FALSE
         /\ \E t \in Selectable(top, {u \in Task : stateList'[u] = "ready"}, uxPriority') :
                /\ pxCurrentTCB' = t
                /\ uxTopReadyPriority' = uxPriority'[t]

NoSwitch(top) ==
    /\ uxTopReadyPriority' = top
    /\ UNCHANGED <<pxCurrentTCB, xYieldPending>>

\* Variant: leaves xNextTaskUnblockTime as it is.
AddToDelayedListOnly(t, xTicksToWait, xCanBlockIndefinitely) ==
    LET xTimeToWake == Wrap(xTickCount + xTicksToWait) IN
    /\ xItemValue' = [xItemValue EXCEPT ![t] = xTimeToWake]
    /\ stateList' = [stateList EXCEPT ![t] = IF xTimeToWake < xTickCount THEN "overflow"
                                             ELSE "delayed"]
    /\ UNCHANGED xNextTaskUnblockTime

prvAddCurrentTaskToDelayedList(t, xTicksToWait, xCanBlockIndefinitely) ==
    LET xTimeToWake == Wrap(xTickCount + xTicksToWait) IN
    IF xTicksToWait = portMAX_DELAY /\ xCanBlockIndefinitely
    THEN /\ stateList' = [stateList EXCEPT ![t] = "suspended"]
         /\ UNCHANGED <<xItemValue, xNextTaskUnblockTime>>
    ELSE /\ xItemValue' = [xItemValue EXCEPT ![t] = xTimeToWake]
         /\ \/ /\ xTimeToWake < xTickCount
               /\ stateList' = [stateList EXCEPT ![t] = "overflow"]
               /\ UNCHANGED xNextTaskUnblockTime
            \/ /\ xTimeToWake >= xTickCount
               /\ stateList' = [stateList EXCEPT ![t] = "delayed"]
               /\ xNextTaskUnblockTime' = IF xTimeToWake < xNextTaskUnblockTime
                                          THEN xTimeToWake ELSE xNextTaskUnblockTime

\* taskSWITCH_DELAYED_LISTS exchanges the two delayed lists.
Switched(l) == CASE l = "delayed" -> "overflow"
                 [] l = "overflow" -> "delayed"
                 [] OTHER -> l

(***************************************************************************)
(* xTaskIncrementTick with the scheduler running: count the tick, exchange *)
(* the delayed lists when the count wraps, make the tasks ready whose time *)
(* has come.  The result of the function is TickNeedsSwitch.               *)
(***************************************************************************)
xTaskIncrementTick ==
    LET now == Wrap(xTickCount + 1)
        lists == IF now = 0 THEN [t \in Task |-> Switched(stateList[t])] ELSE stateList
        delayed == {t \in Task : lists[t] = "delayed"}
        unblockTime == IF now = 0 THEN HeadValue(delayed, xItemValue) ELSE xNextTaskUnblockTime
        woken == IF now >= unblockTime THEN {t \in delayed : xItemValue[t] <= now} ELSE {}
    IN  /\ xTickCount' = now
        /\ xNumOfOverflows' = IF now = 0 THEN (xNumOfOverflows + 1) % OverflowMod
                              ELSE xNumOfOverflows
        /\ stateList' = [t \in Task |-> IF t \in woken THEN "ready" ELSE lists[t]]
        /\ eventList' = [t \in Task |-> IF t \in woken THEN "none" ELSE eventList[t]]
        /\ xNextTaskUnblockTime' = IF now >= unblockTime
                                   THEN HeadValue(delayed \ woken, xItemValue)
                                   ELSE unblockTime
        /\ UNCHANGED xItemValue

\* The tasks a tick made ready.
WokenByTick == {t \in Task : stateList'[t] = "ready" /\ stateList[t] # "ready"}

\* Variant: a tick that ignores the more urgent task it made ready.
TickNeedsSwitchForPeers ==
    \/ \E t, u \in Task : /\ t # u
                          /\ stateList'[t] = "ready" /\ stateList'[u] = "ready"
                          /\ uxPriority[t] = uxPriority[pxCurrentTCB]
                          /\ uxPriority[u] = uxPriority[pxCurrentTCB]
    \/ xYieldPending

TickNeedsSwitch ==
    \/ \E t \in WokenByTick : uxPriority[t] >= uxPriority[pxCurrentTCB]
    \/ \E t, u \in Task : /\ t # u
                          /\ stateList'[t] = "ready" /\ stateList'[u] = "ready"
                          /\ uxPriority[t] = uxPriority[pxCurrentTCB]
                          /\ uxPriority[u] = uxPriority[pxCurrentTCB]
    \/ xYieldPending

prvTaskIsTaskSuspended(x) == stateList[x] = "suspended" /\ eventList[x] = "none"
---------------------------------------------------------------------------
(* Initial state: vTaskStartScheduler has just entered the first task. *)

Init ==
    /\ vPortSetup
    /\ stateList = [t \in Task |-> IF t \in Unborn THEN "none" ELSE "ready"]
    /\ eventList = [t \in Task |-> "none"]
    /\ xItemValue = [t \in Task |-> 0]
    /\ uxPriority = InitialPriority
    /\ uxBasePriority = InitialPriority
    /\ \E t \in Ready : /\ \A u \in Ready : InitialPriority[u] <= InitialPriority[t]
                        /\ pxCurrentTCB = t
                        /\ uxTopReadyPriority = InitialPriority[t]
    /\ xYieldPending = FALSE
    /\ uxSchedulerSuspended = 0
    /\ uxPendedTicks = 0
    /\ xTickCount = 0
    /\ xNumOfOverflows = 0
    /\ xNextTaskUnblockTime = portMAX_DELAY
    /\ ucNotifyState = [t \in Task |-> "NOT_WAITING"]
    /\ ulNotifiedValue = [t \in Task |-> 0]
    /\ pc = [t \in Task |-> "run"]
    /\ after = [t \in Task |-> "run"]
    /\ arg = [t \in Task |-> 0]
    /\ pxPreviousWakeTime = [t \in Task |-> 0]
    /\ userSuspended = {}
---------------------------------------------------------------------------
(* Parts of actions *)

At(t, label) == pxCurrentTCB = t /\ pc[t] = label
Calls(t) == At(t, "run") /\ t # Idle
Goto(t, label) == pc' = [pc EXCEPT ![t] = label]

(***************************************************************************)
(* The end of a critical section that ends in a yield if yields holds:     *)
(* either the task is switched out with the section open and leaves it     *)
(* when it runs next, or the section is over.                              *)
(***************************************************************************)
YieldThenExit(t, yields, next, top) ==
    \/ /\ yields
       /\ vPortEnterCritical(t)
       /\ vTaskSwitchContext(top)
       /\ Goto(t, "exit")
       /\ after' = [after EXCEPT ![t] = next]
    \/ /\ ~yields
       /\ WholeCriticalSection
       /\ NoSwitch(top)
       /\ Goto(t, next)
       /\ UNCHANGED after

\* vPortExitCritical of a section that the task was switched out in, or of xTaskResumeAll.
ExitCritical(t) ==
    /\ At(t, "exit")
    /\ vPortExitCritical(t)
    /\ Goto(t, after[t])
    /\ after' = [after EXCEPT ![t] = "run"]
    /\ UNCHANGED <<switchVars, suspendVars, timeVars, listVars, priorityVars, notifyVars,
                   arg, appVars>>

\* portYIELD outside a critical section: the last step of a call, or taskYIELD.
Yield(t) ==
    /\ \/ At(t, "yield")
       \/ Calls(t)
    /\ UNCHANGED <<portVars, suspendVars, timeVars, listVars, priorityVars, notifyVars,
                   after, arg, appVars>>
    /\ vTaskSwitchContext(uxTopReadyPriority)
    /\ Goto(t, "run")
---------------------------------------------------------------------------
(* taskENTER_CRITICAL and taskEXIT_CRITICAL by the application *)

UserEnterCritical(t) ==
    /\ Calls(t) \/ At(t, "userCritical")
    /\ held[t] < MaxNesting
    /\ vPortEnterCritical(t)
    /\ Goto(t, "userCritical")
    /\ UNCHANGED <<switchVars, suspendVars, timeVars, listVars, priorityVars, notifyVars,
                   after, arg, appVars>>

UserExitCritical(t) ==
    /\ At(t, "userCritical")
    /\ vPortExitCritical(t)
    /\ Goto(t, IF held[t] = 1 THEN "run" ELSE "userCritical")
    /\ UNCHANGED <<switchVars, suspendVars, timeVars, listVars, priorityVars, notifyVars,
                   after, arg, appVars>>
---------------------------------------------------------------------------
(* vTaskSuspendAll and xTaskResumeAll *)

vTaskSuspendAll(t) ==
    /\ Calls(t)
    /\ uxSchedulerSuspended < MaxSuspendDepth
    /\ uxSchedulerSuspended' = uxSchedulerSuspended + 1
    /\ UNCHANGED <<portVars, switchVars, uxPendedTicks, timeVars, listVars, priorityVars,
                   notifyVars, controlVars, appVars>>

UserResumeAll(t) ==
    /\ Calls(t)
    /\ uxSchedulerSuspended > 0
    /\ Goto(t, "resumeAll")
    /\ after' = [after EXCEPT ![t] = "run"]
    /\ UNCHANGED <<portVars, switchVars, suspendVars, timeVars, listVars, priorityVars,
                   notifyVars, arg, appVars>>

\* The critical section of xTaskResumeAll up to the loop over the pended ticks.
MovePendingReady(t) ==
    /\ At(t, "resumeAll")
    /\ vPortEnterCritical(t)
    /\ uxSchedulerSuspended' = uxSchedulerSuspended - 1
    /\ IF uxSchedulerSuspended = 1
       THEN /\ stateList' = [u \in Task |-> IF u \in PendingReady THEN "ready" ELSE stateList[u]]
            /\ eventList' = [u \in Task |-> IF u \in PendingReady THEN "none" ELSE eventList[u]]
            /\ uxTopReadyPriority' = TopWith(PendingReady, uxPriority)
            /\ xYieldPending' = \/ xYieldPending
                                \/ \E u \in PendingReady : uxPriority[u] >= uxPriority[t]
            /\ IF PendingReady = {} THEN UNCHANGED xNextTaskUnblockTime
                                    ELSE prvResetNextTaskUnblockTime
            /\ Goto(t, "replay")
            /\ UNCHANGED after
       ELSE /\ Goto(t, "exit")
            /\ after' = [after EXCEPT ![t] = IF @ = "yieldUnless" THEN "yield" ELSE @]
            /\ UNCHANGED <<stateList, eventList, uxTopReadyPriority, xYieldPending,
                           xNextTaskUnblockTime>>
    /\ UNCHANGED <<pxCurrentTCB, uxPendedTicks, xTickCount, xNumOfOverflows, xItemValue,
                   priorityVars, notifyVars, arg, appVars>>

\* One turn of its loop: a tick that came while the scheduler was suspended.
ReplayTick(t) ==
    /\ At(t, "replay")
    /\ uxPendedTicks > 0
    /\ uxPendedTicks' = uxPendedTicks - 1
    /\ xTaskIncrementTick
    /\ uxTopReadyPriority' = TopWith(WokenByTick, uxPriority)
    /\ xYieldPending' = TickNeedsSwitch
    /\ UNCHANGED <<portVars, pxCurrentTCB, uxSchedulerSuspended, priorityVars, notifyVars,
                   controlVars, appVars>>

\* Variant: does not replay the ticks.
FinishResumeAllAtOnce(t) ==
    /\ At(t, "replay")
    /\ UNCHANGED <<portVars, suspendVars, timeVars, listVars, priorityVars, notifyVars,
                   arg, appVars>>
    /\ NoSwitch(uxTopReadyPriority)
    /\ Goto(t, "exit")
    /\ after' = [after EXCEPT ![t] = IF @ = "yieldUnless" THEN "yield" ELSE @]

\* Its end: xAlreadyYielded is TRUE when it yields, and the caller then does not.
FinishResumeAll(t) ==
    /\ At(t, "replay")
    /\ UNCHANGED <<portVars, suspendVars, timeVars, listVars, priorityVars, notifyVars,
                   arg, appVars>>
    /\ uxPendedTicks = 0
    /\ \/ /\ xYieldPending
          /\ vTaskSwitchContext(uxTopReadyPriority)
          /\ after' = [after EXCEPT ![t] = IF @ = "yieldUnless" THEN "run" ELSE @]
       \/ /\ ~xYieldPending
          /\ NoSwitch(uxTopReadyPriority)
          /\ after' = [after EXCEPT ![t] = IF @ = "yieldUnless" THEN "yield" ELSE @]
    /\ Goto(t, "exit")
---------------------------------------------------------------------------
(* vTaskDelay and vTaskDelayUntil: vTaskSuspendAll, the move to a delayed  *)
(* list, xTaskResumeAll, and a yield unless that already did one.          *)

vTaskDelay(t) ==
    /\ Calls(t)
    /\ uxSchedulerSuspended = 0
    /\ \E n \in Delays : arg' = [arg EXCEPT ![t] = n]
    /\ uxSchedulerSuspended' = 1
    /\ Goto(t, "delay")
    /\ UNCHANGED <<portVars, switchVars, uxPendedTicks, timeVars, listVars, priorityVars,
                   notifyVars, after, appVars>>

DelayCurrent(t) ==
    /\ At(t, "delay")
    /\ prvAddCurrentTaskToDelayedList(t, arg[t], FALSE)
    /\ Goto(t, "resumeAll")
    /\ arg' = [arg EXCEPT ![t] = 0]
    /\ after' = [after EXCEPT ![t] = "yieldUnless"]
    /\ UNCHANGED <<portVars, switchVars, suspendVars, xTickCount, xNumOfOverflows, eventList,
                   priorityVars, notifyVars, appVars>>

vTaskDelayUntil(t) ==
    /\ Calls(t)
    /\ uxSchedulerSuspended = 0
    /\ \E n \in Periods : arg' = [arg EXCEPT ![t] = n]
    /\ uxSchedulerSuspended' = 1
    /\ Goto(t, "delayUntil")
    /\ UNCHANGED <<portVars, switchVars, uxPendedTicks, timeVars, listVars, priorityVars,
                   notifyVars, after, appVars>>

\* xShouldDelay: the wake time still lies ahead, whichever of count and wake time wrapped.
ShouldDelay(xTimeToWake, previous) ==
    IF xTickCount < previous
    THEN xTimeToWake < previous /\ xTimeToWake > xTickCount
    ELSE xTimeToWake < previous \/ xTimeToWake > xTickCount

DelayCurrentUntil(t) ==
    LET previous == pxPreviousWakeTime[t]
        xTimeToWake == Wrap(previous + arg[t])
    IN  /\ At(t, "delayUntil")
        /\ pxPreviousWakeTime' = [pxPreviousWakeTime EXCEPT ![t] = xTimeToWake]
        /\ IF ShouldDelay(xTimeToWake, previous)
           THEN prvAddCurrentTaskToDelayedList(
                    t, Wrap(xTimeToWake + TickMod - xTickCount), FALSE)
           ELSE UNCHANGED <<stateList, xItemValue, xNextTaskUnblockTime>>
        /\ Goto(t, "resumeAll")
        /\ arg' = [arg EXCEPT ![t] = 0]
        /\ after' = [after EXCEPT ![t] = "yieldUnless"]
        /\ UNCHANGED <<portVars, switchVars, suspendVars, xTickCount, xNumOfOverflows, eventList,
                       priorityVars, notifyVars, userSuspended>>
---------------------------------------------------------------------------
(* vTaskSuspend, vTaskResume, xTaskResumeFromISR *)

\* The first critical section; configASSERT forbids suspending oneself under vTaskSuspendAll.
vTaskSuspend(t, x) ==
    /\ Calls(t)
    /\ x \in Alive
    /\ x = t => uxSchedulerSuspended = 0
    /\ WholeCriticalSection
    /\ stateList' = [stateList EXCEPT ![x] = "suspended"]
    /\ eventList' = [eventList EXCEPT ![x] = "none"]
    /\ userSuspended' = userSuspended \union {x}
    /\ Goto(t, "reset")
    /\ after' = [after EXCEPT ![t] = IF x = t THEN "yield" ELSE "run"]
    /\ UNCHANGED <<switchVars, suspendVars, timeVars, xItemValue, priorityVars, notifyVars,
                   arg, pxPreviousWakeTime>>

\* The second one.
ResetUnblockTime(t) ==
    /\ At(t, "reset")
    /\ WholeCriticalSection
    /\ xNextTaskUnblockTime' = HeadValue(In("delayed"), xItemValue)
    /\ Goto(t, after[t])
    /\ after' = [after EXCEPT ![t] = "run"]
    /\ UNCHANGED <<switchVars, suspendVars, xTickCount, xNumOfOverflows, listVars,
                   priorityVars, notifyVars, arg, appVars>>

vTaskResume(t, x) ==
    /\ Calls(t)
    /\ UNCHANGED <<suspendVars, timeVars, eventList, xItemValue, priorityVars, notifyVars,
                   arg, pxPreviousWakeTime>>
    /\ x # t
    /\ IF prvTaskIsTaskSuspended(x)
       THEN /\ stateList' = [stateList EXCEPT ![x] = "ready"]
            /\ userSuspended' = userSuspended \ {x}
            /\ YieldThenExit(t, uxPriority[x] >= uxPriority[t], "run",
                             TopWith({x}, uxPriority))
       ELSE /\ YieldThenExit(t, FALSE, "run", uxTopReadyPriority)
            /\ UNCHANGED <<stateList, userSuspended>>

\* The interrupt yields on leaving if the call returned pdTRUE.
xTaskResumeFromISR(x) ==
    /\ InterruptMaskSection
    /\ UNCHANGED <<suspendVars, timeVars, xItemValue, priorityVars, notifyVars,
                   controlVars, pxPreviousWakeTime>>
    /\ prvTaskIsTaskSuspended(x)
    /\ userSuspended' = userSuspended \ {x}
    /\ \/ /\ uxSchedulerSuspended = 0
          /\ stateList' = [stateList EXCEPT ![x] = "ready"]
          /\ LET top == TopWith({x}, uxPriority) IN
             IF uxPriority[x] >= uxPriority[pxCurrentTCB] THEN vTaskSwitchContext(top)
                                                          ELSE NoSwitch(top)
          /\ UNCHANGED eventList
       \/ /\ uxSchedulerSuspended > 0
          /\ eventList' = [eventList EXCEPT ![x] = "pending"]
          /\ UNCHANGED <<stateList, switchVars>>
---------------------------------------------------------------------------
(* vTaskPrioritySet, xTaskCreate, vTaskDelete *)

vTaskPrioritySet(t, x, p) ==
    LET priority == IF uxBasePriority[x] = uxPriority[x]
                    THEN [uxPriority EXCEPT ![x] = p] ELSE uxPriority
        yields == IF p > uxBasePriority[x] THEN x # t /\ p >= uxPriority[t] ELSE x = t
    IN  /\ Calls(t)
        /\ UNCHANGED <<suspendVars, timeVars, eventList, xItemValue, notifyVars, arg, appVars>>
        /\ x \in Alive
        /\ p # uxBasePriority[x]
        /\ uxPriority' = priority
        /\ uxBasePriority' = [uxBasePriority EXCEPT ![x] = p]
        /\ UNCHANGED stateList
        /\ YieldThenExit(t, yields, "run", TopWith({x} \intersect Ready, priority))

\* prvAddNewTaskToReadyList puts the new task into the ready list ...
xTaskCreate(t, x) ==
    /\ Calls(t)
    /\ stateList[x] = "none"
    /\ WholeCriticalSection
    /\ stateList' = [stateList EXCEPT ![x] = "ready"]
    /\ NoSwitch(TopWith({x}, uxPriority))
    /\ Goto(t, "createYield")
    /\ arg' = [arg EXCEPT ![t] = x]
    /\ UNCHANGED <<suspendVars, timeVars, eventList, xItemValue, priorityVars, notifyVars,
                   after, appVars>>

\* ... and, its critical section left, yields to it if it is the more urgent one.
CreateYield(t) ==
    /\ At(t, "createYield")
    /\ UNCHANGED <<portVars, suspendVars, timeVars, listVars, priorityVars, notifyVars,
                   after, appVars>>
    /\ IF uxPriority[t] < uxPriority[arg[t]] THEN vTaskSwitchContext(uxTopReadyPriority)
                                             ELSE NoSwitch(uxTopReadyPriority)
    /\ Goto(t, "run")
    /\ arg' = [arg EXCEPT ![t] = 0]

\* A task cannot free its own stack: it waits in the termination list for the idle task.
vTaskDelete(t, x) ==
    /\ Calls(t)
    /\ x \in Alive
    /\ x = t => uxSchedulerSuspended = 0
    /\ WholeCriticalSection
    /\ stateList' = [stateList EXCEPT ![x] = IF x = t THEN "terminated" ELSE "freed"]
    /\ eventList' = [eventList EXCEPT ![x] = "none"]
    /\ userSuspended' = userSuspended \ {x}
    /\ IF x = t THEN UNCHANGED xNextTaskUnblockTime ELSE prvResetNextTaskUnblockTime
    /\ Goto(t, IF x = t THEN "yield" ELSE "run")
    /\ UNCHANGED <<switchVars, suspendVars, xTickCount, xNumOfOverflows, xItemValue,
                   priorityVars, notifyVars, after, arg, pxPreviousWakeTime>>

\* prvCheckTasksWaitingTermination of the idle task: look under vTaskSuspendAll ...
IdleCheckTermination(t) ==
    /\ At(t, "run") /\ t = Idle
    /\ In("terminated") # {}
    /\ uxSchedulerSuspended' = uxSchedulerSuspended + 1
    /\ Goto(t, "resumeAll")
    /\ after' = [after EXCEPT ![t] = "reap"]
    /\ UNCHANGED <<portVars, switchVars, uxPendedTicks, timeVars, listVars, priorityVars,
                   notifyVars, arg, appVars>>

\* ... then take a task from the list in a critical section and free it.
IdleReap(t) ==
    /\ At(t, "reap")
    /\ WholeCriticalSection
    /\ \E x \in In("terminated") : stateList' = [stateList EXCEPT ![x] = "freed"]
    /\ Goto(t, "run")
    /\ UNCHANGED <<switchVars, suspendVars, timeVars, eventList, xItemValue, priorityVars,
                   notifyVars, after, arg, appVars>>
---------------------------------------------------------------------------
(* Direct to task notifications *)

\* First half of ulTaskNotifyTake: nothing to take, so wait.
ulTaskNotifyTake(t, n) ==
    LET waits == ulNotifiedValue[t] = 0 IN
    /\ Calls(t)
    /\ UNCHANGED <<suspendVars, xTickCount, xNumOfOverflows, eventList, priorityVars,
                   ulNotifiedValue, arg, appVars>>
    /\ uxSchedulerSuspended = 0
    /\ ucNotifyState' = IF waits THEN [ucNotifyState EXCEPT ![t] = "WAITING"] ELSE ucNotifyState
    /\ IF waits /\ n > 0
       THEN prvAddCurrentTaskToDelayedList(t, n, TRUE)
       ELSE UNCHANGED <<stateList, xItemValue, xNextTaskUnblockTime>>
    /\ YieldThenExit(t, waits /\ n > 0, "take", uxTopReadyPriority)

\* Second half, with xClearCountOnExit true or false.
TakeNotification(t) ==
    /\ At(t, "take")
    /\ WholeCriticalSection
    /\ \E v \in {0, ulNotifiedValue[t] - 1} :
           ulNotifiedValue' = IF ulNotifiedValue[t] = 0 THEN ulNotifiedValue
                              ELSE [ulNotifiedValue EXCEPT ![t] = v]
    /\ ucNotifyState' = [ucNotifyState EXCEPT ![t] = "NOT_WAITING"]
    /\ Goto(t, "run")
    /\ UNCHANGED <<switchVars, suspendVars, timeVars, listVars, priorityVars, after, arg, appVars>>

\* First half of xTaskNotifyWait, which clears no bit or every bit on entry.
xTaskNotifyWait(t, n) ==
    LET waits == ucNotifyState[t] # "RECEIVED" IN
    /\ Calls(t)
    /\ UNCHANGED <<suspendVars, xTickCount, xNumOfOverflows, eventList, priorityVars,
                   arg, appVars>>
    /\ uxSchedulerSuspended = 0
    /\ IF waits
       THEN /\ ucNotifyState' = [ucNotifyState EXCEPT ![t] = "WAITING"]
            /\ \E v \in {0, ulNotifiedValue[t]} :
                   ulNotifiedValue' = [ulNotifiedValue EXCEPT ![t] = v]
       ELSE UNCHANGED notifyVars
    /\ IF waits /\ n > 0
       THEN prvAddCurrentTaskToDelayedList(t, n, TRUE)
       ELSE UNCHANGED <<stateList, xItemValue, xNextTaskUnblockTime>>
    /\ YieldThenExit(t, waits /\ n > 0, "wait", uxTopReadyPriority)

\* Second half: a task still WAITING timed out.
FinishNotifyWait(t) ==
    /\ At(t, "wait")
    /\ WholeCriticalSection
    /\ IF ucNotifyState[t] = "WAITING" THEN UNCHANGED ulNotifiedValue
       ELSE \E v \in {0, ulNotifiedValue[t]} :
                ulNotifiedValue' = [ulNotifiedValue EXCEPT ![t] = v]
    /\ ucNotifyState' = [ucNotifyState EXCEPT ![t] = "NOT_WAITING"]
    /\ Goto(t, "run")
    /\ UNCHANGED <<switchVars, suspendVars, timeVars, listVars, priorityVars, after, arg, appVars>>

\* What eAction makes of the notification value v: the bit set is bit 0, the value written 1.
Updated(action, v, state) ==
    CASE action = "eSetBits" -> IF v % 2 = 0 THEN v + 1 ELSE v
      [] action = "eIncrement" -> v + 1
      [] action = "eSetValueWithOverwrite" -> 1
      [] action = "eSetValueWithoutOverwrite" -> IF state = "RECEIVED" THEN v ELSE 1
      [] OTHER -> v

\* The part that xTaskGenericNotify and its interrupt-safe twins share.
RecordNotification(x, action) ==
    LET v == Updated(action, ulNotifiedValue[x], ucNotifyState[x]) IN
    /\ v <= MaxNotify
    /\ ulNotifiedValue' = [ulNotifiedValue EXCEPT ![x] = v]
    /\ ucNotifyState' = [ucNotifyState EXCEPT ![x] = "RECEIVED"]

xTaskGenericNotify(t, x, action) ==
    /\ Calls(t)
    /\ UNCHANGED <<suspendVars, timeVars, eventList, xItemValue, priorityVars, arg, appVars>>
    /\ x \in Alive
    /\ RecordNotification(x, action)
    /\ IF ucNotifyState[x] = "WAITING"
       THEN /\ stateList' = [stateList EXCEPT ![x] = "ready"]
            /\ YieldThenExit(t, uxPriority[x] > uxPriority[t], "run", TopWith({x}, uxPriority))
       ELSE /\ UNCHANGED stateList
            /\ YieldThenExit(t, FALSE, "run", uxTopReadyPriority)

(***************************************************************************)
(* xTaskGenericNotifyFromISR and vTaskNotifyGiveFromISR.  The interrupt    *)
(* either gives pxHigherPriorityTaskWoken and yields on leaving when it    *)
(* was set, or gives NULL and xYieldPending is set in its place.           *)
(***************************************************************************)
NotifyFromISR(x, action) ==
    LET waiting == ucNotifyState[x] = "WAITING"
        top == IF waiting /\ uxSchedulerSuspended = 0 THEN TopWith({x}, uxPriority)
                                                      ELSE uxTopReadyPriority
    IN  /\ InterruptMaskSection
        /\ UNCHANGED <<suspendVars, timeVars, xItemValue, priorityVars, controlVars, appVars>>
        /\ x \in Alive
        /\ RecordNotification(x, action)
        /\ stateList' = IF waiting /\ uxSchedulerSuspended = 0
                        THEN [stateList EXCEPT ![x] = "ready"] ELSE stateList
        /\ eventList' = IF waiting /\ uxSchedulerSuspended > 0
                        THEN [eventList EXCEPT ![x] = "pending"] ELSE eventList
        /\ IF waiting /\ uxPriority[x] > uxPriority[pxCurrentTCB]
           THEN \/ vTaskSwitchContext(top)
                \/ /\ xYieldPending' = TRUE
                   /\ uxTopReadyPriority' = top
                   /\ UNCHANGED pxCurrentTCB
           ELSE NoSwitch(top)

\* Variant: also clears the state of a task that waits.
NotifyStateClearAny(t, x) ==
    /\ Calls(t)
    /\ WholeCriticalSection
    /\ ucNotifyState' = [ucNotifyState EXCEPT ![x] = "NOT_WAITING"]
    /\ UNCHANGED <<switchVars, suspendVars, timeVars, listVars, priorityVars, ulNotifiedValue,
                   controlVars, appVars>>

xTaskNotifyStateClear(t, x) ==
    /\ Calls(t)
    /\ ucNotifyState[x] = "RECEIVED"
    /\ WholeCriticalSection
    /\ ucNotifyState' = [ucNotifyState EXCEPT ![x] = "NOT_WAITING"]
    /\ UNCHANGED <<switchVars, suspendVars, timeVars, listVars, priorityVars, ulNotifiedValue,
                   controlVars, appVars>>
---------------------------------------------------------------------------
(* The machine timer interrupt: MTIME_HANDLER and vPortSysTickHandler *)

TimerTick ==
    /\ InterruptsEnabled
    /\ UNCHANGED <<portVars, suspendVars, priorityVars, notifyVars, controlVars, appVars>>
    /\ uxSchedulerSuspended = 0
    /\ xTaskIncrementTick
    /\ LET top == TopWith(WokenByTick, uxPriority) IN
       IF TickNeedsSwitch THEN vTaskSwitchContext(top) ELSE NoSwitch(top)

\* With the scheduler suspended the tick is only counted; the yield it may ask for waits too.
TimerTickPended ==
    /\ InterruptsEnabled
    /\ uxSchedulerSuspended > 0
    /\ uxPendedTicks < MaxPended
    /\ uxPendedTicks' = uxPendedTicks + 1
    /\ UNCHANGED <<portVars, switchVars, uxSchedulerSuspended, timeVars, listVars,
                   priorityVars, notifyVars, controlVars, appVars>>
---------------------------------------------------------------------------
\* The rest of a kernel call, once begun.
Continue(t) ==
    \/ ExitCritical(t)
    \/ MovePendingReady(t)
    \/ ReplayTick(t)
    \/ FinishResumeAll(t)
    \/ DelayCurrent(t)
    \/ DelayCurrentUntil(t)
    \/ ResetUnblockTime(t)
    \/ CreateYield(t)
    \/ IdleReap(t)
    \/ TakeNotification(t)
    \/ FinishNotifyWait(t)

\* A call the running task may make.
Call(t) ==
    \/ UserEnterCritical(t)
    \/ UserExitCritical(t)
    \/ vTaskSuspendAll(t)
    \/ UserResumeAll(t)
    \/ vTaskDelay(t)
    \/ vTaskDelayUntil(t)
    \/ \E x \in Suspendable : vTaskSuspend(t, x) \/ vTaskResume(t, x)
    \/ \E x \in Task \ {Idle}, p \in NewPriorities : vTaskPrioritySet(t, x, p)
    \/ \E x \in Unborn : xTaskCreate(t, x)
    \/ \E x \in Deletable : vTaskDelete(t, x)
    \/ IdleCheckTermination(t)
    \/ \E n \in NotifyWaits : ulTaskNotifyTake(t, n) \/ xTaskNotifyWait(t, n)
    \/ \E x \in Notifiable : \/ \E action \in NotifyActions : xTaskGenericNotify(t, x, action)
                             \/ xTaskNotifyStateClear(t, x)

Interrupt ==
    \/ TimerTick
    \/ TimerTickPended
    \/ \E x \in IsrNotifiable, action \in NotifyActions : NotifyFromISR(x, action)
    \/ \E x \in IsrResumable : xTaskResumeFromISR(x)

Next == Interrupt \/ \E t \in Task : Continue(t) \/ Yield(t) \/ Call(t)

Spec == Init /\ [][Next]_vars
---------------------------------------------------------------------------
(* Properties *)

\* Every variable keeps its type, group by group.
SwitchTypeOK ==
    /\ pxCurrentTCB \in Task
    /\ xYieldPending \in BOOLEAN
    /\ uxTopReadyPriority \in Priority

SuspendTypeOK ==
    /\ uxSchedulerSuspended \in Nat
    /\ uxPendedTicks \in Nat

TimeTypeOK ==
    /\ xTickCount \in Tick
    /\ xNumOfOverflows \in Nat
    /\ xNextTaskUnblockTime \in Tick

ListTypeOK ==
    /\ stateList \in [Task -> StateList]
    /\ eventList \in [Task -> EventList]
    /\ xItemValue \in [Task -> Tick]

PriorityTypeOK ==
    /\ uxPriority \in [Task -> Priority]
    /\ uxBasePriority \in [Task -> Priority]

NotifyTypeOK ==
    /\ ucNotifyState \in [Task -> NotifyState]
    /\ ulNotifiedValue \in [Task -> Nat]

ControlTypeOK ==
    /\ pc \in [Task -> Label]
    /\ after \in [Task -> Continuation]
    /\ arg \in [Task -> Tick \union Task]

AppTypeOK ==
    /\ pxPreviousWakeTime \in [Task -> Tick]
    /\ userSuspended \in SUBSET Task

TypeOK ==
    /\ PortTypeOK
    /\ SwitchTypeOK
    /\ SuspendTypeOK
    /\ TimeTypeOK
    /\ ListTypeOK
    /\ PriorityTypeOK
    /\ NotifyTypeOK
    /\ ControlTypeOK
    /\ AppTypeOK

(***************************************************************************)
(* What the program point of a task says of the rest of the state: the     *)
(* sections it has open, that it runs under vTaskSuspendAll, the type of   *)
(* the argument it keeps, what follows.  With TypeOK this is inductive.     *)
(***************************************************************************)
SectionsByLabel ==
    \A t \in Task :
        /\ pc[t] \in {"exit", "replay"} => held[t] = 1
        /\ pc[t] = "userCritical" => held[t] > 0
        /\ pc[t] \notin {"exit", "replay", "userCritical"} => held[t] = 0

SuspensionByLabel ==
    \A t \in Task : pc[t] \in {"delay", "delayUntil", "resumeAll"} =>
        t = pxCurrentTCB /\ uxSchedulerSuspended > 0

ArgumentByLabel ==
    \A t \in Task : pc[t] \in {"delay", "delayUntil"} => arg[t] \in Tick \ {0}

ContinuationByLabel ==
    \A t \in Task : after[t] = "yieldUnless" =>
        pc[t] \in {"resumeAll", "replay"} \union ObjectLabels

ControlInv ==
    /\ SectionsByLabel
    /\ SuspensionByLabel
    /\ ArgumentByLabel
    /\ ContinuationByLabel

(***************************************************************************)
(* The global uxCriticalNesting is the number of critical sections that    *)
(* all tasks together have open, however they were interleaved by yields   *)
(* inside sections (vPortEnterCritical, vPortExitCritical).                *)
(***************************************************************************)
NestingIsSum == uxCriticalNesting = Cardinality(OpenSections)

(***************************************************************************)
(* While any task is inside a critical section, switched out or not, no    *)
(* interrupt that calls the kernel is let in: what a task does after the   *)
(* yield in its section is as protected as what it did before.             *)
(***************************************************************************)
SectionsMaskInterrupts == \A t \in Task : held[t] > 0 => ~InterruptsEnabled

(***************************************************************************)
(* Preemption: a ready task that is more urgent than the running one       *)
(* never goes unnoticed.  Either a switch is pending, to be made on the    *)
(* way out of an interrupt, a tick or xTaskResumeAll, or the task was just *)
(* created and xTaskCreate is about to yield to it.  This holds also while *)
(* the scheduler is suspended and while the running task blocks.           *)
(***************************************************************************)
HighestPriorityRuns ==
    ~xYieldPending =>
        \A u \in Ready :
            \/ uxPriority[u] <= uxPriority[pxCurrentTCB]
            \/ pc[pxCurrentTCB] = "createYield" /\ u = arg[pxCurrentTCB]

\* taskSELECT_HIGHEST_PRIORITY_TASK looks down from uxTopReadyPriority and asserts that it
\* finds a list that is not empty: it must start above every ready task, and there must be one.
SelectionFindsTask ==
    /\ Idle \in Ready
    /\ \A u \in Ready : uxPriority[u] <= uxTopReadyPriority

(***************************************************************************)
(* No oversleeping and no lost wake-up across the wrap of the tick count:  *)
(* a task still in the delayed list has its wake time ahead, one in the    *)
(* overflow list behind (that is, after the wrap), and the cached          *)
(* xNextTaskUnblockTime is never later than a wake time it stands for.     *)
(***************************************************************************)
DelayedAreNotDue ==
    \A t \in Task :
        /\ stateList[t] = "delayed" => /\ xItemValue[t] > xTickCount
                                       /\ xNextTaskUnblockTime <= xItemValue[t]
        /\ stateList[t] = "overflow" => xItemValue[t] < xTickCount

\* A tick makes a delayed task ready at its wake time exactly, also a tick replayed by xTaskResumeAll.
WakesOnTheTick ==
    [][\A t \in Task :
          /\ xTickCount' # xTickCount
          /\ stateList[t] \in {"delayed", "overflow"} /\ stateList'[t] = "ready"
          => xItemValue[t] = xTickCount']_vars

(***************************************************************************)
(* What interrupts put off while the scheduler was suspended is done when  *)
(* xTaskResumeAll is over: no task stays in xPendingReadyList and no tick  *)
(* stays pended once the scheduler runs again.                             *)
(***************************************************************************)
NothingLeftPending ==
    uxSchedulerSuspended = 0 =>
        /\ PendingReady = {}
        /\ uxPendedTicks > 0 => pc[pxCurrentTCB] = "replay"

(***************************************************************************)
(* vTaskSuspendAll gives the lists to the running task: it is not switched *)
(* out, and no interrupt touches the ready and delayed lists or the time.  *)
(***************************************************************************)
SuspendedSchedulerIsolates ==
    [][uxSchedulerSuspended > 0 =>
          /\ pxCurrentTCB' # pxCurrentTCB => uxSchedulerSuspended' = 0
          /\ Interrupt => UNCHANGED <<stateList, xItemValue, xTickCount, xNextTaskUnblockTime>>]_vars

(***************************************************************************)
(* No lost notification: a task that is blocked in ulTaskNotifyTake or     *)
(* xTaskNotifyWait, and that nobody suspended, is WAITING, so the next     *)
(* notification finds it; and none came that it has not seen.              *)
(***************************************************************************)
BlockedWaitersAreNotified ==
    \A t \in Task :
        /\ pc[t] = "exit" /\ after[t] \in {"take", "wait"}
        /\ stateList[t] \in {"delayed", "overflow", "suspended"}
        /\ t \notin PendingReady \union userSuspended
        => /\ ucNotifyState[t] = "WAITING"
           /\ after[t] = "take" => ulNotifiedValue[t] = 0

\* What is put off while the scheduler is suspended is done: a task that an interrupt put into
\* xPendingReadyList leaves it, and a switch is made, by the next tick at the latest.
PutOffWorkIsDone ==
    /\ \A t \in Task : eventList[t] = "pending" ~> eventList[t] = "none"
    /\ xYieldPending ~> ~xYieldPending
===========================================================================
