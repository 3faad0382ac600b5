---------------------------- MODULE EventGroups ---------------------------
(***************************************************************************)
(* An event group (Source/event_groups.c) on top of the scheduler.         *)
(*                                                                         *)
(* Tasks wait for bits in an unordered event list.  What a task waits for  *)
(* is kept in the value of its event list item, and the task that sets the *)
(* bits leaves there what it found.  The bits change under vTaskSuspendAll *)
(* (or in a critical section); interrupts defer their changes to a task.   *)
(*                                                                         *)
(* call[t] is the call that task t is in; at the program point "run" it    *)
(* has been blocked and looks at what it was woken for.                    *)
(***************************************************************************)
EXTENDS Tasks

CONSTANTS
    Bit,             \* the bits of the group
    Group,           \* its event list
    BitsToSet,       \* sets of bits given to xEventGroupSetBits
    BitsToClear,     \* sets of bits given to xEventGroupClearBits
    BitsToWaitFor,   \* sets of bits given to xEventGroupWaitBits
    BitWaits,        \* xTicksToWait given to it
    SettingTasks,    \* the tasks that set and clear bits
    WaitingTasks,    \* the tasks that wait for bits
    Member,          \* the tasks that meet in xEventGroupSync
    SyncBit          \* [Member -> the bit that it sets there]

GroupLabel == {"setBits", "testBits", "syncSet", "syncTest"}

ASSUME GroupAssumption ==
    /\ Group \in ObjectLists
    /\ GroupLabel \subseteq ObjectLabels
    /\ BitsToSet \subseteq SUBSET Bit
    /\ BitsToClear \subseteq SUBSET Bit
    /\ BitsToWaitFor \subseteq SUBSET Bit \ {{}}
    /\ BitWaits \subseteq Tick
    /\ SettingTasks \subseteq Task
    /\ WaitingTasks \subseteq Task
    /\ Member \subseteq Task
    /\ SyncBit \in [Member -> Bit]

VARIABLES
    uxEventBits,  \* the bits that are set
    eventValue,   \* [Task -> what the setter left in the event list item, or NotReleased]
    uxReturn,     \* what the call that ended in the last step returned
    call,         \* [Task -> the call it is in]
    due           \* history: [Task -> ticks until its call may give up]

groupVars == <<uxEventBits, eventValue, uxReturn, call, due>>
allVars == <<vars, groupVars>>

NoCall == [op |-> "none"]
\* eventUNBLOCKED_DUE_TO_BIT_SET is not set in the value.
NotReleased == [released |-> FALSE]
SyncBits == {SyncBit[t] : t \in Member}

\* prvTestWaitCondition
Met(c, bits) == IF c.all THEN c.bits \subseteq bits ELSE c.bits \intersect bits # {}

Waiting == {t \in Task : eventList[t] = Group}

ReturnBits(t, bits) ==
    /\ call' = [call EXCEPT ![t] = NoCall]
    /\ uxReturn' = bits
    /\ due' = [due EXCEPT ![t] = 0]

\* The call is made and suspends the scheduler.
Begin(t, args, xTicksToWait, label) ==
    /\ Calls(t)
    /\ call[t] = NoCall
    /\ xTicksToWait # 0 => uxSchedulerSuspended = 0
    /\ uxSchedulerSuspended' = uxSchedulerSuspended + 1
    /\ call' = [call EXCEPT ![t] = args]
    /\ due' = [due EXCEPT ![t] = xTicksToWait]
    /\ uxReturn' = {}
    /\ Goto(t, label)
    /\ UNCHANGED <<portVars, switchVars, uxPendedTicks, timeVars, listVars, priorityVars,
                   notifyVars, after, arg, appVars, uxEventBits, eventValue>>

\* The rest of a call under vTaskSuspendAll is over; xTaskResumeAll follows, then next.
ThenResume(t, next) ==
    /\ Goto(t, "resumeAll")
    /\ after' = [after EXCEPT ![t] = next]

\* vTaskPlaceOnUnorderedEventList
vTaskPlaceOnUnorderedEventList(t, n) ==
    /\ eventList' = [eventList EXCEPT ![t] = Group]
    /\ eventValue' = [eventValue EXCEPT ![t] = NotReleased]
    /\ prvAddCurrentTaskToDelayedList(t, n, TRUE)

NotPlaced == UNCHANGED <<listVars, eventValue, xNextTaskUnblockTime>>
---------------------------------------------------------------------------
(* xEventGroupSetBits: what is done under vTaskSuspendAll *)

\* xTaskRemoveFromUnorderedEventList of each: the scheduler is suspended, so that it may use the
\* ready lists.
Release(t, released, bits) ==
    /\ eventValue' = [u \in Task |-> IF u \in released THEN [released |-> TRUE, bits |-> bits]
                                     ELSE eventValue[u]]
    /\ eventList' = [u \in Task |-> IF u \in released THEN "none" ELSE eventList[u]]
    /\ stateList' = [u \in Task |-> IF u \in released THEN "ready" ELSE stateList[u]]
    /\ uxTopReadyPriority' = TopWith(released, uxPriority)
    /\ xYieldPending' = \/ xYieldPending
                        \/ \E u \in released : uxPriority[u] > uxPriority[t]

\* xClearBitsOnExit
ClearedFor(released) == UNION {call[u].bits : u \in {v \in released : call[v].clear}}

\* Variant: clears the bits of the first task before it looks at the others.
SetBitsOneByOne(t, bits) ==
    LET now == uxEventBits \union bits
        met == {u \in Waiting : Met(call[u], now)}
    IN  \E first \in SUBSET met :
        LET left == now \ ClearedFor(first)
            released == first \union {u \in met : Met(call[u], left)}
        IN  /\ Cardinality(first) <= 1
            /\ first = {} <=> met = {}
            /\ uxEventBits' = now \ ClearedFor(released)
            /\ Release(t, released, now)

\* Variant: stops at the first task that it releases.
SetBitsReleasingOne(t, bits) ==
    LET now == uxEventBits \union bits
        met == {u \in Waiting : Met(call[u], now)}
    IN  \E released \in SUBSET met :
        /\ Cardinality(released) <= 1
        /\ released = {} <=> met = {}
        /\ uxEventBits' = now \ ClearedFor(released)
        /\ Release(t, released, now)

\* Every waiter whose condition the bits meet is released, also when another clears them; they
\* are cleared at the end.
SetBits(t, bits) ==
    LET now == uxEventBits \union bits
        released == {u \in Waiting : Met(call[u], now)}
    IN  /\ uxEventBits' = now \ ClearedFor(released)
        /\ Release(t, released, now)

xEventGroupSetBits(t, bits) == Begin(t, [op |-> "set", bits |-> bits], 0, "setBits")

SetBitsSuspended(t) ==
    /\ At(t, "setBits")
    /\ SetBits(t, call[t].bits)
    /\ call' = [call EXCEPT ![t] = NoCall]
    /\ ThenResume(t, "run")
    /\ uxReturn' = {}
    /\ UNCHANGED <<portVars, pxCurrentTCB, suspendVars, timeVars, xItemValue, priorityVars,
                   notifyVars, arg, appVars, due>>

xEventGroupClearBits(t, bits) ==
    /\ Calls(t)
    /\ call[t] = NoCall
    /\ WholeCriticalSection
    /\ uxEventBits' = uxEventBits \ bits
    /\ uxReturn' = {}
    /\ UNCHANGED <<switchVars, suspendVars, timeVars, listVars, priorityVars, notifyVars,
                   controlVars, appVars, eventValue, call, due>>
---------------------------------------------------------------------------
(* xEventGroupWaitBits *)

xEventGroupWaitBits(t, bits, clear, all, n) ==
    Begin(t, [op |-> "wait", bits |-> bits, clear |-> clear, all |-> all, wait |-> n], n, "testBits")

\* Return with the bits that are set, or block; xTaskResumeAll follows.
TestBits(t) ==
    LET c == call[t] IN
    /\ At(t, "testBits")
    /\ \/ /\ Met(c, uxEventBits) \/ c.wait = 0
          /\ uxEventBits' = IF Met(c, uxEventBits) /\ c.clear THEN uxEventBits \ c.bits
                            ELSE uxEventBits
          /\ ReturnBits(t, uxEventBits)
          /\ NotPlaced
          /\ ThenResume(t, "run")
       \/ /\ ~Met(c, uxEventBits) /\ c.wait # 0
          /\ vTaskPlaceOnUnorderedEventList(t, c.wait)
          /\ ThenResume(t, "yieldUnless")
          /\ uxReturn' = {}
          /\ UNCHANGED <<uxEventBits, call, due>>
    /\ UNCHANGED <<portVars, switchVars, suspendVars, xTickCount, xNumOfOverflows, priorityVars,
                   notifyVars, arg, appVars>>

\* Variant: a task that timed out does not look again.
FinishWaitAtOnce(t) ==
    LET c == call[t] IN
    /\ At(t, "run") /\ c # NoCall
    /\ eventValue' = [eventValue EXCEPT ![t] = NotReleased]
    /\ IF eventValue[t].released THEN ReturnBits(t, eventValue[t].bits) ELSE ReturnBits(t, {})
    /\ UNCHANGED <<vars, uxEventBits>>

\* After the wait, in xEventGroupWaitBits and xEventGroupSync: a task that was not released by
\* a setter timed out, and looks at the bits once more.
FinishWait(t) ==
    LET c == call[t] IN
    /\ At(t, "run") /\ c # NoCall
    /\ eventValue' = [eventValue EXCEPT ![t] = NotReleased]
    /\ \/ /\ eventValue[t].released
          /\ ReturnBits(t, eventValue[t].bits)
          /\ UNCHANGED <<portVars, uxEventBits>>
       \/ /\ ~eventValue[t].released
          /\ WholeCriticalSection
          /\ ReturnBits(t, uxEventBits)
          /\ uxEventBits' = IF Met(c, uxEventBits) /\ c.clear THEN uxEventBits \ c.bits
                            ELSE uxEventBits
    /\ UNCHANGED <<switchVars, suspendVars, timeVars, listVars, priorityVars, notifyVars,
                   controlVars, appVars>>
---------------------------------------------------------------------------
(* xEventGroupSync *)

xEventGroupSync(t) ==
    /\ t \in Member
    /\ Begin(t, [op |-> "sync", bits |-> SyncBits, clear |-> TRUE, all |-> TRUE,
                 wait |-> portMAX_DELAY, set |-> FALSE, met |-> FALSE], portMAX_DELAY, "syncSet")

\* xEventGroupSetBits with its own, nested vTaskSuspendAll and xTaskResumeAll.  Whether everybody
\* is there is found from the bits before the call: the call may clear them.
SyncSet(t) ==
    /\ At(t, "syncSet")
    /\ SetBits(t, {SyncBit[t]})
    /\ call' = [call EXCEPT ![t].set = TRUE,
                            ![t].met = SyncBits \subseteq uxEventBits \union {SyncBit[t]}]
    /\ uxSchedulerSuspended' = uxSchedulerSuspended + 1
    /\ ThenResume(t, "syncTest")
    /\ uxReturn' = {}
    /\ UNCHANGED <<portVars, pxCurrentTCB, uxPendedTicks, timeVars, xItemValue, priorityVars,
                   notifyVars, arg, appVars, due>>

SyncTest(t) ==
    LET c == call[t] IN
    /\ At(t, "syncTest")
    /\ \/ /\ c.met
          /\ uxEventBits' = uxEventBits \ SyncBits
          /\ ReturnBits(t, uxEventBits \union SyncBits)
          /\ NotPlaced
          /\ ThenResume(t, "run")
       \/ /\ ~c.met
          /\ vTaskPlaceOnUnorderedEventList(t, c.wait)
          /\ ThenResume(t, "yieldUnless")
          /\ uxReturn' = {}
          /\ UNCHANGED <<uxEventBits, call, due>>
    /\ UNCHANGED <<portVars, switchVars, suspendVars, xTickCount, xNumOfOverflows, priorityVars,
                   notifyVars, arg, appVars>>
---------------------------------------------------------------------------
GroupInit ==
    /\ Init
    /\ uxEventBits = {}
    /\ eventValue = [t \in Task |-> NotReleased]
    /\ uxReturn = {}
    /\ call = [t \in Task |-> NoCall]
    /\ due = [t \in Task |-> 0]

\* What a step of the scheduler does here: time goes by.
KeepGroup ==
    /\ due' = [t \in Task |-> IF xTickCount' # xTickCount /\ due[t] > 0
                              THEN due[t] - 1 ELSE due[t]]
    /\ uxReturn' = {}
    /\ UNCHANGED <<uxEventBits, eventValue, call>>

SchedulerStep ==
    \/ Interrupt /\ KeepGroup
    \/ \E t \in Task : \/ Continue(t) /\ KeepGroup
                       \/ Yield(t) /\ (pc[t] = "yield" \/ call[t] = NoCall) /\ KeepGroup
                       \/ Call(t) /\ call[t] = NoCall /\ KeepGroup

GroupCall(t) ==
    \/ t \in SettingTasks /\ \E bits \in BitsToSet : xEventGroupSetBits(t, bits)
    \/ t \in SettingTasks /\ \E bits \in BitsToClear : xEventGroupClearBits(t, bits)
    \/ t \in WaitingTasks /\ \E bits \in BitsToWaitFor, n \in BitWaits, clear, all \in BOOLEAN :
           xEventGroupWaitBits(t, bits, clear, all, n)
    \/ xEventGroupSync(t)

GroupContinue(t) ==
    \/ SetBitsSuspended(t)
    \/ TestBits(t)
    \/ FinishWait(t)
    \/ SyncSet(t)
    \/ SyncTest(t)

GroupNext ==
    \/ SchedulerStep
    \/ \E t \in Task : GroupCall(t) \/ GroupContinue(t)

GroupSpec == GroupInit /\ [][GroupNext]_allVars
---------------------------------------------------------------------------
(* Properties *)

\* The types, and that a task in the event list is blocked in a call that says what it waits for.
GroupTypeOK ==
    /\ uxEventBits \subseteq Bit
    /\ uxReturn \subseteq Bit
    /\ due \in [Task -> Tick]
    /\ \A t \in Task : /\ eventValue[t].released => eventValue[t].bits \subseteq Bit
                       /\ call[t].op \in {"none", "set", "wait", "sync"}
    /\ \A t \in Waiting : /\ call[t].op \in {"wait", "sync"}
                          /\ ~eventValue[t].released
                          /\ stateList[t] \in {"delayed", "overflow", "suspended"}

(***************************************************************************)
(* No lost wake-up: nobody stays in the event list while the bits that he  *)
(* waits for are set, whoever set them and whoever clears them on exit.    *)
(***************************************************************************)
NobodyWaitsForSetBits == \A t \in Waiting : ~Met(call[t], uxEventBits)

\* The types, no lost wake-up, and no release that the scheduler forgets to act upon.
GroupIsSound == GroupTypeOK /\ NobodyWaitsForSetBits /\ HighestPriorityRuns

(***************************************************************************)
(* A call that returns without what it waited for has waited its ticks,    *)
(* across the wrap of the tick count, and one without a timeout never      *)
(* does; at its last look the bits that are set do not meet its condition. *)
(***************************************************************************)
GivesUpForGoodReason ==
    [][\A t \in Task :
          call[t].op = "wait" /\ call'[t] = NoCall /\ ~Met(call[t], uxReturn') =>
              /\ due[t] = 0 /\ call[t].wait # portMAX_DELAY
              /\ ~Met(call[t], uxEventBits)]_allVars

\* The rendezvous of xEventGroupSync; the last to come does not wait.
Phase(t) ==
    IF call[t].op # "sync" THEN "out"
    ELSE IF call[t].met \/ eventValue[t].released THEN "free"
    ELSE IF call[t].set THEN "in" ELSE "out"

Meeting == INSTANCE Barrier WITH phase <- [t \in Member |-> Phase(t)]

\* Nobody leaves xEventGroupSync before every member has come, round after round, although a
\* fast task may be back before the slow ones have left.
ImplementsBarrier == Meeting!BarrierSpec
===========================================================================
