----------------------------- MODULE TaskLists ----------------------------
(***************************************************************************)
(* The lists that the tasks of one priority move between: their ready list *)
(* and the current delayed list, which is sorted by the time to wake.  The *)
(* state list item of a task is in one of them or, when the task is        *)
(* suspended, in neither; only the links in that list are ever read.       *)
(***************************************************************************)
EXTENDS ReadyList

CONSTANT WakeTimes

ASSUME TaskListsAssumption == WakeTimes \subseteq 0 .. portMAX_DELAY

VARIABLES
    dNext, dPrevious, dIndex, dContainer, dNumberOfItems, dItemValue,  \* the delayed list
    arrival                                                           \* see SortedList

delayedVars == <<dNext, dPrevious, dIndex, dContainer, dNumberOfItems, dItemValue, arrival>>
allVars == <<vars, delayedVars>>

Delayed == INSTANCE SortedList WITH
    pxNext <- dNext, pxPrevious <- dPrevious, pxIndex <- dIndex, pvContainer <- dContainer,
    uxNumberOfItems <- dNumberOfItems, xItemValue <- dItemValue, Values <- WakeTimes

\* A task that is created or resumed.
MakeReady(i) ==
    /\ i \notin dContainer
    /\ prvAddTaskToReadyList(i)
    /\ UNCHANGED delayedVars

SelectNext == Select /\ UNCHANGED delayedVars

\* prvAddCurrentTaskToDelayedList, for the task that was selected last
DelayCurrent(v) ==
    /\ pxIndex \in pvContainer
    /\ Leave(pxIndex)
    /\ Delayed!Insert(pxIndex, v)

\* xTaskIncrementTick takes the head; an event or a notification takes any task.
Wake(i) ==
    /\ Delayed!Leave(i)
    /\ prvAddTaskToReadyList(i)

\* vTaskSuspend and vTaskDelete
Suspend(i) ==
    \/ Leave(i) /\ UNCHANGED delayedVars
    \/ Delayed!Leave(i) /\ UNCHANGED vars

TaskListsInit == Init /\ Delayed!Init

TaskListsNext ==
    \/ SelectNext
    \/ \E v \in WakeTimes : DelayCurrent(v)
    \/ \E i \in Item : MakeReady(i) \/ Wake(i) \/ Suspend(i)

TaskListsSpec == TaskListsInit /\ [][TaskListsNext]_allVars
---------------------------------------------------------------------------
(* Properties *)

\* Both lists are whole, and no item is in both.
ListsOK ==
    /\ RingOK
    /\ Delayed!RingOK
    /\ pvContainer \intersect dContainer = {}

(***************************************************************************)
(* The delayed list stays sorted by the time to wake, so that its head is  *)
(* the next to wake, and tasks with the same time stand in the order that  *)
(* they came.                                                              *)
(***************************************************************************)
SortedAndFair == Delayed!SortedAndFair
===========================================================================
