------------------------------- MODULE Queue ------------------------------
(***************************************************************************)
(* Queues, semaphores and mutexes (Source/queue.c) on top of the scheduler.*)
(*                                                                         *)
(* A call that blocks is a loop: a critical section that tries, then, with *)
(* the scheduler suspended and the queue locked, the check of the timeout, *)
(* a second look at the queue and the move to its event list.  Interrupts  *)
(* may use a locked queue; they leave the event lists alone and count in   *)
(* cTxLock and cRxLock what prvUnlockQueue has to make up for.             *)
(*                                                                         *)
(* call[t] is the call that task t is in, with the variables on its stack; *)
(* at the program point "run" it is at the top of its loop.                *)
(***************************************************************************)
EXTENDS Tasks, SequencesExt

CONSTANTS
    Queue,                  \* every queue, semaphore and mutex
    Sized,                  \* those with an item size that is not 0
    Mutex,                  \* those that are mutexes
    uxLength,               \* [Queue -> how many items it holds]
    Item,                   \* what is sent through the queues in Sized
    xTasksWaitingToSend,    \* [Queue -> event list]
    xTasksWaitingToReceive, \* [Queue -> event list]
    SendWaits,              \* xTicksToWait given to xQueueGenericSend
    ReceiveWaits,           \* xTicksToWait given to xQueueGenericReceive
    CopyPositions,          \* xCopyPosition given by tasks and interrupts
    ReceiveModes,           \* [Task -> which of receive and peek it calls]
    SendingTasks,           \* the tasks that send (for a mutex: everybody who took it gives it)
    IsrSends,               \* queues that interrupts send to
    IsrReceives,            \* queues that interrupts receive from
    Resettable,             \* queues that xQueueReset is called for
    LockValues,             \* number of values of int8_t (256 in the build)
    MaxLock                 \* bound on what interrupts do while a queue is locked

CopyPosition == {"queueSEND_TO_BACK", "queueSEND_TO_FRONT", "queueOVERWRITE"}
ReceiveMode == {"receive", "peek"}

QueueLabel == {"suspendAll", "lockQueue", "check", "test", "inherit", "place", "unlockTx",
               "unlockRx"}

ASSUME QueueAssumption ==
    /\ QueueLabel \subseteq ObjectLabels
    /\ IsFiniteSet(Task) /\ IsFiniteSet(Queue)
    /\ Sized \subseteq Queue
    /\ Mutex \subseteq Queue \ Sized
    /\ uxLength \in [Queue -> Nat \ {0}]
    /\ \A q \in Mutex : uxLength[q] = 1
    /\ xTasksWaitingToSend \in [Queue -> ObjectLists]
    /\ xTasksWaitingToReceive \in [Queue -> ObjectLists]
    /\ \A q, r \in Queue :
           /\ xTasksWaitingToSend[q] # xTasksWaitingToReceive[r]
           /\ q # r => /\ xTasksWaitingToSend[q] # xTasksWaitingToSend[r]
                       /\ xTasksWaitingToReceive[q] # xTasksWaitingToReceive[r]
    /\ SendWaits \subseteq Tick
    /\ ReceiveWaits \subseteq Tick
    /\ CopyPositions \subseteq CopyPosition
    /\ ReceiveModes \in [Task -> SUBSET ReceiveMode]
    /\ SendingTasks \subseteq Task
    /\ IsrSends \subseteq Queue \ Mutex
    /\ IsrReceives \subseteq Queue \ Mutex
    /\ Resettable \subseteq Queue \ Mutex
    /\ LockValues \in Nat \ {0, 1}
    /\ MaxLock \in Nat
    /\ Sized # {} => Item # {}
    /\ "NULL" \notin Task

VARIABLES
    storage,           \* [Sized -> [0 .. uxLength - 1 -> Item]]
    pcWriteTo,         \* [Sized -> index of the next free place]
    pcReadFrom,        \* [Sized -> index of the place last read]
    uxMessagesWaiting, \* [Queue -> number of items]
    cRxLock,           \* [Queue -> -1 unlocked, else receives counted while locked]
    cTxLock,           \* [Queue -> -1 unlocked, else sends counted while locked]
    pvBuffer,          \* what the last call to receive or peek copied out
    pxMutexHolder,     \* [Mutex -> Task or "NULL"]
    uxMutexesHeld,     \* [Task -> Nat]
    waiters,           \* [ObjectLists -> tasks in the order of the list]
    eventPriority,     \* [Task -> priority that the value of xEventListItem stands for]
    call,              \* [Task -> the call it is in]
    due,               \* history: [Task -> ticks until its call may time out]
    sent               \* history: the item of the last call that put one into a queue

dataVars == <<storage, pcWriteTo, pcReadFrom, uxMessagesWaiting, pvBuffer, sent>>
lockVars == <<cRxLock, cTxLock>>
mutexVars == <<pxMutexHolder, uxMutexesHeld>>
queueVars == <<dataVars, lockVars, mutexVars, waiters, eventPriority, call, due>>

allVars == <<vars, queueVars>>

queueUNLOCKED == 0 - 1
NoCall == [op |-> "none"]
---------------------------------------------------------------------------
(* The storage: prvCopyDataToQueue and prvCopyDataFromQueue *)

Room(q) == uxLength[q] - uxMessagesWaiting[q]
Forward(q, i) == (i + 1) % uxLength[q]
Back(q, i) == IF i = 0 THEN uxLength[q] - 1 ELSE i - 1

\* Variant: forgets that the place after the last is the first.
CopyToStorageNoWrap(q, item, position) ==
    IF q \notin Sized THEN UNCHANGED <<storage, pcWriteTo, pcReadFrom>>
    ELSE /\ storage' = [storage EXCEPT ![q][pcWriteTo[q]] = item]
         /\ pcWriteTo' = [pcWriteTo EXCEPT
                ![q] = IF @ + 1 < uxLength[q] THEN @ + 1 ELSE @]
         /\ UNCHANGED pcReadFrom

\* Variant: leaves the item that should be overwritten where it is.
CopyToStorageUnlessFull(q, item, position) ==
    IF q \notin Sized \/ uxMessagesWaiting[q] = uxLength[q]
    THEN UNCHANGED <<storage, pcWriteTo, pcReadFrom>>
    ELSE \/ /\ position = "queueSEND_TO_BACK"
            /\ storage' = [storage EXCEPT ![q][pcWriteTo[q]] = item]
            /\ pcWriteTo' = [pcWriteTo EXCEPT ![q] = Forward(q, @)]
            /\ UNCHANGED pcReadFrom
         \/ /\ position # "queueSEND_TO_BACK"
            /\ storage' = [storage EXCEPT ![q][pcReadFrom[q]] = item]
            /\ pcReadFrom' = [pcReadFrom EXCEPT ![q] = Back(q, @)]
            /\ UNCHANGED pcWriteTo

\* The front is where pcReadFrom points: the next read moves it forward first.
CopyToStorage(q, item, position) ==
    IF q \notin Sized THEN UNCHANGED <<storage, pcWriteTo, pcReadFrom>>
    ELSE \/ /\ position = "queueSEND_TO_BACK"
            /\ storage' = [storage EXCEPT ![q][pcWriteTo[q]] = item]
            /\ pcWriteTo' = [pcWriteTo EXCEPT ![q] = Forward(q, @)]
            /\ UNCHANGED pcReadFrom
         \/ /\ position # "queueSEND_TO_BACK"
            /\ storage' = [storage EXCEPT ![q][pcReadFrom[q]] = item]
            /\ pcReadFrom' = [pcReadFrom EXCEPT ![q] = Back(q, @)]
            /\ UNCHANGED pcWriteTo

\* An overwrite of a queue that is full does not add an item.
CountOneMore(q, position) ==
    IF q \in Sized /\ position = "queueOVERWRITE" /\ uxMessagesWaiting[q] > 0
    THEN UNCHANGED uxMessagesWaiting
    ELSE uxMessagesWaiting' = [uxMessagesWaiting EXCEPT ![q] = @ + 1]

\* A peek puts pcReadFrom back.
CopyFromStorage(q, mode) ==
    /\ IF q \in Sized
       THEN /\ pvBuffer' = storage[q][Forward(q, pcReadFrom[q])]
            /\ pcReadFrom' = IF mode = "peek" THEN pcReadFrom
                             ELSE [pcReadFrom EXCEPT ![q] = Forward(q, @)]
       ELSE UNCHANGED <<pvBuffer, pcReadFrom>>
    /\ uxMessagesWaiting' = IF mode = "peek" THEN uxMessagesWaiting
                            ELSE [uxMessagesWaiting EXCEPT ![q] = @ - 1]
    /\ UNCHANGED <<storage, pcWriteTo, sent>>

\* History: what a call that succeeds puts into a queue in Sized.
NoteSent(q, item) == sent' = IF q \in Sized THEN item ELSE sent

MayCopy(q, position) ==
    /\ position = "queueOVERWRITE" => q \in Sized /\ uxLength[q] = 1
    /\ uxMessagesWaiting[q] < uxLength[q] \/ position = "queueOVERWRITE"
---------------------------------------------------------------------------
(* Event lists, ordered by the value of xEventListItem *)

\* vListInsert: behind those that are at least as urgent.
Queued(s, t) ==
    LET n == CHOOSE k \in 0 .. Len(s) :
                 /\ \A i \in 1 .. k : eventPriority[s[i]] >= eventPriority[t]
                 /\ k < Len(s) => eventPriority[s[k + 1]] < eventPriority[t]
    IN  InsertAt(s, n + 1, t)

\* The first n tasks of a list go where xTaskRemoveFromEventList puts them.
WakeFirst(l, n) ==
    LET woken == {waiters[l][i] : i \in 1 .. n} IN
    /\ waiters' = [waiters EXCEPT ![l] = SubSeq(@, n + 1, Len(@))]
    /\ IF uxSchedulerSuspended = 0
       THEN /\ stateList' = [t \in Task |-> IF t \in woken THEN "ready" ELSE stateList[t]]
            /\ eventList' = [t \in Task |-> IF t \in woken THEN "none" ELSE eventList[t]]
       ELSE /\ eventList' = [t \in Task |-> IF t \in woken THEN "pending" ELSE eventList[t]]
            /\ UNCHANGED stateList

First(l) == Head(waiters[l])
SomebodyWaits(l) == waiters[l] # <<>>

WakeOne(l) ==
    IF SomebodyWaits(l) THEN WakeFirst(l, 1) ELSE UNCHANGED <<waiters, stateList, eventList>>

\* The result of xTaskRemoveFromEventList.
WokeMoreUrgent(l, priority, than) == SomebodyWaits(l) /\ priority[First(l)] > priority[than]

\* uxTopReadyPriority once First(l) and the tasks in S are in their ready lists.
TopWithFirst(l, S, priority) ==
    IF SomebodyWaits(l) /\ uxSchedulerSuspended = 0
    THEN TopWith({First(l)} \union S, priority) ELSE TopWith(S, priority)
---------------------------------------------------------------------------
(* Mutexes: who holds one, and the priority he holds it at *)

Holds(t, q) == q \in Mutex /\ pxMutexHolder[q] = t

\* Variant: looks at the count before this mutex is taken off it.
DisinheritsNotYet(t, q) ==
    Holds(t, q) /\ uxMutexesHeld[t] = 0 /\ uxPriority[t] # uxBasePriority[t]

\* xTaskPriorityDisinherit takes the inherited priority back with the last mutex.
Disinherits(t, q) ==
    Holds(t, q) /\ uxMutexesHeld[t] = 1 /\ uxPriority[t] # uxBasePriority[t]

\* The part of prvCopyDataToQueue that is for mutexes.
GiveMutex(t, q) ==
    LET back == IF Disinherits(t, q) THEN {t} ELSE {} IN
    /\ uxPriority' = [u \in Task |-> IF u \in back THEN uxBasePriority[u] ELSE uxPriority[u]]
    /\ eventPriority' = [u \in Task |-> IF u \in back THEN uxBasePriority[u]
                                        ELSE eventPriority[u]]
    /\ pxMutexHolder' = IF q \in Mutex THEN [pxMutexHolder EXCEPT ![q] = "NULL"]
                        ELSE pxMutexHolder
    /\ uxMutexesHeld' = IF q \in Mutex THEN [uxMutexesHeld EXCEPT ![t] = @ - 1]
                        ELSE uxMutexesHeld
    /\ UNCHANGED uxBasePriority

\* pvTaskIncrementMutexHeldCount, for the task that takes a mutex.
TakeMutex(t, q, mode) ==
    IF q \in Mutex /\ mode = "receive"
    THEN /\ pxMutexHolder' = [pxMutexHolder EXCEPT ![q] = t]
         /\ uxMutexesHeld' = [uxMutexesHeld EXCEPT ![t] = @ + 1]
    ELSE UNCHANGED mutexVars

\* Variant: the holder gets one level more, whoever waits.
InheritedOneMore(t, q) ==
    LET h == pxMutexHolder[q] IN
    IF h = "NULL" \/ uxPriority[h] >= uxPriority[t] THEN uxPriority
    ELSE [uxPriority EXCEPT ![h] = @ + 1]

\* The priorities after vTaskPriorityInherit by a task t that will wait for q.
Inherited(t, q) ==
    LET h == pxMutexHolder[q] IN
    IF h = "NULL" \/ uxPriority[h] >= uxPriority[t] THEN uxPriority
    ELSE [uxPriority EXCEPT ![h] = uxPriority[t]]
---------------------------------------------------------------------------
(* Parts of actions *)

ListOf(t) == IF call[t].op = "send" THEN xTasksWaitingToSend[call[t].q]
             ELSE xTasksWaitingToReceive[call[t].q]

\* The top of the loop of the call that t is in.
InCall(t, op) == At(t, "run") /\ call[t].op = op /\ ~call[t].expired

Return(t) ==
    /\ call' = [call EXCEPT ![t] = NoCall]
    /\ due' = [due EXCEPT ![t] = 0]

\* The call is made; its variables get their first values.
Begin(t, args, xTicksToWait) ==
    /\ Calls(t)
    /\ call[t] = NoCall
    /\ xTicksToWait # 0 => uxSchedulerSuspended = 0
    /\ call' = [call EXCEPT ![t] = args]
    /\ due' = [due EXCEPT ![t] = xTicksToWait]
    /\ UNCHANGED <<vars, dataVars, lockVars, mutexVars, waiters, eventPriority>>

\* The critical section at the top of the loop when there is nothing to be done there: the call
\* fails, or it is going to wait and notes the time when it does so first.
FailOrWait(t) ==
    /\ WholeCriticalSection
    /\ \/ /\ call[t].wait = 0
          /\ Return(t)
          /\ UNCHANGED pc
       \/ /\ call[t].wait > 0
          /\ call' = [call EXCEPT ![t] =
                 IF @.timed THEN @
                 ELSE [@ EXCEPT !.timed = TRUE, !.overflows = xNumOfOverflows,
                                !.entered = xTickCount]]
          /\ Goto(t, "suspendAll")
          /\ UNCHANGED due
    /\ UNCHANGED <<switchVars, suspendVars, timeVars, listVars, priorityVars, notifyVars,
                   after, arg, appVars, dataVars, lockVars, mutexVars, waiters, eventPriority>>
---------------------------------------------------------------------------
(* xQueueGenericSend: post, give a semaphore, give a mutex *)

xQueueGenericSend(t, q, item, position, n) ==
    /\ t \in SendingTasks
    /\ position = "queueOVERWRITE" => q \in Sized /\ uxLength[q] = 1
    /\ q \in Mutex => Holds(t, q) /\ n = 0
    /\ Begin(t, [op |-> "send", q |-> q, item |-> item, position |-> position, wait |-> n,
                 timed |-> FALSE, overflows |-> 0, entered |-> 0, expired |-> FALSE], n)

\* A priority that goes back asks for a yield only if nobody waits for the mutex.
YieldsForSend(t, q) ==
    IF SomebodyWaits(xTasksWaitingToReceive[q])
    THEN WokeMoreUrgent(xTasksWaitingToReceive[q], uxPriority', t)
    ELSE Disinherits(t, q)

SendItem(t) ==
    LET q == call[t].q
        l == xTasksWaitingToReceive[q]
    IN  /\ InCall(t, "send")
        /\ MayCopy(q, call[t].position)
        /\ CopyToStorage(q, call[t].item, call[t].position)
        /\ NoteSent(q, call[t].item)
        /\ CountOneMore(q, call[t].position)
        /\ GiveMutex(t, q)
        /\ WakeOne(l)
        /\ Return(t)
        /\ UNCHANGED <<suspendVars, timeVars, xItemValue, notifyVars, arg, appVars,
                       lockVars, pvBuffer>>
        /\ YieldThenExit(t, YieldsForSend(t, q), "run",
                         TopWithFirst(l, IF Disinherits(t, q) THEN {t} ELSE {}, uxPriority'))

SendFailsOrWaits(t) ==
    /\ InCall(t, "send")
    /\ ~MayCopy(call[t].q, call[t].position)
    /\ FailOrWait(t)
---------------------------------------------------------------------------
(* xQueueGenericReceive: receive, peek, take a semaphore, take a mutex *)

xQueueGenericReceive(t, q, mode, n) ==
    /\ q \in Mutex => ~Holds(t, q) /\ mode = "receive"
    /\ Begin(t, [op |-> "receive", q |-> q, mode |-> mode, wait |-> n,
                 timed |-> FALSE, overflows |-> 0, entered |-> 0, expired |-> FALSE], n)

\* What is taken makes room for a sender; what is peeked at is there for the next receiver.
ReceiveItem(t) ==
    LET q == call[t].q
        l == IF call[t].mode = "peek" THEN xTasksWaitingToReceive[q]
             ELSE xTasksWaitingToSend[q]
    IN  /\ InCall(t, "receive")
        /\ uxMessagesWaiting[q] > 0
        /\ CopyFromStorage(q, call[t].mode)
        /\ TakeMutex(t, q, call[t].mode)
        /\ WakeOne(l)
        /\ Return(t)
        /\ UNCHANGED <<suspendVars, timeVars, xItemValue, priorityVars, notifyVars, arg, appVars,
                       lockVars, eventPriority>>
        /\ YieldThenExit(t, WokeMoreUrgent(l, uxPriority, t), "run",
                         TopWithFirst(l, {}, uxPriority))

ReceiveFailsOrWaits(t) ==
    /\ InCall(t, "receive")
    /\ uxMessagesWaiting[call[t].q] = 0
    /\ FailOrWait(t)

\* A receive that timed out looks once more, and goes on if there is something now; a send returns.
ReturnExpired(t) ==
    /\ At(t, "run") /\ call[t] # NoCall
    /\ call[t].expired
    /\ IF call[t].op = "receive" THEN WholeCriticalSection ELSE UNCHANGED portVars
    /\ IF call[t].op = "receive" /\ uxMessagesWaiting[call[t].q] > 0
       THEN call' = [call EXCEPT ![t].expired = FALSE] /\ UNCHANGED due
       ELSE Return(t)
    /\ UNCHANGED <<switchVars, suspendVars, timeVars, listVars, priorityVars, notifyVars,
                   controlVars, appVars, dataVars, lockVars, mutexVars, waiters, eventPriority>>
---------------------------------------------------------------------------
(* The rest of the loop, the same for both: blocking *)

SuspendAllToWait(t) ==
    /\ At(t, "suspendAll")
    /\ uxSchedulerSuspended' = uxSchedulerSuspended + 1
    /\ Goto(t, "lockQueue")
    /\ UNCHANGED <<portVars, switchVars, uxPendedTicks, timeVars, listVars, priorityVars,
                   notifyVars, after, arg, appVars, queueVars>>

\* Variant: leaves the queue as it is.
LockNothing(t) ==
    /\ At(t, "lockQueue")
    /\ WholeCriticalSection
    /\ Goto(t, "check")
    /\ UNCHANGED <<switchVars, suspendVars, timeVars, listVars, priorityVars, notifyVars,
                   after, arg, appVars, queueVars>>

Locked(n) == IF n = queueUNLOCKED THEN 0 ELSE n

prvLockQueue(t) ==
    /\ At(t, "lockQueue")
    /\ WholeCriticalSection
    /\ cRxLock' = [cRxLock EXCEPT ![call[t].q] = Locked(@)]
    /\ cTxLock' = [cTxLock EXCEPT ![call[t].q] = Locked(@)]
    /\ Goto(t, "check")
    /\ UNCHANGED <<switchVars, suspendVars, timeVars, listVars, priorityVars, notifyVars,
                   after, arg, appVars, dataVars, mutexVars, waiters, eventPriority, call, due>>

\* Ticks between two values of the count, as TickType_t subtracts them.
TicksSince(n) == Wrap(xTickCount + TickMod - n)

\* Variant: any wrap of the tick count ends the wait.
CheckForTimeOutAnyWrap(t) ==
    LET c == call[t] IN
    IF c.wait = portMAX_DELAY THEN c
    ELSE IF xNumOfOverflows # c.overflows \/ TicksSince(c.entered) >= c.wait
    THEN [c EXCEPT !.expired = TRUE]
    ELSE [c EXCEPT !.wait = c.wait - TicksSince(c.entered),
                   !.overflows = xNumOfOverflows, !.entered = xTickCount]

\* The call of t after xTaskCheckForTimeOut: expired, or with the ticks that are left.
xTaskCheckForTimeOut(t) ==
    LET c == call[t] IN
    IF c.wait = portMAX_DELAY THEN c
    ELSE IF \/ xNumOfOverflows # c.overflows /\ xTickCount >= c.entered
            \/ TicksSince(c.entered) >= c.wait
    THEN [c EXCEPT !.expired = TRUE]
    ELSE [c EXCEPT !.wait = c.wait - TicksSince(c.entered),
                   !.overflows = xNumOfOverflows, !.entered = xTickCount]

CheckForTimeOut(t) ==
    /\ At(t, "check")
    /\ WholeCriticalSection
    /\ call' = [call EXCEPT ![t] = xTaskCheckForTimeOut(t)]
    /\ Goto(t, IF call'[t].expired THEN "unlockTx" ELSE "test")
    /\ UNCHANGED <<switchVars, suspendVars, timeVars, listVars, priorityVars, notifyVars,
                   after, arg, appVars, dataVars, lockVars, mutexVars, waiters, eventPriority,
                   due>>

\* prvIsQueueFull, or prvIsQueueEmpty and what comes before the wait for a mutex.
TestQueue(t) ==
    LET q == call[t].q
        blocks == IF call[t].op = "send" THEN Room(q) = 0 ELSE uxMessagesWaiting[q] = 0
    IN  /\ At(t, "test")
        /\ WholeCriticalSection
        /\ Goto(t, IF ~blocks THEN "unlockTx" ELSE IF q \in Mutex THEN "inherit" ELSE "place")
        /\ UNCHANGED <<switchVars, suspendVars, timeVars, listVars, priorityVars, notifyVars,
                       after, arg, appVars, queueVars>>

vTaskPriorityInherit(t) ==
    LET priority == Inherited(t, call[t].q)
        raised == {u \in Task : priority[u] # uxPriority[u]}
    IN  /\ At(t, "inherit")
        /\ WholeCriticalSection
        /\ uxPriority' = priority
        /\ eventPriority' = [u \in Task |-> IF u \in raised THEN priority[u] ELSE eventPriority[u]]
        /\ NoSwitch(TopWith(raised \intersect Ready, priority))
        /\ Goto(t, "place")
        /\ UNCHANGED <<suspendVars, timeVars, listVars, uxBasePriority, notifyVars, after, arg,
                       appVars, dataVars, lockVars, mutexVars, waiters, call, due>>

vTaskPlaceOnEventList(t) ==
    /\ At(t, "place")
    /\ waiters' = [waiters EXCEPT ![ListOf(t)] = Queued(@, t)]
    /\ eventList' = [eventList EXCEPT ![t] = ListOf(t)]
    /\ prvAddCurrentTaskToDelayedList(t, call[t].wait, TRUE)
    /\ after' = [after EXCEPT ![t] = "yieldUnless"]
    /\ Goto(t, "unlockTx")
    /\ UNCHANGED <<portVars, switchVars, suspendVars, xTickCount, xNumOfOverflows, priorityVars,
                   notifyVars, arg, appVars, dataVars, lockVars, mutexVars, eventPriority, call,
                   due>>
---------------------------------------------------------------------------
(* prvUnlockQueue: make up for what interrupts did to the locked queue *)

ToWake(count, l) == IF count < 0 THEN 0 ELSE IF count < Len(waiters[l]) THEN count ELSE Len(waiters[l])

\* Variant: wakes one task, however many items came.
UnlockWakingOne(t, count, l) ==
    LET n == IF ToWake(count, l) > 0 THEN 1 ELSE 0 IN
    /\ WakeFirst(l, n)
    /\ xYieldPending' = \/ xYieldPending
                        \/ \E i \in 1 .. n : uxPriority[waiters[l][i]] > uxPriority[t]

\* Wake a task for every item counted, as long as somebody waits; vTaskMissedYield.
Unlock(t, count, l) ==
    LET n == ToWake(count, l) IN
    /\ WakeFirst(l, n)
    /\ xYieldPending' = \/ xYieldPending
                        \/ \E i \in 1 .. n : uxPriority[waiters[l][i]] > uxPriority[t]

UnlockTx(t) ==
    LET q == call[t].q IN
    /\ At(t, "unlockTx")
    /\ WholeCriticalSection
    /\ Unlock(t, cTxLock[q], xTasksWaitingToReceive[q])
    /\ cTxLock' = [cTxLock EXCEPT ![q] = queueUNLOCKED]
    /\ Goto(t, "unlockRx")
    /\ UNCHANGED <<pxCurrentTCB, uxTopReadyPriority, suspendVars, timeVars, xItemValue,
                   priorityVars, notifyVars, after, arg, appVars, dataVars, cRxLock, mutexVars,
                   eventPriority, call, due>>

\* Variant: leaves the queue locked for receivers.
UnlockRxNot(t) ==
    /\ At(t, "unlockRx")
    /\ Goto(t, "resumeAll")
    /\ UNCHANGED <<portVars, switchVars, suspendVars, timeVars, listVars, priorityVars,
                   notifyVars, after, arg, appVars, queueVars>>

\* xTaskResumeAll follows.
UnlockRx(t) ==
    LET q == call[t].q IN
    /\ At(t, "unlockRx")
    /\ WholeCriticalSection
    /\ Unlock(t, cRxLock[q], xTasksWaitingToSend[q])
    /\ cRxLock' = [cRxLock EXCEPT ![q] = queueUNLOCKED]
    /\ Goto(t, "resumeAll")
    /\ UNCHANGED <<pxCurrentTCB, uxTopReadyPriority, suspendVars, timeVars, xItemValue,
                   priorityVars, notifyVars, after, arg, appVars, dataVars, cTxLock, mutexVars,
                   eventPriority, call, due>>
---------------------------------------------------------------------------
(* Interrupts, and xQueueReset *)

\* Variant: forgets that a more urgent task was woken.
LeaveInterruptQuietly(l) == NoSwitch(TopWithFirst(l, {}, uxPriority))

\* The end of a call from an interrupt that woke the first task of l: the interrupt yields on
\* leaving if it asked to be told, else xYieldPending stays set.
LeaveInterrupt(l) ==
    LET top == TopWithFirst(l, {}, uxPriority) IN
    IF WokeMoreUrgent(l, uxPriority, pxCurrentTCB)
    THEN \/ vTaskSwitchContext(top)
         \/ xYieldPending' = TRUE /\ uxTopReadyPriority' = top /\ UNCHANGED pxCurrentTCB
    ELSE NoSwitch(top)

\* One more in a count of type int8_t, whose least value is - LockValues \div 2.
Increment(count) ==
    IF count + 1 = LockValues \div 2 THEN 0 - LockValues \div 2 ELSE count + 1

\* xQueueGenericSendFromISR, and xQueueGiveFromISR for a semaphore.
xQueueGenericSendFromISR(q, item, position) ==
    LET l == xTasksWaitingToReceive[q] IN
    /\ InterruptMaskSection
    /\ MayCopy(q, position)
    /\ CopyToStorage(q, item, position)
    /\ NoteSent(q, item)
    /\ CountOneMore(q, position)
    /\ UNCHANGED <<suspendVars, timeVars, xItemValue, priorityVars, notifyVars, controlVars,
                   appVars, pvBuffer, cRxLock, mutexVars, eventPriority, call, due>>
    /\ \/ /\ cTxLock[q] = queueUNLOCKED
          /\ WakeOne(l)
          /\ UNCHANGED cTxLock
          /\ LeaveInterrupt(l)
       \/ /\ cTxLock[q] # queueUNLOCKED /\ cTxLock[q] < MaxLock
          /\ cTxLock' = [cTxLock EXCEPT ![q] = Increment(@)]
          /\ UNCHANGED <<switchVars, stateList, eventList, waiters>>

xQueueReceiveFromISR(q) ==
    LET l == xTasksWaitingToSend[q] IN
    /\ InterruptMaskSection
    /\ uxMessagesWaiting[q] > 0
    /\ CopyFromStorage(q, "receive")
    /\ UNCHANGED <<suspendVars, timeVars, xItemValue, priorityVars, notifyVars, controlVars,
                   appVars, cTxLock, mutexVars, eventPriority, call, due>>
    /\ \/ /\ cRxLock[q] = queueUNLOCKED
          /\ WakeOne(l)
          /\ UNCHANGED cRxLock
          /\ LeaveInterrupt(l)
       \/ /\ cRxLock[q] # queueUNLOCKED /\ cRxLock[q] < MaxLock
          /\ cRxLock' = [cRxLock EXCEPT ![q] = Increment(@)]
          /\ UNCHANGED <<switchVars, stateList, eventList, waiters>>

\* One task that waits to send is woken; those that wait to receive wait on.
xQueueReset(t, q) ==
    LET l == xTasksWaitingToSend[q] IN
    /\ Calls(t)
    /\ call[t] = NoCall
    /\ pcWriteTo' = [pcWriteTo EXCEPT ![q] = 0]
    /\ pcReadFrom' = [pcReadFrom EXCEPT ![q] = uxLength[q] - 1]
    /\ uxMessagesWaiting' = [uxMessagesWaiting EXCEPT ![q] = 0]
    /\ cRxLock' = [cRxLock EXCEPT ![q] = queueUNLOCKED]
    /\ cTxLock' = [cTxLock EXCEPT ![q] = queueUNLOCKED]
    /\ WakeOne(l)
    /\ UNCHANGED <<suspendVars, timeVars, xItemValue, priorityVars, notifyVars, arg, appVars,
                   storage, pvBuffer, sent, mutexVars, eventPriority, call, due>>
    /\ YieldThenExit(t, WokeMoreUrgent(l, uxPriority, t), "run", TopWithFirst(l, {}, uxPriority))
---------------------------------------------------------------------------
QueueInit ==
    /\ Init
    /\ storage = [q \in Sized |-> [i \in 0 .. uxLength[q] - 1 |-> CHOOSE x \in Item : TRUE]]
    /\ pcWriteTo = [q \in Sized |-> 0]
    /\ pcReadFrom = [q \in Sized |-> uxLength[q] - 1]
    /\ uxMessagesWaiting = [q \in Queue |-> IF q \in Mutex THEN 1 ELSE 0]
    /\ cRxLock = [q \in Queue |-> queueUNLOCKED]
    /\ cTxLock = [q \in Queue |-> queueUNLOCKED]
    /\ pvBuffer = "nothing"
    /\ pxMutexHolder = [q \in Mutex |-> "NULL"]
    /\ uxMutexesHeld = [t \in Task |-> 0]
    /\ waiters = [l \in ObjectLists |-> <<>>]
    /\ eventPriority = InitialPriority
    /\ call = [t \in Task |-> NoCall]
    /\ due = [t \in Task |-> 0]
    /\ sent = "nothing"

\* The tasks of s that list says are in l, in the order of s.
Staying(s, list, l) ==
    LET first[n \in 0 .. Len(s)] ==
            IF n = 0 THEN <<>>
            ELSE IF list[s[n]] = l THEN Append(first[n - 1], s[n]) ELSE first[n - 1]
    IN  first[Len(s)]

\* What a step of the scheduler does to the queues: a task that leaves its event list leaves the
\* others in order, vTaskPrioritySet writes the value of an event list item where it is, time goes by.
KeepQueues ==
    /\ waiters' = [l \in ObjectLists |-> Staying(waiters[l], eventList', l)]
    /\ eventPriority' = [t \in Task |-> IF uxBasePriority'[t] # uxBasePriority[t]
                                        THEN uxBasePriority'[t] ELSE eventPriority[t]]
    /\ due' = [t \in Task |-> IF xTickCount' # xTickCount /\ due[t] > 0
                              THEN due[t] - 1 ELSE due[t]]
    /\ UNCHANGED <<dataVars, lockVars, mutexVars, call>>

\* A step of the scheduler, or another call.
SchedulerStep ==
    \/ Interrupt /\ KeepQueues
    \/ \E t \in Task : \/ Continue(t) /\ KeepQueues
                       \/ Yield(t) /\ (pc[t] = "yield" \/ call[t] = NoCall) /\ KeepQueues
                       \/ Call(t) /\ call[t] = NoCall /\ KeepQueues

Contents(q) == IF q \in Sized THEN Item ELSE {"nothing"}

QueueCall(t) ==
    \/ \E q \in Queue, position \in CopyPositions, n \in SendWaits, item \in Item \union {"nothing"} :
           item \in Contents(q) /\ xQueueGenericSend(t, q, item, position, n)
    \/ \E q \in Queue, mode \in ReceiveModes[t], n \in ReceiveWaits :
           xQueueGenericReceive(t, q, mode, n)
    \/ \E q \in Resettable : xQueueReset(t, q)

\* The rest of a queue call, once begun.
QueueContinue(t) ==
    \/ SendItem(t)
    \/ SendFailsOrWaits(t)
    \/ ReceiveItem(t)
    \/ ReceiveFailsOrWaits(t)
    \/ ReturnExpired(t)
    \/ SuspendAllToWait(t)
    \/ prvLockQueue(t)
    \/ CheckForTimeOut(t)
    \/ TestQueue(t)
    \/ vTaskPriorityInherit(t)
    \/ vTaskPlaceOnEventList(t)
    \/ UnlockTx(t)
    \/ UnlockRx(t)

QueueInterrupt ==
    \/ \E q \in IsrSends, position \in CopyPositions, item \in Item \union {"nothing"} :
           item \in Contents(q) /\ xQueueGenericSendFromISR(q, item, position)
    \/ \E q \in IsrReceives : xQueueReceiveFromISR(q)

QueueNext ==
    \/ SchedulerStep
    \/ QueueInterrupt
    \/ \E t \in Task : QueueCall(t) \/ QueueContinue(t)

QueueSpec == QueueInit /\ [][QueueNext]_allVars

(***************************************************************************)
(* Fairness.  The processor executes the kernel code of the running task.  *)
(* The application leaves the sections and the scheduler suspension that   *)
(* it enters, as the API demands; it can be switched out in between.  The  *)
(* timer keeps counting, so a tick that waits behind the threshold is      *)
(* taken when that opens again and again.                                  *)
(***************************************************************************)
QueueFairSpec ==
    /\ QueueSpec
    /\ \A t \in Task : /\ WF_allVars(QueueContinue(t))
                       /\ WF_allVars(Continue(t) /\ KeepQueues)
                       /\ WF_allVars(pc[t] = "yield" /\ Yield(t) /\ KeepQueues)
                       /\ SF_allVars(UserExitCritical(t) /\ KeepQueues)
                       /\ SF_allVars(call[t] = NoCall /\ UserResumeAll(t) /\ KeepQueues)
    /\ SF_allVars(TimerTick /\ KeepQueues)
---------------------------------------------------------------------------
(* Properties *)

\* The types of the scheduler's and the queues' variables.  An item count stays within the queue,
\* a lock count within its bound, and the lists of waiters are what eventList says of the tasks.
QueueTypeOK ==
    /\ TypeOK
    /\ \A q \in Sized : /\ pcWriteTo[q] \in 0 .. uxLength[q] - 1
                        /\ pcReadFrom[q] \in 0 .. uxLength[q] - 1
                        /\ storage[q] \in [0 .. uxLength[q] - 1 -> Item]
    /\ \A q \in Queue : /\ uxMessagesWaiting[q] \in 0 .. uxLength[q]
                        /\ cTxLock[q] \in queueUNLOCKED .. MaxLock
                        /\ cRxLock[q] \in queueUNLOCKED .. MaxLock
    /\ \A l \in ObjectLists :
           /\ {waiters[l][i] : i \in DOMAIN waiters[l]} = {t \in Task : eventList[t] = l}
           /\ Len(waiters[l]) = Cardinality({t \in Task : eventList[t] = l})
    /\ pxMutexHolder \in [Mutex -> Task \union {"NULL"}]
    /\ uxMutexesHeld \in [Task -> 0 .. Cardinality(Mutex)]
    /\ eventPriority \in [Task -> Priority]
    /\ due \in [Task -> Tick]

\* With that, a task that is woken and more urgent than the one that runs is switched to.
QueueIsSound == QueueTypeOK /\ HighestPriorityRuns

(***************************************************************************)
(* No lost wake-up.  If tasks wait to receive, every item in the queue is  *)
(* on its way to somebody: a task that is in the call and awake (woken, or *)
(* about to try), or one that prvUnlockQueue is going to wake for it.      *)
(* Likewise for those that wait to send and the room in the queue; there   *)
(* one sender is meant if there is an xQueueReset, which wakes one task    *)
(* whatever room it makes.                                                 *)
(***************************************************************************)
Awake(q, op, l) ==
    {t \in Task : call[t] # NoCall /\ call[t].op = op /\ call[t].q = q /\ eventList[t] # l}

Counted(lock) == IF lock = queueUNLOCKED THEN 0 ELSE lock

NobodyWaitsForAnItem ==
    \A q \in Queue :
        LET l == xTasksWaitingToReceive[q] IN
        SomebodyWaits(l) =>
            uxMessagesWaiting[q] <= Cardinality(Awake(q, "receive", l)) + Counted(cTxLock[q])

NobodyWaitsForRoom ==
    \A q \in {x \in Queue : x \in Resettable => Cardinality(SendingTasks) = 1} :
        LET l == xTasksWaitingToSend[q] IN
        SomebodyWaits(l) =>
            Room(q) <= Cardinality(Awake(q, "send", l)) + Counted(cRxLock[q])

\* A call that gives up has waited as many ticks as it was told to, however often it was woken
\* for nothing and tried again, and however often the tick count wrapped.
NeverTimesOutEarly ==
    \A t \in Task : call[t] # NoCall /\ call[t].expired => due[t] = 0

\* What is in the storage, oldest first.
Stored(q) ==
    [i \in 1 .. uxMessagesWaiting[q] |-> storage[q][(pcReadFrom[q] + i) % uxLength[q]]]

Fifo == INSTANCE BoundedFifo WITH
    Name <- Sized, Length <- uxLength, Value <- Item,
    items <- [q \in Sized |-> Stored(q)], in <- sent, out <- pvBuffer

\* The ring of storage with its two indices, used by tasks and interrupts, is a bounded queue:
\* nothing is lost, doubled or out of order, and every item that a call was told it has sent,
\* an overwriting one included, is there.
ImplementsFifo == Fifo!FifoSpec

(***************************************************************************)
(* Priority inheritance: a task that waits for a mutex waits for one that  *)
(* is as urgent as itself, so that nobody in between can keep it waiting;  *)
(* also one that has timed out, until the mutex is given.  A task in the   *)
(* event list alone is meant: one that was woken is to take the mutex.     *)
(***************************************************************************)
HolderIsAsUrgent ==
    \A q \in Mutex, t \in Task :
        eventList[t] = xTasksWaitingToReceive[q] /\ pxMutexHolder[q] # "NULL" =>
            uxPriority[pxMutexHolder[q]] >= uxPriority[t]

\* The inherited priority goes back when the last mutex is given, not later; uxMutexesHeld, by
\* which the code knows the last, is how many a task holds.
InheritedOnlyByHolders ==
    /\ \A q \in Mutex : uxMessagesWaiting[q] = 0 <=> pxMutexHolder[q] # "NULL"
    /\ \A t \in Task :
           /\ uxMutexesHeld[t] = Cardinality({q \in Mutex : pxMutexHolder[q] = t})
           /\ uxPriority[t] # uxBasePriority[t] => uxMutexesHeld[t] > 0

\* No task keeps a queue locked: prvUnlockQueue comes, whatever interrupts do.
IsLocked(q) == cTxLock[q] # queueUNLOCKED \/ cRxLock[q] # queueUNLOCKED

LockedQueueIsUnlocked == \A q \in Queue : IsLocked(q) ~> ~IsLocked(q)
===========================================================================
