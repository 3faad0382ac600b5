---------------------------- MODULE UcosEvents ----------------------------
(***************************************************************************)
(* uC/OS-II: semaphores, mailboxes, message queues and mutexes             *)
(* (software/ucosii/source/os_sem.c, os_mbox.c, os_q.c, os_mutex.c and the *)
(* event functions of os_core.c), for tasks and for the tick's hook.       *)
(*                                                                         *)
(* An event other than a mutex is a number of things to take: the count of *)
(* a semaphore, 0 or 1 messages of a mailbox, the entries of a queue.  A   *)
(* post hands the thing to the most urgent task that waits, or adds it; so *)
(* only the number matters here, not the content of messages.              *)
(***************************************************************************)
EXTENDS UcosTasks

CONSTANTS
    Capacity,           \* the most an event can hold: 65535, 1, OSQSize
    Timeouts,           \* arguments of the pend functions; 0 waits for ever
    Pends,              \* of a task: the events it waits for
    TickPosts,          \* semaphores that the hook of the tick posts
    Counts              \* arguments of OSSemSet

VARIABLES
    OSEventCnt,         \* what there is to take; of a mutex: the priority of
                        \* its holder, or Available
    credit              \* history: posts less takes

ucosVars == <<taskVars, OSEventCnt, credit>>

Available == Lowest + 1     \* OS_MUTEX_AVAILABLE, no task's priority
Counted == Event \ Mutex

ASSUME UcosEventAssumption ==
    /\ Capacity \in [Counted -> Nat \ {0}]
    /\ \A e \in Counted : Kind[e] = "MBOX" => Capacity[e] = 1
    /\ Timeouts \subseteq Nat
    /\ Pends \in [Task \ {Idle} -> SUBSET Event]
    /\ TickPosts \subseteq {e \in Event : Kind[e] = "SEM"}
    /\ Counts \subseteq Nat

-----------------------------------------------------------------------------
(* The event functions of os_core.c *)

\* The most urgent task that waits, and all of them
MostUrgent(e) ==
    IF OSEventTbl[e] = {} THEN {} ELSE {OSTCBPrioTbl[Min(OSEventTbl[e])]}
Waiters(e) == {OSTCBPrioTbl[p] : p \in OSEventTbl[e]}

\* Variant: the status of the wait is not written.
EventTaskRdyKeepingStatus(e, S, status, ready) ==
    /\ OSTCBDly' = [t \in Task |-> IF t \in S THEN 0 ELSE OSTCBDly[t]]
    /\ OSTCBStat' = [t \in Task |-> IF t \in S THEN OSTCBStat[t] \ {Kind[e]} ELSE OSTCBStat[t]]
    /\ OSTCBStatPend' = OSTCBStatPend
    /\ OSRdyTbl' = ready \cup {OSTCBPrio[t] : t \in {u \in S : Wakeable(u)}}
    /\ OSEventTbl' = [OSEventTbl EXCEPT ![e] = @ \ {OSTCBPrio[t] : t \in S}]

\* OS_EventTaskRdy for every task of S; the event pointer of the task stays.
OS_EventTaskRdy(e, S, status, ready) ==
    /\ OSTCBDly' = [t \in Task |-> IF t \in S THEN 0 ELSE OSTCBDly[t]]
    /\ OSTCBStat' = [t \in Task |-> IF t \in S THEN OSTCBStat[t] \ {Kind[e]} ELSE OSTCBStat[t]]
    /\ OSTCBStatPend' = [t \in Task |-> IF t \in S THEN status ELSE OSTCBStatPend[t]]
    /\ OSRdyTbl' = ready \cup {OSTCBPrio[t] : t \in {u \in S : Wakeable(u)}}
    /\ OSEventTbl' = [OSEventTbl EXCEPT ![e] = @ \ {OSTCBPrio[t] : t \in S}]

\* OS_EventTaskWait, with what its callers write before it
OS_EventTaskWait(t, e, timeout, ready, waiting) ==
    /\ OSTCBStat' = [OSTCBStat EXCEPT ![t] = @ \cup {Kind[e]}]
    /\ OSTCBStatPend' = [OSTCBStatPend EXCEPT ![t] = "OK"]
    /\ OSTCBDly' = [OSTCBDly EXCEPT ![t] = timeout]
    /\ OSTCBEventPtr' = [OSTCBEventPtr EXCEPT ![t] = e]
    /\ OSEventTbl' = [waiting EXCEPT ![e] = @ \cup {OSTCBPrio[t]}]
    /\ OSRdyTbl' = ready \ {OSTCBPrio[t]}
    /\ Goto(t, "pend")

\* Tasks that were given something and have not run since
Granted(e) ==
    {t \in Created : pc[t] \in {"pend", "wake"} /\ OSTCBEventPtr[t] = e
                        /\ OSTCBStatPend[t] = "OK" /\ OSTCBPrio[t] \notin OSEventTbl[e]}

\* The second critical section of every pend function
FinishPend(t) ==
    LET e == OSTCBEventPtr[t]
        got == OSTCBStatPend[t] = "OK" IN
    /\ Running(t) /\ pc[t] = "wake"
    /\ OSEventTbl' = IF OSTCBStatPend[t] = "TO" THEN WaitListsWithout(t) ELSE OSEventTbl
    /\ OSTCBStat' = [OSTCBStat EXCEPT ![t] = {}]
    /\ OSTCBStatPend' = [OSTCBStatPend EXCEPT ![t] = "OK"]
    /\ OSTCBEventPtr' = [OSTCBEventPtr EXCEPT ![t] = NoTask]
    /\ Goto(t, "app")
    /\ credit' = IF got /\ e \in Counted THEN [credit EXCEPT ![e] = @ - 1] ELSE credit
    /\ UNCHANGED <<schedVars, nestVars, prioVars, OSRdyTbl, OSTCBDly, OSEventOwner, arg,
                   OSEventCnt>>

-----------------------------------------------------------------------------
(* Events that count *)

Take(e) ==
    /\ OSEventCnt[e] > 0
    /\ OSEventCnt' = [OSEventCnt EXCEPT ![e] = @ - 1]
    /\ credit' = [credit EXCEPT ![e] = @ - 1]
    /\ UNCHANGED taskVars

Pend(t, e) ==
    /\ InApp(t) /\ e \in Pends[t] /\ MayBlock(t)
    /\ \/ Take(e)
       \/ /\ OSEventCnt[e] = 0
          /\ \E timeout \in Timeouts :
                OS_EventTaskWait(t, e, timeout, OSRdyTbl, OSEventTbl)
          /\ UNCHANGED <<schedVars, nestVars, prioVars, OSEventOwner, arg,
                         OSEventCnt, credit>>

Accept(t, e) == InApp(t) /\ e \in Pends[t] /\ Take(e)

\* To the tasks of S, or else, with room for it, to the event itself
Post(e, S) ==
    \/ /\ S # {}
       /\ OS_EventTaskRdy(e, S, "OK", OSRdyTbl)
       /\ credit' = [credit EXCEPT ![e] = @ + Cardinality(S)]
       /\ UNCHANGED OSEventCnt
    \/ /\ S = {} /\ OSEventCnt[e] < Capacity[e]
       /\ OSEventCnt' = [OSEventCnt EXCEPT ![e] = @ + 1]
       /\ credit' = [credit EXCEPT ![e] = @ + 1]
       /\ UNCHANGED <<tcbVars, OSRdyTbl, OSEventTbl>>

\* A task that posts calls OS_Sched when it has made a task ready.
PostFromTask(t, e, S) ==
    /\ InApp(t) /\ Post(e, S)
    /\ Goto(t, IF S = {} THEN "app" ELSE "sched")
    /\ UNCHANGED <<schedVars, nestVars, prioVars, OSTCBEventPtr, OSEventOwner, arg>>

\* OSxxxPendAbort ends the wait of one task or of all.
PendAbort(t, e, S) ==
    /\ InApp(t) /\ S # {}
    /\ OS_EventTaskRdy(e, S, "ABORT", OSRdyTbl)
    /\ Goto(t, "sched")
    /\ UNCHANGED <<schedVars, nestVars, prioVars, OSTCBEventPtr, OSEventOwner, arg,
                   OSEventCnt, credit>>

SetCount(e, n) ==
    /\ OSEventCnt' = [OSEventCnt EXCEPT ![e] = n]
    /\ credit' = [credit EXCEPT ![e] = @ + n - OSEventCnt[e]]
    /\ UNCHANGED taskVars

OSSemPend(t, e) == Kind[e] = "SEM" /\ Pend(t, e)
OSSemAccept(t, e) == Kind[e] = "SEM" /\ Accept(t, e)
OSSemPost(t, e) == Kind[e] = "SEM" /\ PostFromTask(t, e, MostUrgent(e))
OSSemPendAbort(t, e) ==
    Kind[e] = "SEM" /\ \E S \in {MostUrgent(e), Waiters(e)} : PendAbort(t, e, S)
OSSemSet(t, e) ==
    /\ InApp(t) /\ Kind[e] = "SEM"
    /\ OSEventCnt[e] > 0 \/ OSEventTbl[e] = {}
    /\ \E n \in Counts : SetCount(e, n)

OSMboxPend(t, e) == Kind[e] = "MBOX" /\ Pend(t, e)
OSMboxAccept(t, e) == Kind[e] = "MBOX" /\ Accept(t, e)
OSMboxPost(t, e) == Kind[e] = "MBOX" /\ PostFromTask(t, e, MostUrgent(e))
OSMboxPostOpt(t, e) == Kind[e] = "MBOX" /\ PostFromTask(t, e, Waiters(e))
OSMboxPendAbort(t, e) ==
    Kind[e] = "MBOX" /\ \E S \in {MostUrgent(e), Waiters(e)} : PendAbort(t, e, S)

OSQPend(t, e) == Kind[e] = "Q" /\ Pend(t, e)
OSQAccept(t, e) == Kind[e] = "Q" /\ Accept(t, e)
OSQPost(t, e) == Kind[e] = "Q" /\ PostFromTask(t, e, MostUrgent(e))
OSQPostOpt(t, e) == Kind[e] = "Q" /\ PostFromTask(t, e, Waiters(e))
OSQPendAbort(t, e) ==
    Kind[e] = "Q" /\ \E S \in {MostUrgent(e), Waiters(e)} : PendAbort(t, e, S)
OSQFlush(t, e) == InApp(t) /\ Kind[e] = "Q" /\ SetCount(e, 0)

-----------------------------------------------------------------------------
(* Mutexes *)

\* The holder h moves to the inherited priority: in the ready table, or in the
\* wait list of the event that OSTCBEventPtr names.  Its old priority stays
\* reserved for it in OSTCBPrioTbl.
Inherits(m, t) ==
    LET h == OSEventOwner[m] IN
    OSTCBPrio[h] > Pip[m] /\ OSEventCnt[m] > OSTCBPrio[t]

RaisedReady(h, p) ==
    IF OSTCBPrio[h] \in OSRdyTbl THEN (OSRdyTbl \ {OSTCBPrio[h]}) \cup {p} ELSE OSRdyTbl

RaisedWaiting(h, p) ==
    [e \in Event |-> IF OSTCBPrio[h] \notin OSRdyTbl /\ OSTCBEventPtr[h] = e
                     THEN (OSEventTbl[e] \ {OSTCBPrio[h]}) \cup {p} ELSE OSEventTbl[e]]

TakeMutex(t, m) ==
    /\ OSEventCnt[m] = Available
    /\ OSEventCnt' = [OSEventCnt EXCEPT ![m] = OSTCBPrio[t]]
    /\ OSEventOwner' = [OSEventOwner EXCEPT ![m] = t]
    /\ UNCHANGED <<schedVars, nestVars, prioVars, OSRdyTbl, tcbVars, OSTCBEventPtr,
                   OSEventTbl, pc, arg, credit>>

WaitForMutex(t, m) ==
    LET h == OSEventOwner[m]
        p == IF Inherits(m, t) THEN Pip[m] ELSE OSTCBPrio[h] IN
    /\ OSEventCnt[m] # Available
    /\ OSTCBPrio' = [OSTCBPrio EXCEPT ![h] = p]
    /\ OSTCBPrioTbl' = [OSTCBPrioTbl EXCEPT ![p] = h]
    /\ \E timeout \in Timeouts :
            OS_EventTaskWait(t, m, timeout, RaisedReady(h, p), RaisedWaiting(h, p))
    /\ UNCHANGED <<schedVars, nestVars, OSEventOwner, arg, OSEventCnt, credit>>

OSMutexPend(t, m) ==
    /\ InApp(t) /\ m \in Mutex \cap Pends[t] /\ MayBlock(t)
    /\ TakeMutex(t, m) \/ WaitForMutex(t, m)

OSMutexAccept(t, m) ==
    InApp(t) /\ m \in Mutex \cap Pends[t] /\ TakeMutex(t, m)

\* Variant: the inherited priority is kept.
LoweredNot(t, m) == OSTCBPrio[t]

\* The holder returns to its own priority, in OSPrioCur too; then the mutex goes
\* to the most urgent task that waits.  Without one OS_Sched is not called.
Lowered(t, m) == IF OSTCBPrio[t] = Pip[m] THEN OSEventCnt[m] ELSE OSTCBPrio[t]

OSMutexPost(t, m) ==
    LET p == Lowered(t, m)
        next == MostUrgent(m)
        ready == (OSRdyTbl \ {OSTCBPrio[t]}) \cup {p} IN
    /\ InApp(t) /\ m \in Mutex /\ OSEventOwner[m] = t
    /\ OSTCBPrio' = [OSTCBPrio EXCEPT ![t] = p]
    /\ OSPrioCur' = IF OSTCBPrio[t] = Pip[m] THEN p ELSE OSPrioCur
    /\ OSTCBPrioTbl' = [OSTCBPrioTbl EXCEPT ![p] = t, ![Pip[m]] = Reserved]
    /\ OS_EventTaskRdy(m, next, "OK", ready)
    /\ OSEventCnt' = [OSEventCnt EXCEPT ![m] =
            IF next # {} THEN Min(OSEventTbl[m]) ELSE Available]
    /\ OSEventOwner' = [OSEventOwner EXCEPT ![m] =
            IF next # {} THEN CHOOSE u \in next : TRUE ELSE NoTask]
    /\ Goto(t, IF next # {} THEN "sched" ELSE "app")
    /\ UNCHANGED <<OSTCBCur, OSTCBHighRdy, OSPrioHighRdy, nestVars, OSTCBEventPtr, arg,
                   credit>>

-----------------------------------------------------------------------------
(* The tick, and the specification *)

\* OSTimeTickHook posts the semaphore of the timer task; OS_Sched does nothing
\* in an interrupt.
OSTimeTickHook(e) ==
    /\ OSIntNesting = 0 /\ OSIntNesting' = 1
    /\ Post(e, MostUrgent(e))
    /\ UNCHANGED <<schedVars, OSLockNesting, prioVars, OSTCBEventPtr, OSEventOwner, pc, arg>>

Tick == time_handler /\ UNCHANGED <<OSEventCnt, credit>>

\* What was given to a task that is deleted goes with it.
DeleteTask(t, d) ==
    /\ OSTaskDel(t, d)
    /\ credit' = [e \in Counted |-> IF d \in Granted(e) THEN credit[e] - 1 ELSE credit[e]]
    /\ UNCHANGED OSEventCnt

CallsTasks(t) ==
    /\ \/ OS_Sched(t) \/ OSSchedLock(t) \/ OSSchedUnlock(t) \/ OSTimeDly(t)
       \/ OSTaskCreate(t) \/ NoMoreTcb(t) \/ FinishDelete(t)
       \/ \E d \in Task : \/ OSTimeDlyResume(t, d) \/ OS_TCBInit(t, d)
                          \/ OSTaskSuspend(t, d) \/ OSTaskResume(t, d)
                          \/ OSTaskChangePrio(t, d)
    /\ UNCHANGED <<OSEventCnt, credit>>

CallsEvent(t, e) ==
    \/ OSSemPend(t, e) \/ OSSemAccept(t, e) \/ OSSemPost(t, e)
    \/ OSSemPendAbort(t, e) \/ OSSemSet(t, e)
    \/ OSMboxPend(t, e) \/ OSMboxAccept(t, e) \/ OSMboxPost(t, e)
    \/ OSMboxPostOpt(t, e) \/ OSMboxPendAbort(t, e)
    \/ OSQPend(t, e) \/ OSQAccept(t, e) \/ OSQPost(t, e)
    \/ OSQPostOpt(t, e) \/ OSQPendAbort(t, e) \/ OSQFlush(t, e)
    \/ OSMutexPend(t, e) \/ OSMutexAccept(t, e) \/ OSMutexPost(t, e)

UcosInit ==
    /\ OSStart
    /\ OSEventCnt = [e \in Event |-> IF e \in Mutex THEN Available ELSE 0]
    /\ credit = [e \in Counted |-> 0]

UcosNext ==
    \/ Tick
    \/ \E e \in TickPosts : OSTimeTickHook(e)
    \/ \E t \in {OSTCBCur} :
        \/ CallsTasks(t) \/ FinishPend(t)
        \/ \E d \in Task : DeleteTask(t, d)
        \/ \E e \in Event : CallsEvent(t, e)

UcosSpec == UcosInit /\ [][UcosNext]_ucosVars

-----------------------------------------------------------------------------
(* Properties *)

\* A wait list holds exactly the tasks inside a pend call that were neither
\* given what they wait for nor sent away: OS_EventTaskRdy readies only tasks
\* that were waiting.  A task whose time is over stays until it runs.
WaitListsAreExact ==
    \A e \in Event :
        OSEventTbl[e] = {OSTCBPrio[t] : t \in {u \in Created :
            /\ OSTCBEventPtr[u] = e /\ pc[u] \in {"pend", "wake"}
            /\ Kind[e] \in OSTCBStat[u] \/ OSTCBStatPend[u] = "TO"}}

\* Every post is taken once: what was posted and not yet taken is in the event,
\* or was handed to a task that has still to run; and nobody waits for an event
\* that has something to take.
NothingIsLost ==
    \A e \in Counted :
        /\ credit[e] = OSEventCnt[e] + Cardinality(Granted(e))
        /\ OSEventCnt[e] > 0 => OSEventTbl[e] = {}

\* The holder of a mutex runs at its own or the inherited priority, is as urgent
\* as any task that waits, and nobody else has the priority of the mutex.
HolderIsAsUrgent ==
    \A m \in Mutex :
        LET h == OSEventOwner[m] IN
        /\ h = NoTask <=> OSEventCnt[m] = Available
        /\ h = NoTask => OSEventTbl[m] = {}
        /\ h # NoTask => /\ OSTCBPrio[h] \in {OSEventCnt[m], Pip[m]}
                         /\ \A p \in OSEventTbl[m] : OSTCBPrio[h] < p
        /\ \A t \in Created : OSTCBPrio[t] = Pip[m] => t = h
===========================================================================
