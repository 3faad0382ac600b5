----------------------------- MODULE UcosTasks ----------------------------
(***************************************************************************)
(* uC/OS-II on the N200: the scheduler, the tick, tasks and delays         *)
(* (software/ucosii/source/os_core.c, os_task.c, os_time.c and the port in *)
(* software/ucosii/arch).                                                  *)
(*                                                                         *)
(* Every priority belongs to one task at most.  The ready table and the    *)
(* wait list of an event are bitmaps, here sets of priorities; 0 is the    *)
(* most urgent.  A task runs with interrupts enabled between two actions   *)
(* and masked within one: an action is a critical section, or OS_Sched,    *)
(* which has one of its own.  pc[t] says what task t does when it runs     *)
(* next:                                                                   *)
(*   "app"     the application; it may call any service                    *)
(*   "sched"   OS_Sched, the last thing a service does                     *)
(*   "pend"    OS_Sched in a call that waits for an event                  *)
(*   "wake"    the rest of that call, after the task was switched back in  *)
(*   "create"  the rest of OSTaskCreate, for priority arg[t]               *)
(*   "delete"  the rest of OSTaskDel, for the task arg[t]                  *)
(*                                                                         *)
(* The tick is the only interrupt that switches tasks: time_handler calls  *)
(* OSIntEnter, OSTimeTick and OSIntExit and then task_switch.              *)
(***************************************************************************)
EXTENDS Integers, FiniteSets, FiniteSetsExt

CONSTANTS
    Task,               \* task control blocks
    Idle,               \* OS_TaskIdle, which never waits
    Lowest,             \* OS_LOWEST_PRIO, the priority of Idle
    NoTask,             \* the null pointer in OSTCBPrioTbl and OSTCBEventPtr
    Reserved,           \* OS_TCB_RESERVED
    FirstPrio,          \* the priority of a task at the start, or NoTask
    Event,              \* event control blocks
    Kind,               \* of an event: "SEM", "MBOX", "Q" or "MUTEX"
    Pip,                \* of a mutex: the priority its holder may inherit
    \* Bounds
    MaxLock,            \* OSSchedLock calls that are open at a time
    \* What the application does
    Delays,             \* arguments of OSTimeDly
    Deletable,          \* tasks that OSTaskDel is called for
    Suspendable,        \* ... OSTaskSuspend and OSTaskResume
    Changeable,         \* tasks that change their own priority ...
    ChangedByOthers,    \* ... and those whose priority others change
    NewPrios,           \* arguments of OSTaskChangePrio and OSTaskCreate
    HolderMayBlock      \* does a task that holds a mutex wait or sleep?

VARIABLES
    OSTCBCur,           \* the task that runs
    OSTCBHighRdy,       \* the task to switch to
    OSPrioCur,          \* the priorities of the two, as last written
    OSPrioHighRdy,
    OSIntNesting,       \* 1 in the tick handler
    OSLockNesting,      \* open OSSchedLock calls
    OSTCBPrioTbl,       \* the task of a priority, NoTask or Reserved
    OSRdyTbl,           \* the priorities that are ready
    OSTCBPrio,          \* of a task: its priority,
    OSTCBStat,          \* ... what it waits for, a set; {} is OS_STAT_RDY
    OSTCBStatPend,      \* ... why its last wait ended: "OK", "TO", "ABORT"
    OSTCBDly,           \* ... the ticks it still sleeps or waits
    OSTCBEventPtr,      \* ... the event it waits for, or NoTask
    OSEventTbl,         \* of an event: the priorities that wait for it
    OSEventOwner,       \* of a mutex: OSEventPtr, its holder or NoTask
    pc, arg

tcbVars == <<OSTCBStat, OSTCBStatPend, OSTCBDly>>
schedVars == <<OSTCBCur, OSTCBHighRdy, OSPrioCur, OSPrioHighRdy>>
nestVars == <<OSIntNesting, OSLockNesting>>
prioVars == <<OSTCBPrioTbl, OSTCBPrio>>
eventVars == <<OSTCBEventPtr, OSEventTbl, OSEventOwner>>
taskVars == <<schedVars, nestVars, prioVars, OSRdyTbl, tcbVars, eventVars, pc, arg>>

Prio == 0 .. Lowest
Mutex == {e \in Event : Kind[e] = "MUTEX"}

ASSUME UcosAssumption ==
    /\ IsFiniteSet(Task) /\ Idle \in Task
    /\ NoTask \notin Task \cup Event \cup Prio /\ Reserved \notin Task \cup {NoTask}
    /\ Lowest \in Nat
    /\ FirstPrio \in [Task -> Prio \cup {NoTask}] /\ FirstPrio[Idle] = Lowest
    /\ Kind \in [Event -> {"SEM", "MBOX", "Q", "MUTEX"}]
    /\ Pip \in [Mutex -> Prio]
    \* OSTaskCreate and OSMutexCreate refuse a priority that is taken.
    /\ \A t, u \in Task : FirstPrio[t] = FirstPrio[u] /\ FirstPrio[t] # NoTask => t = u
    /\ \A m, n \in Mutex : Pip[m] = Pip[n] => m = n
    /\ \A m \in Mutex, t \in Task : Pip[m] # FirstPrio[t]
    /\ MaxLock \in Nat
    /\ Delays \subseteq Nat \ {0}
    /\ Deletable \cup Suspendable \cup Changeable \cup ChangedByOthers
            \subseteq Task \ {Idle}
    /\ NewPrios \subseteq Prio \ {Lowest}
    /\ HolderMayBlock \in BOOLEAN

\* OS_STAT_PEND_ANY: a wait for an event of any kind
PendAny == {"SEM", "MBOX", "Q", "MUTEX"}

Created == {t \in Task : \E p \in Prio : OSTCBPrioTbl[p] = t}
HighestReady == Min(OSRdyTbl)

\* Task t runs, and no interrupt does.
Running(t) == OSTCBCur = t /\ OSIntNesting = 0
\* OS_TaskIdle calls no service.
InApp(t) == Running(t) /\ pc[t] = "app" /\ t # Idle
Goto(t, label) == pc' = [pc EXCEPT ![t] = label]

Holds(t) == \E m \in Mutex : OSEventOwner[m] = t
MayBlock(t) == OSLockNesting = 0 /\ (HolderMayBlock \/ ~Holds(t))

-----------------------------------------------------------------------------
(* Scheduling *)

OS_SchedNew(ready) ==
    /\ OSPrioHighRdy' = Min(ready)
    /\ OSTCBHighRdy' = OSTCBPrioTbl[Min(ready)]

\* task_switch of the port
task_switch ==
    /\ OSTCBCur' = OSTCBHighRdy'
    /\ OSPrioCur' = OSPrioHighRdy'

\* The ECALL of OS_TASK_SW switches at once, inside the critical section of
\* OS_Sched; nothing but the end of that section is left for the return.
OS_Sched(t) ==
    /\ Running(t) /\ pc[t] \in {"sched", "pend"}
    /\ Goto(t, IF pc[t] = "pend" THEN "wake" ELSE "app")
    /\ IF OSLockNesting = 0
       THEN /\ OS_SchedNew(OSRdyTbl)
            /\ IF HighestReady # OSPrioCur
               THEN task_switch
               ELSE UNCHANGED <<OSTCBCur, OSPrioCur>>
       ELSE UNCHANGED schedVars
    /\ UNCHANGED <<nestVars, prioVars, OSRdyTbl, tcbVars, eventVars, arg>>

OSSchedLock(t) ==
    /\ InApp(t) /\ OSLockNesting < MaxLock
    /\ OSLockNesting' = OSLockNesting + 1
    /\ UNCHANGED <<schedVars, OSIntNesting, prioVars, OSRdyTbl, tcbVars, eventVars,
                   pc, arg>>

\* Variant: the switches that were put off are not made up.
UnlockWithoutSched(t) ==
    /\ InApp(t) /\ OSLockNesting > 0
    /\ OSLockNesting' = OSLockNesting - 1
    /\ UNCHANGED <<schedVars, OSIntNesting, prioVars, OSRdyTbl, tcbVars, eventVars,
                   pc, arg>>

OSSchedUnlock(t) ==
    /\ InApp(t) /\ OSLockNesting > 0
    /\ OSLockNesting' = OSLockNesting - 1
    /\ Goto(t, IF OSLockNesting = 1 THEN "sched" ELSE "app")
    /\ UNCHANGED <<schedVars, OSIntNesting, prioVars, OSRdyTbl, tcbVars, eventVars, arg>>

\* Variant: task_switch is told of a task although the scheduler is locked.
OSIntExitAlways(ready) ==
    /\ OSIntNesting' = 0
    /\ OS_SchedNew(ready)
    /\ task_switch

\* OSIntExit of this port leaves the switch to task_switch, which time_handler
\* calls in any case.
OSIntExit(ready) ==
    /\ OSIntNesting' = 0
    /\ IF OSLockNesting = 0
       THEN OS_SchedNew(ready)
       ELSE UNCHANGED <<OSTCBHighRdy, OSPrioHighRdy>>
    /\ task_switch

\* OSTimeTick counts down every delay and every timeout.
Due == {t \in Created : OSTCBDly[t] = 1}

TimedOut(t) ==
    IF OSTCBStat[t] \cap PendAny # {} THEN "TO" ELSE "OK"

\* Variant: a task is made ready although it is suspended.
WakeableAlways(t) == TRUE

Wakeable(t) == "SUSPEND" \notin OSTCBStat[t]

time_handler ==
    LET ready == OSRdyTbl \cup {OSTCBPrio[t] : t \in {u \in Due : Wakeable(u)}} IN
    /\ OSTCBDly' = [t \in Task |-> IF OSTCBDly[t] > 0 THEN OSTCBDly[t] - 1 ELSE 0]
    /\ OSTCBStat' = [t \in Task |-> IF t \in Due THEN OSTCBStat[t] \ PendAny ELSE OSTCBStat[t]]
    /\ OSTCBStatPend' = [t \in Task |-> IF t \in Due THEN TimedOut(t) ELSE OSTCBStatPend[t]]
    /\ OSRdyTbl' = ready
    /\ OSIntExit(ready)
    /\ UNCHANGED <<OSLockNesting, prioVars, eventVars, pc, arg>>

-----------------------------------------------------------------------------
(* Time *)

OSTimeDly(t) ==
    /\ InApp(t) /\ MayBlock(t)
    /\ \E ticks \in Delays : OSTCBDly' = [OSTCBDly EXCEPT ![t] = ticks]
    /\ OSRdyTbl' = OSRdyTbl \ {OSTCBPrio[t]}
    /\ Goto(t, "sched")
    /\ UNCHANGED <<schedVars, nestVars, prioVars, OSTCBStat, OSTCBStatPend, eventVars, arg>>

\* A task that waits for an event is told that its time is over.
OSTimeDlyResume(t, d) ==
    /\ InApp(t) /\ d \in Created /\ OSTCBDly[d] # 0
    /\ OSTCBDly' = [OSTCBDly EXCEPT ![d] = 0]
    /\ OSTCBStat' = [OSTCBStat EXCEPT ![d] = @ \ PendAny]
    /\ OSTCBStatPend' = [OSTCBStatPend EXCEPT ![d] = TimedOut(d)]
    /\ OSRdyTbl' = IF Wakeable(d) THEN OSRdyTbl \cup {OSTCBPrio[d]} ELSE OSRdyTbl
    /\ Goto(t, IF Wakeable(d) THEN "sched" ELSE "app")
    /\ UNCHANGED <<schedVars, nestVars, prioVars, eventVars, arg>>

-----------------------------------------------------------------------------
(* Tasks *)

\* OSTaskCreate reserves the priority first, and fills the control block in
\* outside of its critical sections.
OSTaskCreate(t) ==
    /\ InApp(t)
    /\ \E p \in NewPrios :
        /\ OSTCBPrioTbl[p] = NoTask
        /\ OSTCBPrioTbl' = [OSTCBPrioTbl EXCEPT ![p] = Reserved]
        /\ arg' = [arg EXCEPT ![t] = p]
    /\ Goto(t, "create")
    /\ UNCHANGED <<schedVars, nestVars, OSTCBPrio, OSRdyTbl, tcbVars, eventVars>>

\* Any control block that is free may be the first of OSTCBFreeList.
OS_TCBInit(t, new) ==
    /\ Running(t) /\ pc[t] = "create" /\ new \notin Created
    /\ OSTCBPrioTbl' = [OSTCBPrioTbl EXCEPT ![arg[t]] = new]
    /\ OSTCBPrio' = [OSTCBPrio EXCEPT ![new] = arg[t]]
    /\ OSTCBStat' = [OSTCBStat EXCEPT ![new] = {}]
    /\ OSTCBStatPend' = [OSTCBStatPend EXCEPT ![new] = "OK"]
    /\ OSTCBDly' = [OSTCBDly EXCEPT ![new] = 0]
    /\ OSTCBEventPtr' = [OSTCBEventPtr EXCEPT ![new] = NoTask]
    /\ OSRdyTbl' = OSRdyTbl \cup {arg[t]}
    /\ pc' = [pc EXCEPT ![new] = "app", ![t] = "sched"]
    /\ arg' = [arg EXCEPT ![t] = NoTask]
    /\ UNCHANGED <<schedVars, nestVars, OSEventTbl, OSEventOwner>>

NoMoreTcb(t) ==
    /\ Running(t) /\ pc[t] = "create" /\ Created = Task
    /\ OSTCBPrioTbl' = [OSTCBPrioTbl EXCEPT ![arg[t]] = NoTask]
    /\ Goto(t, "app")
    /\ arg' = [arg EXCEPT ![t] = NoTask]
    /\ UNCHANGED <<schedVars, nestVars, OSTCBPrio, OSRdyTbl, tcbVars, eventVars>>

\* Variant: the task stays in the wait list.
WaitListsWith(d) == OSEventTbl

\* The wait lists without the entry of task d for the event it waits for
WaitListsWithout(d) ==
    [e \in Event |-> IF OSTCBEventPtr[d] = e
                     THEN OSEventTbl[e] \ {OSTCBPrio[d]} ELSE OSEventTbl[e]]

\* OSTaskDel takes the task out of every list, lets interrupts in with the
\* scheduler locked, and frees the control block.  A task that holds a mutex
\* must not be deleted.
OSTaskDel(t, d) ==
    /\ InApp(t) /\ d \in Created \cap Deletable /\ ~Holds(d)
    /\ d = t => OSLockNesting = 0
    /\ OSRdyTbl' = OSRdyTbl \ {OSTCBPrio[d]}
    /\ OSEventTbl' = WaitListsWithout(d)
    /\ OSTCBDly' = [OSTCBDly EXCEPT ![d] = 0]
    /\ OSTCBStat' = [OSTCBStat EXCEPT ![d] = {}]
    /\ OSTCBStatPend' = [OSTCBStatPend EXCEPT ![d] = "OK"]
    /\ OSLockNesting' = OSLockNesting + 1
    /\ pc' = [pc EXCEPT ![d] = "app", ![t] = "delete"]
    /\ arg' = [arg EXCEPT ![t] = d]
    /\ UNCHANGED <<schedVars, OSIntNesting, prioVars, OSTCBEventPtr, OSEventOwner>>

FinishDelete(t) ==
    /\ Running(t) /\ pc[t] = "delete"
    /\ OSLockNesting' = OSLockNesting - 1
    /\ OSTCBPrioTbl' = [OSTCBPrioTbl EXCEPT ![OSTCBPrio[arg[t]]] = NoTask]
    /\ Goto(t, "sched")
    /\ arg' = [arg EXCEPT ![t] = NoTask]
    /\ UNCHANGED <<schedVars, OSIntNesting, OSTCBPrio, OSRdyTbl, tcbVars, eventVars>>

OSTaskSuspend(t, d) ==
    /\ InApp(t) /\ d \in Created \cap Suspendable
    /\ HolderMayBlock \/ ~Holds(d)
    /\ d = t => OSLockNesting = 0
    /\ OSRdyTbl' = OSRdyTbl \ {OSTCBPrio[d]}
    /\ OSTCBStat' = [OSTCBStat EXCEPT ![d] = @ \cup {"SUSPEND"}]
    /\ Goto(t, IF d = t THEN "sched" ELSE "app")
    /\ UNCHANGED <<schedVars, nestVars, prioVars, OSTCBStatPend, OSTCBDly, eventVars, arg>>

\* A task that still waits or sleeps stays as it is.
ReadyOnResume(d) == OSTCBStat[d] = {"SUSPEND"} /\ OSTCBDly[d] = 0

OSTaskResume(t, d) ==
    /\ InApp(t) /\ d \in Created /\ "SUSPEND" \in OSTCBStat[d]
    /\ OSTCBStat' = [OSTCBStat EXCEPT ![d] = @ \ {"SUSPEND"}]
    /\ OSRdyTbl' = IF ReadyOnResume(d) THEN OSRdyTbl \cup {OSTCBPrio[d]} ELSE OSRdyTbl
    /\ Goto(t, IF ReadyOnResume(d) THEN "sched" ELSE "app")
    /\ UNCHANGED <<schedVars, nestVars, prioVars, OSTCBStatPend, OSTCBDly, eventVars, arg>>

\* The ready table and the wait list of the event that OSTCBEventPtr names get
\* the new priority in place of the old one; the latter also when the task is no
\* longer in that list.
OSTaskChangePrio(t, d) ==
    LET old == OSTCBPrio[d] IN
    /\ InApp(t) /\ OSLockNesting = 0 /\ d \in Created /\ ~Holds(d)
    /\ d \in IF d = t THEN Changeable ELSE ChangedByOthers
    /\ \E p \in NewPrios :
        /\ OSTCBPrioTbl[p] = NoTask
        /\ OSTCBPrioTbl' = [OSTCBPrioTbl EXCEPT ![old] = NoTask, ![p] = d]
        /\ OSRdyTbl' = IF old \in OSRdyTbl THEN (OSRdyTbl \ {old}) \cup {p} ELSE OSRdyTbl
        /\ OSEventTbl' = [e \in Event |-> IF OSTCBEventPtr[d] = e
                                          THEN (OSEventTbl[e] \ {old}) \cup {p}
                                          ELSE OSEventTbl[e]]
        /\ OSTCBPrio' = [OSTCBPrio EXCEPT ![d] = p]
    /\ Goto(t, "sched")
    /\ UNCHANGED <<schedVars, nestVars, tcbVars, OSTCBEventPtr, OSEventOwner, arg>>

-----------------------------------------------------------------------------
First == Min({FirstPrio[t] : t \in {u \in Task : FirstPrio[u] # NoTask}})

\* OSStart, with the tasks that were created before it
OSStart ==
    /\ OSTCBPrioTbl = [p \in Prio |->
            IF \E t \in Task : FirstPrio[t] = p
            THEN CHOOSE t \in Task : FirstPrio[t] = p
            ELSE IF \E m \in Mutex : Pip[m] = p THEN Reserved ELSE NoTask]
    /\ OSTCBPrio = [t \in Task |-> IF FirstPrio[t] = NoTask THEN Lowest ELSE FirstPrio[t]]
    /\ OSRdyTbl = {FirstPrio[t] : t \in {u \in Task : FirstPrio[u] # NoTask}}
    /\ OSPrioHighRdy = First
    /\ OSPrioCur = First
    /\ OSTCBHighRdy = OSTCBPrioTbl[First]
    /\ OSTCBCur = OSTCBHighRdy
    /\ OSIntNesting = 0
    /\ OSLockNesting = 0
    /\ OSTCBStat = [t \in Task |-> {}]
    /\ OSTCBStatPend = [t \in Task |-> "OK"]
    /\ OSTCBDly = [t \in Task |-> 0]
    /\ OSTCBEventPtr = [t \in Task |-> NoTask]
    /\ OSEventTbl = [e \in Event |-> {}]
    /\ OSEventOwner = [m \in Mutex |-> NoTask]
    /\ pc = [t \in Task |-> "app"]
    /\ arg = [t \in Task |-> NoTask]

-----------------------------------------------------------------------------
(* Properties *)

\* The variables keep their types, and the tables agree: a task is in the ready
\* table exactly when it is neither suspended nor asleep nor waiting, and its
\* priority leads to its control block.
TablesAgree ==
    /\ OSTCBCur \in Task /\ OSTCBHighRdy \in Task
    /\ OSPrioCur \in Prio /\ OSPrioHighRdy \in Prio
    /\ OSTCBPrio \in [Task -> Prio]
    /\ OSTCBPrioTbl \in [Prio -> Task \cup {NoTask, Reserved}]
    /\ OSRdyTbl = {OSTCBPrio[t] : t \in {u \in Created : OSTCBStat[u] = {} /\ OSTCBDly[u] = 0}}
                    \ {OSTCBPrio[arg[t]] : t \in {u \in Task : pc[u] = "delete"}}
    /\ \A t \in Created : OSTCBPrioTbl[OSTCBPrio[t]] = t
    /\ \A e \in Event : OSEventTbl[e] \subseteq Prio

\* With the scheduler unlocked the task that runs is the most urgent that is
\* ready, unless it is about to call OS_Sched: nobody forgets to.
HighestReadyRuns ==
    OSLockNesting = 0 /\ OSIntNesting = 0 /\ pc[OSTCBCur] \notin {"sched", "pend"}
        => OSTCBPrio[OSTCBCur] = HighestReady

\* With the scheduler locked the task that runs stays, although every tick ends
\* in task_switch.
LockedSchedulerStays ==
    [][OSLockNesting > 0 => OSTCBCur' = OSTCBCur]_taskVars
===========================================================================
