---------------------------- MODULE Ucos_proofs ----------------------------
(***************************************************************************)
(* Proofs about UcosTasks and UcosEvents: the tables, the running task,    *)
(* the wait lists and the mutexes of uC/OS-II, for every set of tasks and  *)
(* events and every number of priorities.                                  *)
(***************************************************************************)
EXTENDS UcosEvents, FiniteSetTheorems, WellFoundedInduction, TLAPS

\* Every nonempty set of naturals has a least element: the prefixes of the set
\* are finite sets, so one of them is minimal for the strict subset order.
LEMMA LeastElement ==
    ASSUME NEW S \in SUBSET Nat, S # {}
    PROVE  \E m \in S : \A k \in S : m <= k
<1>1. PICK n \in S : TRUE
  OBVIOUS
<1>. DEFINE X == 0 .. n
            F(m) == S \cap (0 .. m)
            T == {F(m) : m \in S \cap X}
<1>2. IsFiniteSet(X)
  BY FS_Interval, n \in Int, 0 \in Int
<1>3. T \subseteq FiniteSubsetsOf(X)
  <2>. SUFFICES ASSUME NEW m \in S \cap X PROVE F(m) \in FiniteSubsetsOf(X)
    OBVIOUS
  <2>1. F(m) \in SUBSET X
    OBVIOUS
  <2>2. IsFiniteSet(F(m))
    BY <1>2, <2>1, FS_Subset
  <2>. QED
    BY <2>1, <2>2 DEF FiniteSubsetsOf
<1>4. T # {}
  <2>1. n \in S \cap X
    BY <1>1
  <2>2. F(n) \in T
    BY <2>1
  <2>. QED BY <2>2
<1>. HIDE DEF T
<1>5. PICK x \in T : \A y \in T : ~ (<<y, x>> \in StrictSubsetOrdering(X))
  BY <1>3, <1>4, WFMin, FS_StrictSubsetOrderingWellFounded, Zenon
<1>. USE DEF T
<1>6. PICK m \in S \cap X : x = F(m)
  BY <1>5
<1>7. SUFFICES ASSUME NEW k \in S, k < m PROVE FALSE
  BY <1>6
<1>8. k \in S \cap X /\ F(k) \in T
  BY <1>6, <1>7
<1>9. F(k) \subseteq F(m) /\ m \in F(m) /\ m \notin F(k)
  BY <1>6, <1>7
<1>10. <<F(k), F(m)>> \in StrictSubsetOrdering(X)
  BY <1>8, <1>9 DEF StrictSubsetOrdering
<1>. QED
  BY <1>5, <1>6, <1>8, <1>10

(***************************************************************************)
(* What the application has to keep to.  Each part is needed: without it   *)
(* TLC finds a counterexample (README, section 7).                         *)
(***************************************************************************)
Discipline ==
    \* Tasks change their own priority only.
    /\ ChangedByOthers = {}
    \* A task that holds a mutex neither waits nor sleeps, ...
    /\ ~HolderMayBlock
    \* ... it uses one, is less urgent than its priority, and is not suspended or deleted.
    /\ \A t \in Task \ {Idle}, m \in Mutex :
          m \in Pends[t] =>
            /\ t \notin Deletable \cup Suspendable
            /\ FirstPrio[t] # NoTask => Pip[m] < FirstPrio[t]
            /\ \A p \in NewPrios : Pip[m] < p
            /\ \A n \in Mutex \cap Pends[t] : n = m

-----------------------------------------------------------------------------
(* The inductive invariant *)

Status == PendAny \cup {"SUSPEND"}
UcosLabel == {"app", "sched", "pend", "wake", "create", "delete"}

TaskTypeOK ==
    /\ OSTCBCur \in Task
    /\ OSPrioCur \in Prio /\ OSPrioHighRdy \in Prio
    /\ OSIntNesting \in {0, 1} /\ OSLockNesting \in Nat
    /\ OSTCBPrioTbl \in [Prio -> Task \cup {NoTask, Reserved}]
    /\ OSRdyTbl \in SUBSET Prio
    /\ OSTCBPrio \in [Task -> Prio]
    /\ OSTCBStat \in [Task -> SUBSET Status]
    /\ OSTCBStatPend \in [Task -> {"OK", "TO", "ABORT"}]
    /\ OSTCBDly \in [Task -> Nat]
    /\ OSTCBEventPtr \in [Task -> Event \cup {NoTask}]
    /\ OSEventTbl \in [Event -> SUBSET Prio]
    /\ OSEventOwner \in [Mutex -> Task \cup {NoTask}]
    /\ pc \in [Task -> UcosLabel]
    /\ arg \in [Task -> Task \cup Prio \cup {NoTask}]
    /\ OSEventCnt \in [Event -> Nat]
    /\ credit \in [Counted -> Int]

\* The control block of t is in use.
Live(t) == OSTCBPrioTbl[OSTCBPrio[t]] = t
\* OSTaskDel has taken t out of the lists and not yet freed it.
Doomed(t) == pc[OSTCBCur] = "delete" /\ arg[OSTCBCur] = t
InPend(t) == pc[t] \in {"pend", "wake"}
Raised(m) == OSEventOwner[m] # NoTask /\ OSTCBPrio[OSEventOwner[m]] = Pip[m]
WaitsFor(t, e) ==
    InPend(t) /\ OSTCBEventPtr[t] = e /\ (Kind[e] \in OSTCBStat[t] \/ OSTCBStatPend[t] = "TO")

\* A priority leads to a task that has it, or is lent by a mutex.
PrioInv ==
    /\ \A p \in Prio : OSTCBPrioTbl[p] \in Task =>
          /\ Live(OSTCBPrioTbl[p])
          /\ \/ p = OSTCBPrio[OSTCBPrioTbl[p]]
             \/ \E m \in Mutex : /\ OSEventOwner[m] = OSTCBPrioTbl[p] /\ Raised(m)
                                 /\ p = OSEventCnt[m]
    /\ \A m \in Mutex : OSTCBPrioTbl[Pip[m]] = IF Raised(m) THEN OSEventOwner[m] ELSE Reserved
    /\ Live(Idle) /\ OSTCBPrio[Idle] = Lowest
    /\ OSTCBStat[Idle] = {} /\ OSTCBDly[Idle] = 0 /\ pc[Idle] = "app"

ReadyInv ==
    /\ \A p \in OSRdyTbl : OSTCBPrioTbl[p] \in Task /\ OSTCBPrio[OSTCBPrioTbl[p]] = p
    /\ \A t \in Task : Live(t) =>
          (OSTCBPrio[t] \in OSRdyTbl <=> OSTCBStat[t] = {} /\ OSTCBDly[t] = 0 /\ ~Doomed(t))

\* p is the priority of the running task, or one that no ready task has.
StandsForCur(p) ==
    \/ p = OSTCBPrio[OSTCBCur]
    \/ OSLockNesting = 0 /\ pc[OSTCBCur] = "sched" /\ OSTCBPrioTbl[p] = NoTask
    \/ /\ OSLockNesting > 0 \/ pc[OSTCBCur] = "sched"
       /\ \E m \in Mutex : p = Pip[m] /\ ~Raised(m)

CurInv ==
    /\ OSTCBHighRdy = OSTCBCur
    /\ StandsForCur(OSPrioCur) /\ StandsForCur(OSPrioHighRdy)
    /\ \/ Live(OSTCBCur)
       \/ /\ OSLockNesting = 0 /\ pc[OSTCBCur] = "sched"
          /\ OSTCBPrioTbl[OSTCBPrio[OSTCBCur]] = NoTask
    /\ InPend(OSTCBCur) => OSLockNesting = 0
    /\ OSLockNesting > 0 => OSTCBStat[OSTCBCur] = {} /\ OSTCBDly[OSTCBCur] = 0

DeleteInv ==
    \A t \in Task : pc[t] = "delete" =>
        /\ t = OSTCBCur /\ OSLockNesting > 0
        /\ arg[t] = t => OSLockNesting = 1
        /\ arg[t] \in Task \ {Idle} /\ Live(arg[t])
        /\ OSTCBStat[arg[t]] = {} /\ OSTCBDly[arg[t]] = 0 /\ pc[arg[t]] \in {"app", "delete"}
        /\ ~Holds(arg[t])

CreateInv ==
    \A t \in Task : pc[t] = "create" =>
        /\ Live(t)
        /\ arg[t] \in NewPrios /\ OSTCBPrioTbl[arg[t]] = Reserved
        /\ \A m \in Mutex : Pip[m] # arg[t]
        /\ \A u \in Task : pc[u] = "create" /\ arg[u] = arg[t] => u = t

\* A task outside of a pend function waits for nothing, and one inside for one event.
PendInv ==
    \A t \in Task :
        /\ "SUSPEND" \in OSTCBStat[t] => t \in Suspendable
        /\ InPend(t) => /\ Live(t) /\ t # Idle
                        /\ OSTCBEventPtr[t] \in Pends[t]
                        /\ OSTCBStat[t] \subseteq {Kind[OSTCBEventPtr[t]], "SUSPEND"}
                        /\ Kind[OSTCBEventPtr[t]] \in OSTCBStat[t] => OSTCBStatPend[t] = "OK"
                        /\ OSTCBDly[t] > 0 => Kind[OSTCBEventPtr[t]] \in OSTCBStat[t]
        /\ Live(t) /\ ~InPend(t) =>
              /\ OSTCBStat[t] \subseteq {"SUSPEND"}
              /\ ~Doomed(t) => OSTCBEventPtr[t] = NoTask

WaitInv ==
    \A e \in Event :
        /\ \A p \in OSEventTbl[e] : OSTCBPrioTbl[p] \in Task /\ OSTCBPrio[OSTCBPrioTbl[p]] = p
        /\ \A t \in Task : Live(t) => (OSTCBPrio[t] \in OSEventTbl[e] <=> WaitsFor(t, e))

MutexInv ==
    /\ \A m \in Mutex, t \in Task \ {Idle} :
          Live(t) /\ m \in Pends[t] /\ OSEventOwner[m] # t => Pip[m] < OSTCBPrio[t]
    /\ \A m \in Mutex :
          LET h == OSEventOwner[m] IN
          /\ h = NoTask => OSEventCnt[m] = Available /\ OSEventTbl[m] = {}
          /\ h # NoTask =>
                /\ h # Idle /\ m \in Pends[h] /\ Live(h)
                /\ OSTCBStat[h] = {} /\ OSTCBDly[h] = 0
                /\ InPend(h) => OSTCBStatPend[h] = "OK"
                /\ OSEventCnt[m] \in Prio /\ Pip[m] < OSEventCnt[m]
                /\ OSTCBPrioTbl[OSEventCnt[m]] = h
                /\ OSTCBPrio[h] \in {OSEventCnt[m], Pip[m]}
                /\ \A p \in OSEventTbl[m] : OSTCBPrio[h] < p
                /\ Raised(m) => \E p \in OSEventTbl[m] : p < OSEventCnt[m]

UcosInv ==
    /\ TaskTypeOK /\ PrioInv /\ ReadyInv /\ CurInv /\ DeleteInv /\ CreateInv
    /\ PendInv /\ WaitInv /\ MutexInv /\ HighestReadyRuns

-----------------------------------------------------------------------------
LEMMA LeastPrio ==
    ASSUME NEW S \in SUBSET Prio, S # {}
    PROVE  Min(S) \in S /\ \A p \in S : Min(S) <= p
<1>1. S \in SUBSET Nat
  BY UcosAssumption DEF Prio
<1>2. PICK m \in S : \A k \in S : m <= k
  BY <1>1, LeastElement
<1>. QED BY <1>2 DEF Min

LEMMA LeastPrioIs ==
    ASSUME NEW S \in SUBSET Prio, NEW m \in S, \A p \in S : m <= p
    PROVE  Min(S) = m
<1>1. Min(S) \in S /\ \A p \in S : Min(S) <= p
  BY LeastPrio
<1>2. S \subseteq Int
  BY DEF Prio
<1>3. Min(S) \in Int /\ m \in Int /\ Min(S) <= m /\ m <= Min(S)
  BY <1>1, <1>2
<1>. QED BY <1>3

LEMMA KindFacts ==
    /\ \A e \in Event : Kind[e] \in PendAny /\ Kind[e] # "SUSPEND"
    /\ \A m \in Mutex : m \in Event /\ Kind[m] = "MUTEX"
    /\ \A t \in Task \ {Idle} : Pends[t] \subseteq Event
  BY UcosAssumption, UcosEventAssumption DEF PendAny, Mutex

LEMMA NoTaskFacts ==
    /\ Idle \in Task /\ Lowest \in Nat /\ NewPrios \subseteq Prio \ {Lowest}
    /\ NoTask \notin Task \cup Event \cup Prio /\ Reserved \notin Task \cup {NoTask}
  BY UcosAssumption

\* A task that the application may name; the one that runs; who deletes a task.
LEMMA CreatedIsLive ==
    ASSUME UcosInv, NEW d \in Created
    PROVE  d \in Task /\ Live(d)
  BY DEF UcosInv, Created, PrioInv

LEMMA CurInApp ==
    ASSUME UcosInv, pc[OSTCBCur] = "app"
    PROVE  OSTCBCur \in Task /\ Live(OSTCBCur) /\ \A u \in Task : pc[u] # "delete"
  BY DEF UcosInv, TaskTypeOK, CurInv, DeleteInv

LEMMA IdleIsReady ==
    ASSUME UcosInv
    PROVE  Lowest \in OSRdyTbl
  BY UcosAssumption DEF UcosInv, ReadyInv, PrioInv, Live, DeleteInv, Doomed, TaskTypeOK

LEMMA HighestReadyIsLive ==
    ASSUME UcosInv
    PROVE  /\ HighestReady \in OSRdyTbl /\ HighestReady \in Prio
           /\ \A p \in OSRdyTbl : HighestReady <= p
           /\ OSTCBPrioTbl[HighestReady] \in Task
           /\ OSTCBPrio[OSTCBPrioTbl[HighestReady]] = HighestReady
<1>1. OSRdyTbl \in SUBSET Prio /\ OSRdyTbl # {}
  BY IdleIsReady DEF UcosInv, TaskTypeOK
<1>2. HighestReady \in OSRdyTbl /\ \A p \in OSRdyTbl : HighestReady <= p
  BY <1>1, LeastPrio DEF HighestReady
<1>. QED BY <1>1, <1>2 DEF UcosInv, ReadyInv

\* If the priority that OSPrioCur shows is ready, it is that of the running task.
LEMMA PrioCurIsRight ==
    ASSUME UcosInv, OSPrioCur \in OSRdyTbl
    PROVE  OSTCBPrioTbl[OSPrioCur] = OSTCBCur
  BY UcosAssumption DEF UcosInv, CurInv, StandsForCur, ReadyInv, PrioInv, Live, TaskTypeOK

\* A task that calls a service is ready.
LEMMA CurIsReady ==
    ASSUME UcosInv, OSIntNesting = 0, pc[OSTCBCur] \in {"app", "wake"}
    PROVE  OSTCBStat[OSTCBCur] = {} /\ OSTCBDly[OSTCBCur] = 0
<1>1. CASE OSLockNesting > 0
  BY <1>1 DEF UcosInv, CurInv
<1>2. CASE OSLockNesting = 0
  <2>1. OSTCBPrio[OSTCBCur] \in OSRdyTbl
    BY <1>2, HighestReadyIsLive DEF UcosInv, HighestReadyRuns
  <2>. QED BY <2>1 DEF UcosInv, ReadyInv, CurInv, TaskTypeOK
<1>. QED BY <1>1, <1>2 DEF UcosInv, TaskTypeOK

LEMMA SchedStep ==
    ASSUME UcosInv, NEW t \in Task, OS_Sched(t), UNCHANGED <<OSEventCnt, credit>>
    PROVE  UcosInv' /\ (OSLockNesting > 0 => OSTCBCur' = OSTCBCur)
<1>. USE DEF OS_Sched, Running, Goto, task_switch, OS_SchedNew, schedVars, nestVars, prioVars, tcbVars, eventVars
<1>0. /\ t = OSTCBCur /\ OSTCBHighRdy' = OSTCBCur' /\ OSTCBCur' \in Task
      /\ OSLockNesting # 0 => UNCHANGED schedVars /\ pc[t] = "sched"
      /\ OSLockNesting = 0 =>
            /\ OSPrioCur' = HighestReady /\ OSPrioHighRdy' = HighestReady
            /\ OSTCBPrioTbl[HighestReady] = OSTCBCur'
            /\ OSTCBPrio[OSTCBCur'] = HighestReady
      /\ HighestReady \in Prio
      /\ pc'[OSTCBCur'] # "delete" /\ \A u \in Task : pc[u] # "delete"
  BY HighestReadyIsLive, PrioCurIsRight
  DEF UcosInv, TaskTypeOK, CurInv, DeleteInv, InPend, HighestReady
<1>1. TaskTypeOK'
  BY UcosAssumption, <1>0 DEF UcosInv, TaskTypeOK, UcosLabel
<1>2. PrioInv'
  BY UcosAssumption, <1>0 DEF UcosInv, TaskTypeOK, PrioInv, Live, Raised
<1>3. ReadyInv'
  BY UcosAssumption, <1>0 DEF UcosInv, TaskTypeOK, ReadyInv, PrioInv, DeleteInv, Live,
     Doomed
<1>4. CurInv'
  BY UcosAssumption, <1>0 DEF UcosInv, TaskTypeOK, CurInv, DeleteInv, PrioInv,
     StandsForCur, Live, Raised, InPend
<1>5. DeleteInv'
  BY UcosAssumption, <1>0 DEF UcosInv, TaskTypeOK, DeleteInv, Live, Holds
<1>6. CreateInv'
  BY UcosAssumption, <1>0 DEF UcosInv, TaskTypeOK, CreateInv, Live
<1>7. PendInv'
  BY UcosAssumption, <1>0 DEF UcosInv, TaskTypeOK, PendInv, InPend, Live, Doomed
<1>8. WaitInv'
  BY UcosAssumption, <1>0 DEF UcosInv, TaskTypeOK, WaitInv, WaitsFor, InPend, Live
<1>9. MutexInv'
  BY UcosAssumption, <1>0 DEF UcosInv, TaskTypeOK, MutexInv, Live, Raised, InPend
<1>10. HighestReadyRuns'
  BY UcosAssumption, <1>0 DEF UcosInv, TaskTypeOK, HighestReadyRuns, HighestReady,
     CurInv
<1>. QED BY <1>0, <1>1, <1>2, <1>3, <1>4, <1>5, <1>6, <1>7, <1>8, <1>9, <1>10 DEF UcosInv

LEMMA LockStep ==
    ASSUME UcosInv, NEW t \in Task, OSSchedLock(t), UNCHANGED <<OSEventCnt, credit>>
    PROVE  UcosInv'
<1>. USE DEF OSSchedLock, InApp, Running, Goto, schedVars, nestVars, prioVars, tcbVars, eventVars
<1>0. OSTCBStat[OSTCBCur] = {} /\ OSTCBDly[OSTCBCur] = 0
  BY CurIsReady
<1>1. TaskTypeOK'
  BY UcosAssumption DEF UcosInv, TaskTypeOK, UcosLabel
<1>2. PrioInv'
  BY UcosAssumption DEF UcosInv, TaskTypeOK, PrioInv, Live, Raised
<1>3. ReadyInv'
  BY UcosAssumption DEF UcosInv, TaskTypeOK, ReadyInv, PrioInv, DeleteInv, Live, Doomed
<1>4. CurInv'
  BY UcosAssumption, <1>0 DEF UcosInv, TaskTypeOK, CurInv, DeleteInv, PrioInv,
     StandsForCur, Live, Raised, InPend
<1>5. DeleteInv'
  BY UcosAssumption DEF UcosInv, TaskTypeOK, DeleteInv, Live, Holds
<1>6. CreateInv'
  BY UcosAssumption DEF UcosInv, TaskTypeOK, CreateInv, Live
<1>7. PendInv'
  BY UcosAssumption DEF UcosInv, TaskTypeOK, PendInv, InPend, Live, Doomed
<1>8. WaitInv'
  BY UcosAssumption DEF UcosInv, TaskTypeOK, WaitInv, WaitsFor, InPend, Live
<1>9. MutexInv'
  BY UcosAssumption DEF UcosInv, TaskTypeOK, MutexInv, Live, Raised, InPend
<1>10. HighestReadyRuns'
  BY UcosAssumption DEF UcosInv, TaskTypeOK, HighestReadyRuns, HighestReady, CurInv
<1>. QED BY <1>1, <1>2, <1>3, <1>4, <1>5, <1>6, <1>7, <1>8, <1>9, <1>10 DEF UcosInv

LEMMA UnlockStep ==
    ASSUME UcosInv, NEW t \in Task, OSSchedUnlock(t), UNCHANGED <<OSEventCnt, credit>>
    PROVE  UcosInv'
<1>. USE DEF OSSchedUnlock, InApp, Running, Goto, schedVars, nestVars, prioVars, tcbVars, eventVars
<1>1. TaskTypeOK'
  BY UcosAssumption DEF UcosInv, TaskTypeOK, UcosLabel
<1>2. PrioInv'
  BY UcosAssumption DEF UcosInv, TaskTypeOK, PrioInv, Live, Raised
<1>3. ReadyInv'
  BY UcosAssumption DEF UcosInv, TaskTypeOK, ReadyInv, PrioInv, DeleteInv, Live, Doomed
<1>4. CurInv'
  BY UcosAssumption DEF UcosInv, TaskTypeOK, CurInv, DeleteInv, PrioInv, StandsForCur,
     Live, Raised, InPend
<1>5. DeleteInv'
  BY UcosAssumption DEF UcosInv, TaskTypeOK, DeleteInv, Live, Holds
<1>6. CreateInv'
  BY UcosAssumption DEF UcosInv, TaskTypeOK, CreateInv, Live
<1>7. PendInv'
  BY UcosAssumption DEF UcosInv, TaskTypeOK, PendInv, InPend, Live, Doomed
<1>8. WaitInv'
  BY UcosAssumption DEF UcosInv, TaskTypeOK, WaitInv, WaitsFor, InPend, Live
<1>9. MutexInv'
  BY UcosAssumption DEF UcosInv, TaskTypeOK, MutexInv, Live, Raised, InPend
<1>10. HighestReadyRuns'
  BY UcosAssumption DEF UcosInv, TaskTypeOK, HighestReadyRuns, HighestReady, CurInv
<1>. QED BY <1>1, <1>2, <1>3, <1>4, <1>5, <1>6, <1>7, <1>8, <1>9, <1>10 DEF UcosInv

LEMMA TimeDlyStep ==
    ASSUME UcosInv, Discipline, NEW t \in Task, OSTimeDly(t), UNCHANGED <<OSEventCnt, credit>>
    PROVE  UcosInv'
<1>. USE DEF OSTimeDly, InApp, Running, Goto, MayBlock, schedVars, nestVars, prioVars, tcbVars, eventVars
<1>0. PICK ticks \in Nat \ {0} : OSTCBDly' = [OSTCBDly EXCEPT ![t] = ticks]
  BY UcosAssumption
<1>1. TaskTypeOK'
  BY UcosAssumption, <1>0 DEF UcosInv, TaskTypeOK, UcosLabel
<1>2. PrioInv'
  BY UcosAssumption, <1>0 DEF UcosInv, TaskTypeOK, PrioInv, Live, Raised
<1>3. ReadyInv'
  BY UcosAssumption, <1>0 DEF UcosInv, TaskTypeOK, ReadyInv, PrioInv, DeleteInv, Live,
     Doomed, CurInv
<1>4. CurInv'
  BY UcosAssumption, <1>0 DEF UcosInv, TaskTypeOK, CurInv, DeleteInv, PrioInv,
     StandsForCur, Live, Raised, InPend
<1>5. DeleteInv'
  BY UcosAssumption, <1>0 DEF UcosInv, TaskTypeOK, DeleteInv, Live, Holds
<1>6. CreateInv'
  BY UcosAssumption, <1>0 DEF UcosInv, TaskTypeOK, CreateInv, Live
<1>7. PendInv'
  BY UcosAssumption, <1>0 DEF UcosInv, TaskTypeOK, PendInv, InPend, Live, Doomed
<1>8. WaitInv'
  BY UcosAssumption, <1>0 DEF UcosInv, TaskTypeOK, WaitInv, WaitsFor, InPend, Live
<1>9. MutexInv'
  BY UcosAssumption, <1>0 DEF UcosInv, TaskTypeOK, MutexInv, Live, Raised, InPend,
     Holds, Discipline
<1>10. HighestReadyRuns'
  BY UcosAssumption, <1>0 DEF UcosInv, TaskTypeOK, HighestReadyRuns, HighestReady,
     CurInv
<1>. QED BY <1>1, <1>2, <1>3, <1>4, <1>5, <1>6, <1>7, <1>8, <1>9, <1>10 DEF UcosInv

LEMMA TaskCreateStep ==
    ASSUME UcosInv, NEW t \in Task, OSTaskCreate(t), UNCHANGED <<OSEventCnt, credit>>
    PROVE  UcosInv'
<1>. USE DEF OSTaskCreate, InApp, Running, Goto, schedVars, nestVars, prioVars, tcbVars, eventVars
<1>0. PICK p \in NewPrios :
        /\ OSTCBPrioTbl[p] = NoTask
        /\ OSTCBPrioTbl' = [OSTCBPrioTbl EXCEPT ![p] = Reserved]
        /\ arg' = [arg EXCEPT ![t] = p]
  OBVIOUS
<1>1. TaskTypeOK'
  BY UcosAssumption, <1>0 DEF UcosInv, TaskTypeOK, UcosLabel
<1>2. PrioInv'
  BY UcosAssumption, <1>0 DEF UcosInv, TaskTypeOK, PrioInv, Live, Raised
<1>3. ReadyInv'
  BY UcosAssumption, <1>0 DEF UcosInv, TaskTypeOK, ReadyInv, PrioInv, DeleteInv, Live,
     Doomed
<1>4. CurInv'
  BY UcosAssumption, <1>0 DEF UcosInv, TaskTypeOK, CurInv, DeleteInv, PrioInv,
     StandsForCur, Live, Raised, InPend
<1>5. DeleteInv'
  BY UcosAssumption, <1>0 DEF UcosInv, TaskTypeOK, DeleteInv, Live, Holds
<1>6. CreateInv'
  BY UcosAssumption, <1>0 DEF UcosInv, TaskTypeOK, CreateInv, Live, PrioInv, Raised,
     CurInv
<1>7. PendInv'
  BY UcosAssumption, <1>0 DEF UcosInv, TaskTypeOK, PendInv, InPend, Live, Doomed
<1>8. WaitInv'
  BY UcosAssumption, <1>0 DEF UcosInv, TaskTypeOK, WaitInv, WaitsFor, InPend, Live
<1>9. MutexInv'
  BY UcosAssumption, <1>0 DEF UcosInv, TaskTypeOK, MutexInv, Live, Raised, InPend
<1>10. HighestReadyRuns'
  BY UcosAssumption, <1>0 DEF UcosInv, TaskTypeOK, HighestReadyRuns, HighestReady,
     CurInv
<1>. QED BY <1>1, <1>2, <1>3, <1>4, <1>5, <1>6, <1>7, <1>8, <1>9, <1>10 DEF UcosInv

LEMMA TCBInitStep ==
    ASSUME UcosInv, Discipline, NEW t \in Task, NEW new \in Task, OS_TCBInit(t, new), UNCHANGED <<OSEventCnt, credit>>
    PROVE  UcosInv'
<1>. USE DEF OS_TCBInit, Running, Goto, Created, schedVars, nestVars, prioVars, tcbVars, eventVars
<1>0. /\ t = OSTCBCur /\ Live(t) /\ t # Idle
      /\ arg[t] \in NewPrios /\ arg[t] \in Prio /\ arg[t] # Lowest
      /\ OSTCBPrioTbl[arg[t]] = Reserved /\ Reserved \notin Task /\ Reserved # NoTask
  BY UcosAssumption DEF UcosInv, TaskTypeOK, CreateInv, PrioInv
<1>a. /\ \A m \in Mutex : Pip[m] # arg[t] /\ Pip[m] \in Prio
      /\ \A u \in Task : pc[u] # "delete"
      /\ \A u \in Task : pc[u] = "create" /\ arg[u] = arg[t] => u = t
  BY <1>0, UcosAssumption DEF UcosInv, CreateInv, DeleteInv
<1>b. /\ \A e \in Event : arg[t] \notin OSEventTbl[e]
      /\ arg[t] \notin OSRdyTbl
      /\ \A u \in Task : Live(u) => OSTCBPrio[u] # arg[t]
  BY <1>0 DEF UcosInv, WaitInv, ReadyInv, Live
<1>c. new # t /\ new # Idle /\ (\A p \in Prio : OSTCBPrioTbl[p] # new)
  BY <1>0 DEF UcosInv, TaskTypeOK, PrioInv, Live
<1>d. \A m \in Mutex : OSEventOwner[m] # new
  BY <1>c, UcosAssumption DEF UcosInv, TaskTypeOK, MutexInv, Live
<1>1. TaskTypeOK'
  BY UcosAssumption, <1>0, <1>a, <1>b, <1>c, <1>d DEF UcosInv, TaskTypeOK, UcosLabel
<1>2. PrioInv'
  BY UcosAssumption, <1>0, <1>a, <1>b, <1>c, <1>d DEF UcosInv, TaskTypeOK, PrioInv,
     Live, Raised
<1>3. ReadyInv'
  BY UcosAssumption, <1>0, <1>a, <1>b, <1>c, <1>d DEF UcosInv, TaskTypeOK, ReadyInv,
     PrioInv, DeleteInv, Live, Doomed
<1>4. CurInv'
  BY UcosAssumption, <1>0, <1>a, <1>b, <1>c, <1>d DEF UcosInv, TaskTypeOK, CurInv,
     DeleteInv, PrioInv, StandsForCur, Live, Raised, InPend
<1>5. DeleteInv'
  BY UcosAssumption, <1>0, <1>a, <1>b, <1>c, <1>d DEF UcosInv, TaskTypeOK, DeleteInv,
     Live, Holds
<1>6. CreateInv'
  BY UcosAssumption, <1>0, <1>a, <1>b, <1>c, <1>d DEF UcosInv, TaskTypeOK, CreateInv,
     Live
<1>7. PendInv'
  BY UcosAssumption, <1>0, <1>a, <1>b, <1>c, <1>d DEF UcosInv, TaskTypeOK, PendInv,
      InPend, Live, Doomed
<1>8. WaitInv'
  BY UcosAssumption, <1>0, <1>a, <1>b, <1>c, <1>d DEF UcosInv, TaskTypeOK, WaitInv,
     WaitsFor, InPend, Live
<1>9. MutexInv'
  BY UcosAssumption, <1>0, <1>a, <1>b, <1>c, <1>d DEF UcosInv, TaskTypeOK, MutexInv,
     Live, Raised, InPend, Discipline
<1>10. HighestReadyRuns'
  BY UcosAssumption, <1>0, <1>a, <1>b, <1>c, <1>d DEF UcosInv, TaskTypeOK,
     HighestReadyRuns, HighestReady, CurInv
<1>. QED BY <1>1, <1>2, <1>3, <1>4, <1>5, <1>6, <1>7, <1>8, <1>9, <1>10 DEF UcosInv

LEMMA NoMoreTcbStep ==
    ASSUME UcosInv, NEW t \in Task, NoMoreTcb(t), UNCHANGED <<OSEventCnt, credit>>
    PROVE  UcosInv'
<1>. USE DEF NoMoreTcb, Running, Goto, schedVars, nestVars, prioVars, tcbVars, eventVars
<1>0. /\ t = OSTCBCur /\ Live(t) /\ t # Idle
      /\ arg[t] \in NewPrios /\ arg[t] \in Prio /\ arg[t] # Lowest
      /\ OSTCBPrioTbl[arg[t]] = Reserved /\ Reserved \notin Task /\ Reserved # NoTask
  BY UcosAssumption DEF UcosInv, TaskTypeOK, CreateInv, PrioInv
<1>a. /\ \A m \in Mutex : Pip[m] # arg[t] /\ Pip[m] \in Prio
      /\ \A u \in Task : pc[u] # "delete"
      /\ \A u \in Task : pc[u] = "create" /\ arg[u] = arg[t] => u = t
  BY <1>0, UcosAssumption DEF UcosInv, CreateInv, DeleteInv
<1>b. /\ \A e \in Event : arg[t] \notin OSEventTbl[e]
      /\ arg[t] \notin OSRdyTbl
      /\ \A u \in Task : Live(u) => OSTCBPrio[u] # arg[t]
  BY <1>0 DEF UcosInv, WaitInv, ReadyInv, Live
<1>1. TaskTypeOK'
  BY UcosAssumption, <1>0, <1>a, <1>b DEF UcosInv, TaskTypeOK, UcosLabel
<1>2. PrioInv'
  BY UcosAssumption, <1>0, <1>a, <1>b DEF UcosInv, TaskTypeOK, PrioInv, Live, Raised
<1>3. ReadyInv'
  BY UcosAssumption, <1>0, <1>a, <1>b DEF UcosInv, TaskTypeOK, ReadyInv, PrioInv,
     DeleteInv, Live, Doomed
<1>4. CurInv'
  BY UcosAssumption, <1>0, <1>a, <1>b DEF UcosInv, TaskTypeOK, CurInv, DeleteInv,
     PrioInv, StandsForCur, Live, Raised, InPend
<1>5. DeleteInv'
  BY UcosAssumption, <1>0, <1>a, <1>b DEF UcosInv, TaskTypeOK, DeleteInv, Live, Holds
<1>6. CreateInv'
  BY UcosAssumption, <1>0, <1>a, <1>b DEF UcosInv, TaskTypeOK, CreateInv, Live
<1>7. PendInv'
  BY UcosAssumption, <1>0, <1>a, <1>b DEF UcosInv, TaskTypeOK, PendInv, InPend, Live,
     Doomed
<1>8. WaitInv'
  BY UcosAssumption, <1>0, <1>a, <1>b DEF UcosInv, TaskTypeOK, WaitInv, WaitsFor,
      InPend, Live
<1>9. MutexInv'
  BY UcosAssumption, <1>0, <1>a, <1>b DEF UcosInv, TaskTypeOK, MutexInv, Live, Raised,
      InPend
<1>10. HighestReadyRuns'
  BY UcosAssumption, <1>0, <1>a, <1>b DEF UcosInv, TaskTypeOK, HighestReadyRuns,
     HighestReady, CurInv
<1>. QED BY <1>1, <1>2, <1>3, <1>4, <1>5, <1>6, <1>7, <1>8, <1>9, <1>10 DEF UcosInv

LEMMA DeleteStep ==
    ASSUME UcosInv, Discipline, NEW t \in Task, NEW d \in Task, DeleteTask(t, d)
    PROVE  UcosInv'
<1>. USE DEF DeleteTask, OSTaskDel, InApp, Running, Goto, schedVars, nestVars, prioVars, tcbVars, eventVars
<1>0. /\ t = OSTCBCur /\ Live(t) /\ Live(d) /\ d # Idle
      /\ \A u \in Task : pc[u] # "delete"
      /\ OSEventTbl' \in [Event -> SUBSET Prio]
      /\ credit' \in [Counted -> Int]
  BY UcosAssumption
  DEF UcosInv, TaskTypeOK, CurInv, DeleteInv, PrioInv, Live, Created, WaitListsWithout
<1>a. \A e \in Event : OSEventTbl'[e] = OSEventTbl[e] \ {OSTCBPrio[d]}
  BY <1>0 DEF UcosInv, TaskTypeOK, WaitInv, WaitsFor, PendInv, WaitListsWithout
<1>b. \A m \in Mutex : OSEventOwner[m] # d /\ m \notin Pends[d] /\ m \in Event
  BY <1>0, UcosAssumption DEF UcosInv, Holds, Discipline, Mutex
<1>c. \A m \in Mutex : OSTCBPrio[d] \notin OSEventTbl[m]
  BY <1>0, <1>b DEF UcosInv, WaitInv, WaitsFor, PendInv
<1>d. ASSUME NEW m \in Mutex
      PROVE  OSEventTbl'[m] = OSEventTbl[m]
  <2>1. OSEventTbl'[m] = OSEventTbl[m] \ {OSTCBPrio[d]}
    BY <1>a, <1>b
  <2>2. OSTCBPrio[d] \notin OSEventTbl[m]
    BY <1>c
  <2>3. \A X, x : x \notin X => X \ {x} = X
    OBVIOUS
  <2>. HIDE DEF DeleteTask, OSTaskDel
  <2>. QED BY <2>1, <2>2, <2>3
<1>1. TaskTypeOK'
  BY UcosAssumption, <1>0 DEF UcosInv, TaskTypeOK, UcosLabel
<1>2. PrioInv'
  BY UcosAssumption, <1>0 DEF UcosInv, TaskTypeOK, PrioInv, Live, Raised
<1>3. ReadyInv'
  BY UcosAssumption, <1>0 DEF UcosInv, TaskTypeOK, ReadyInv, PrioInv, DeleteInv, Live,
     Doomed
<1>4. CurInv'
  BY UcosAssumption, <1>0, CurIsReady DEF UcosInv, TaskTypeOK, CurInv, DeleteInv,
     PrioInv, StandsForCur, Live, Raised, InPend
<1>5. DeleteInv'
  BY UcosAssumption, <1>0 DEF UcosInv, TaskTypeOK, DeleteInv, Live, Holds
<1>6. CreateInv'
  BY UcosAssumption, <1>0 DEF UcosInv, TaskTypeOK, CreateInv, Live
<1>7. PendInv'
  BY UcosAssumption, <1>0 DEF UcosInv, TaskTypeOK, PendInv, InPend, Live, Doomed
<1>8. WaitInv'
  BY UcosAssumption, <1>0, <1>a DEF UcosInv, TaskTypeOK, WaitInv, WaitsFor, InPend,
     Live
<1>9. MutexInv'
  BY UcosAssumption, <1>0, <1>b, <1>d DEF UcosInv, TaskTypeOK, MutexInv, Live, Raised,
      InPend
<1>10. HighestReadyRuns'
  BY UcosAssumption, <1>0 DEF UcosInv, TaskTypeOK, HighestReadyRuns, HighestReady,
     CurInv
<1>. QED BY <1>1, <1>2, <1>3, <1>4, <1>5, <1>6, <1>7, <1>8, <1>9, <1>10 DEF UcosInv

LEMMA FinishDeleteStep ==
    ASSUME UcosInv, NEW t \in Task, FinishDelete(t), UNCHANGED <<OSEventCnt, credit>>
    PROVE  UcosInv'
<1>. USE DEF FinishDelete, Running, Goto, schedVars, nestVars, prioVars, tcbVars, eventVars
<1>0. PICK d \in Task \ {Idle} : d = arg[t]
  BY DEF UcosInv, DeleteInv
<1>a. /\ t = OSTCBCur /\ Live(d) /\ OSLockNesting > 0 /\ (d = t => OSLockNesting = 1)
      /\ OSTCBPrio[d] \in Prio /\ OSTCBPrio[d] # Lowest
      /\ OSTCBPrio[d] \notin OSRdyTbl /\ ~InPend(d) /\ pc[d] # "create"
      /\ \A e \in Event : OSTCBPrio[d] \notin OSEventTbl[e]
      /\ \A m \in Mutex : OSEventOwner[m] # d /\ OSTCBPrio[d] # Pip[m]
      /\ \A p \in Prio : OSTCBPrioTbl[p] = d => p = OSTCBPrio[d]
      /\ \A u \in Task : pc[u] = "delete" => u = t
  BY <1>0, UcosAssumption
  DEF UcosInv, TaskTypeOK, CurInv, DeleteInv, PrioInv, ReadyInv, WaitInv, WaitsFor, InPend,
      Live, Doomed, Holds, Raised
<1>1. TaskTypeOK'
  BY UcosAssumption, <1>0, <1>a DEF UcosInv, TaskTypeOK, UcosLabel
<1>2. PrioInv'
  BY UcosAssumption, <1>0, <1>a DEF UcosInv, TaskTypeOK, PrioInv, Live, Raised
<1>3. ReadyInv'
  BY UcosAssumption, <1>0, <1>a DEF UcosInv, TaskTypeOK, ReadyInv, PrioInv, DeleteInv,
     Live, Doomed
<1>4. CurInv'
  BY UcosAssumption, <1>0, <1>a DEF UcosInv, TaskTypeOK, CurInv, DeleteInv, PrioInv,
     StandsForCur, Live, Raised, InPend
<1>5. DeleteInv'
  BY UcosAssumption, <1>0, <1>a DEF UcosInv, TaskTypeOK, DeleteInv, Live, Holds
<1>6. CreateInv'
  BY UcosAssumption, <1>0, <1>a DEF UcosInv, TaskTypeOK, CreateInv, Live
<1>7. PendInv'
  BY UcosAssumption, <1>0, <1>a DEF UcosInv, TaskTypeOK, PendInv, InPend, Live, Doomed
<1>8. WaitInv'
  BY UcosAssumption, <1>0, <1>a DEF UcosInv, TaskTypeOK, WaitInv, WaitsFor, InPend,
     Live
<1>9. MutexInv'
  BY UcosAssumption, <1>0, <1>a DEF UcosInv, TaskTypeOK, MutexInv, Live, Raised, InPend
<1>10. HighestReadyRuns'
  BY UcosAssumption, <1>0, <1>a DEF UcosInv, TaskTypeOK, HighestReadyRuns,
     HighestReady, CurInv
<1>. QED BY <1>1, <1>2, <1>3, <1>4, <1>5, <1>6, <1>7, <1>8, <1>9, <1>10 DEF UcosInv

LEMMA SuspendStep ==
    ASSUME UcosInv, Discipline, NEW t \in Task, NEW d \in Task, OSTaskSuspend(t, d), UNCHANGED <<OSEventCnt, credit>>
    PROVE  UcosInv'
<1>. USE DEF OSTaskSuspend, InApp, Running, Goto, schedVars, nestVars, prioVars, tcbVars, eventVars
<1>c. /\ t = OSTCBCur /\ Live(t) /\ \A u \in Task : pc[u] # "delete"
      /\ Live(d) /\ d # Idle /\ ~Holds(d)
  BY CurInApp, CreatedIsLive, UcosAssumption DEF Discipline
<1>0. /\ OSTCBStat'[d] = OSTCBStat[d] \cup {"SUSPEND"} /\ OSTCBStat'[d] # {}
      /\ OSTCBStat'[d] \subseteq Status
      /\ \A u \in Task : u # d => OSTCBStat'[u] = OSTCBStat[u]
      /\ OSTCBStat' \in [Task -> SUBSET Status]
  BY <1>c DEF UcosInv, TaskTypeOK, Status
<1>a. OSLockNesting = 0 /\ d # t => Min(OSRdyTbl \ {OSTCBPrio[d]}) = Min(OSRdyTbl)
  <2>1. SUFFICES ASSUME OSLockNesting = 0, d # t
                 PROVE  Min(OSRdyTbl \ {OSTCBPrio[d]}) = Min(OSRdyTbl)
    OBVIOUS
  <2>2. HighestReady = OSTCBPrio[t] \/ OSIntNesting # 0
    BY <1>c, <1>0, <2>1 DEF UcosInv, HighestReadyRuns
  <2>3. OSTCBPrio[t] # OSTCBPrio[d]
    BY <1>c, <1>0, <2>1 DEF Live
  <2>4. Min(OSRdyTbl) \in OSRdyTbl \ {OSTCBPrio[d]} /\ \A p \in OSRdyTbl : Min(OSRdyTbl) <= p
    BY <2>2, <2>3, HighestReadyIsLive DEF HighestReady
  <2>. QED BY <2>4, LeastPrioIs DEF UcosInv, TaskTypeOK
<1>1. TaskTypeOK'
  BY UcosAssumption, <1>c, <1>0 DEF UcosInv, TaskTypeOK, UcosLabel
<1>2. PrioInv'
  BY UcosAssumption, <1>c, <1>0 DEF UcosInv, TaskTypeOK, PrioInv, Live, Raised
<1>3. ReadyInv'
  <2>1. \A u \in Task : Live(u) /\ u # d => OSTCBPrio[u] # OSTCBPrio[d]
    BY <1>c DEF Live
  <2>2. \A u \in Task : ~Doomed(u) /\ ~Doomed(u)'
    BY <1>c DEF Doomed, UcosInv, TaskTypeOK
  <2>3. /\ OSRdyTbl' = OSRdyTbl \ {OSTCBPrio[d]}
        /\ UNCHANGED <<OSTCBPrioTbl, OSTCBPrio, OSTCBDly>>
    BY DEF OSTaskSuspend
  <2>4. \A p \in OSRdyTbl' : OSTCBPrioTbl'[p] \in Task /\ OSTCBPrio'[OSTCBPrioTbl'[p]] = p
    BY <2>3 DEF UcosInv, ReadyInv
  <2>5. ASSUME NEW u \in Task, Live(u)'
        PROVE  OSTCBPrio'[u] \in OSRdyTbl' <=> OSTCBStat'[u] = {} /\ OSTCBDly'[u] = 0 /\ ~Doomed(u)'
    <3>1. Live(u)
      BY <2>3, <2>5 DEF Live
    <3>2. OSTCBPrio[u] \in OSRdyTbl <=> OSTCBStat[u] = {} /\ OSTCBDly[u] = 0
      BY <2>2, <3>1 DEF UcosInv, ReadyInv
    <3>3. CASE u = d
      BY <1>0, <2>3, <3>3
    <3>4. CASE u # d
      BY <1>0, <2>1, <2>2, <2>3, <3>1, <3>2, <3>4
    <3>. QED BY <3>3, <3>4
  <2>. QED BY <2>4, <2>5 DEF ReadyInv
<1>4. CurInv'
  BY UcosAssumption, <1>c, <1>0 DEF UcosInv, TaskTypeOK, CurInv, DeleteInv, PrioInv,
     StandsForCur, Live, Raised, InPend
<1>5. DeleteInv'
  BY UcosAssumption, <1>c, <1>0 DEF UcosInv, TaskTypeOK, DeleteInv, Live, Holds
<1>6. CreateInv'
  BY UcosAssumption, <1>c, <1>0 DEF UcosInv, TaskTypeOK, CreateInv, Live
<1>7. PendInv'
  BY UcosAssumption, <1>c, <1>0, KindFacts DEF UcosInv, TaskTypeOK, PendInv, InPend,
     Live, Doomed
<1>8. WaitInv'
  BY UcosAssumption, <1>c, <1>0, KindFacts DEF UcosInv, TaskTypeOK, WaitInv, WaitsFor,
      InPend, Live
<1>9. MutexInv'
  BY UcosAssumption, <1>c, <1>0 DEF UcosInv, TaskTypeOK, MutexInv, Live, Raised,
      InPend, Holds
<1>10. HighestReadyRuns'
  BY UcosAssumption, <1>c, <1>0, <1>a DEF UcosInv, TaskTypeOK, HighestReadyRuns,
     HighestReady, CurInv
<1>. QED BY <1>1, <1>2, <1>3, <1>4, <1>5, <1>6, <1>7, <1>8, <1>9, <1>10 DEF UcosInv

LEMMA ResumeStep ==
    ASSUME UcosInv, NEW t \in Task, NEW d \in Task, OSTaskResume(t, d), UNCHANGED <<OSEventCnt, credit>>
    PROVE  UcosInv'
<1>. USE DEF OSTaskResume, InApp, Running, Goto, ReadyOnResume, schedVars, nestVars, prioVars, tcbVars, eventVars
<1>c. /\ t = OSTCBCur /\ Live(t) /\ \A u \in Task : pc[u] # "delete"
      /\ Live(d) /\ d # Idle
  BY CurInApp, CreatedIsLive DEF UcosInv, PrioInv
<1>0. /\ OSTCBStat'[d] = OSTCBStat[d] \ {"SUSPEND"}
      /\ OSTCBStat'[d] = {} <=> OSTCBStat[d] = {"SUSPEND"}
      /\ \A u \in Task : u # d => OSTCBStat'[u] = OSTCBStat[u]
      /\ OSTCBStat' \in [Task -> SUBSET Status]
  BY <1>c DEF UcosInv, TaskTypeOK
<1>1. TaskTypeOK'
  BY UcosAssumption, <1>c, <1>0 DEF UcosInv, TaskTypeOK, UcosLabel
<1>2. PrioInv'
  BY UcosAssumption, <1>c, <1>0 DEF UcosInv, TaskTypeOK, PrioInv, Live, Raised
<1>3. ReadyInv'
  BY UcosAssumption, <1>c, <1>0 DEF UcosInv, TaskTypeOK, ReadyInv, PrioInv, DeleteInv,
     Live, Doomed
<1>4. CurInv'
  BY UcosAssumption, <1>c, <1>0 DEF UcosInv, TaskTypeOK, CurInv, DeleteInv, PrioInv,
     StandsForCur, Live, Raised, InPend
<1>5. DeleteInv'
  BY UcosAssumption, <1>c, <1>0 DEF UcosInv, TaskTypeOK, DeleteInv, Live, Holds
<1>6. CreateInv'
  BY UcosAssumption, <1>c, <1>0 DEF UcosInv, TaskTypeOK, CreateInv, Live
<1>7. PendInv'
  BY UcosAssumption, <1>c, <1>0, KindFacts DEF UcosInv, TaskTypeOK, PendInv, InPend,
     Live, Doomed
<1>8. WaitInv'
  <2>1. \A x \in Event : Kind[x] # "SUSPEND"
    BY KindFacts
  <2>2. \A u \in Task : /\ InPend(u)' <=> InPend(u)
                        /\ Live(u)' <=> Live(u)
    BY <1>c DEF UcosInv, TaskTypeOK, InPend, Live
  <2>3. \A u \in Task, x \in Event : Kind[x] \in OSTCBStat'[u] <=> Kind[x] \in OSTCBStat[u]
    BY <1>0, <2>1
  <2>4. UNCHANGED <<OSEventTbl, OSTCBEventPtr, OSTCBStatPend, OSTCBPrio, OSTCBPrioTbl>>
    BY DEF OSTaskResume
  <2>5. \A u \in Task, x \in Event : WaitsFor(u, x)' <=> WaitsFor(u, x)
    BY <2>2, <2>3, <2>4 DEF WaitsFor
  <2>. QED BY <2>2, <2>4, <2>5 DEF UcosInv, WaitInv
<1>9. MutexInv'
  BY UcosAssumption, <1>c, <1>0 DEF UcosInv, TaskTypeOK, MutexInv, Live, Raised, InPend
<1>10. HighestReadyRuns'
  BY UcosAssumption, <1>c, <1>0 DEF UcosInv, TaskTypeOK, HighestReadyRuns,
     HighestReady, CurInv
<1>. QED BY <1>1, <1>2, <1>3, <1>4, <1>5, <1>6, <1>7, <1>8, <1>9, <1>10 DEF UcosInv

LEMMA TimeDlyResumeStep ==
    ASSUME UcosInv, NEW t \in Task, NEW d \in Task, OSTimeDlyResume(t, d), UNCHANGED <<OSEventCnt, credit>>
    PROVE  UcosInv'
<1>. USE DEF OSTimeDlyResume, InApp, Running, Goto, Wakeable, schedVars, nestVars, prioVars, tcbVars, eventVars
<1>c. /\ t = OSTCBCur /\ Live(t) /\ \A u \in Task : pc[u] # "delete"
      /\ Live(d) /\ d # Idle
  BY CurInApp, CreatedIsLive DEF UcosInv, PrioInv
<1>0. /\ OSTCBStat[d] \subseteq Status
      /\ OSTCBStat'[d] = OSTCBStat[d] \ PendAny
      /\ \A u \in Task : u # d => OSTCBStat'[u] = OSTCBStat[u]
      /\ OSTCBStat' \in [Task -> SUBSET Status]
      /\ OSTCBStatPend'[d] = IF OSTCBStat[d] \cap PendAny # {} THEN "TO" ELSE "OK"
      /\ \A u \in Task : u # d => OSTCBStatPend'[u] = OSTCBStatPend[u]
      /\ OSTCBStatPend' \in [Task -> {"OK", "TO", "ABORT"}]
      /\ OSEventTbl' = OSEventTbl
      /\ OSTCBDly'[d] = 0
  BY <1>c DEF UcosInv, TaskTypeOK, TimedOut
<1>a. /\ OSTCBStat'[d] \subseteq {"SUSPEND"} /\ OSTCBStat'[d] \subseteq OSTCBStat[d]
      /\ OSTCBStat'[d] = {} <=> "SUSPEND" \notin OSTCBStat[d]
      /\ \A e \in Event : Kind[e] \in OSTCBStat[d] => OSTCBStatPend'[d] = "TO"
      /\ OSTCBStat[d] \subseteq {"SUSPEND"} => OSTCBStatPend'[d] = "OK"
  BY <1>c, <1>0, KindFacts DEF Status, PendAny
<1>1. TaskTypeOK'
  BY UcosAssumption, <1>c, <1>0 DEF UcosInv, TaskTypeOK, UcosLabel
<1>2. PrioInv'
  BY UcosAssumption, <1>c, <1>0 DEF UcosInv, TaskTypeOK, PrioInv, Live, Raised
<1>3. ReadyInv'
  BY UcosAssumption, <1>c, <1>0, <1>a DEF UcosInv, TaskTypeOK, ReadyInv, PrioInv,
     DeleteInv, Live, Doomed
<1>4. CurInv'
  BY UcosAssumption, <1>c, <1>0 DEF UcosInv, TaskTypeOK, CurInv, DeleteInv, PrioInv,
     StandsForCur, Live, Raised, InPend
<1>5. DeleteInv'
  BY UcosAssumption, <1>c, <1>0 DEF UcosInv, TaskTypeOK, DeleteInv, Live, Holds
<1>6. CreateInv'
  BY UcosAssumption, <1>c, <1>0 DEF UcosInv, TaskTypeOK, CreateInv, Live
<1>7. PendInv'
  BY UcosAssumption, <1>c, <1>0, <1>a, KindFacts DEF UcosInv, TaskTypeOK, PendInv,
      InPend, Live, Doomed
<1>8. WaitInv'
  BY UcosAssumption, <1>c, <1>0, <1>a, KindFacts DEF UcosInv, TaskTypeOK, WaitInv,
     WaitsFor, InPend, Live, PendInv
<1>9. MutexInv'
  BY UcosAssumption, <1>c, <1>0, <1>a DEF UcosInv, TaskTypeOK, MutexInv, Live, Raised,
      InPend
<1>10. HighestReadyRuns'
  BY UcosAssumption, <1>c, <1>0 DEF UcosInv, TaskTypeOK, HighestReadyRuns,
     HighestReady, CurInv
<1>. QED BY <1>1, <1>2, <1>3, <1>4, <1>5, <1>6, <1>7, <1>8, <1>9, <1>10 DEF UcosInv

LEMMA ChangePrioStep ==
    ASSUME UcosInv, Discipline, NEW t \in Task, NEW d \in Task, OSTaskChangePrio(t, d), UNCHANGED <<OSEventCnt, credit>>
    PROVE  UcosInv'
<1>. USE DEF InApp, Running, Goto, schedVars, nestVars, prioVars, tcbVars, eventVars
<1>0. PICK p \in NewPrios :
        /\ OSTCBPrioTbl[p] = NoTask
        /\ OSTCBPrioTbl' = [OSTCBPrioTbl EXCEPT ![OSTCBPrio[d]] = NoTask, ![p] = d]
        /\ OSRdyTbl' = IF OSTCBPrio[d] \in OSRdyTbl
                       THEN (OSRdyTbl \ {OSTCBPrio[d]}) \cup {p} ELSE OSRdyTbl
        /\ OSEventTbl' = [e \in Event |-> IF OSTCBEventPtr[d] = e
                             THEN (OSEventTbl[e] \ {OSTCBPrio[d]}) \cup {p} ELSE OSEventTbl[e]]
        /\ OSTCBPrio' = [OSTCBPrio EXCEPT ![d] = p]
  BY DEF OSTaskChangePrio
<1>a. /\ d = t /\ d = OSTCBCur /\ OSLockNesting = 0 /\ pc[d] = "app" /\ d # Idle
      /\ Goto(d, "sched")
      /\ UNCHANGED <<schedVars, nestVars, tcbVars, OSTCBEventPtr, OSEventOwner, arg>>
      /\ \A m \in Mutex : OSEventOwner[m] # d
      /\ OSTCBPrio[d] \in Prio /\ p \in Prio /\ p # Lowest /\ OSTCBPrio[d] # p
      /\ Live(d)
  <2>1. /\ d = t /\ d = OSTCBCur /\ OSLockNesting = 0 /\ pc[d] = "app" /\ d # Idle
        /\ Goto(d, "sched")
        /\ UNCHANGED <<schedVars, nestVars, tcbVars, OSTCBEventPtr, OSEventOwner, arg>>
    BY DEF OSTaskChangePrio, Discipline
  <2>2. \A m \in Mutex : OSEventOwner[m] # d
    BY DEF OSTaskChangePrio, Holds
  <2>3. OSTCBPrio[d] \in Prio /\ p \in Prio /\ p # Lowest
    BY NoTaskFacts DEF UcosInv, TaskTypeOK
  <2>4. Live(d)
    BY <2>1, CurInApp
  <2>5. OSTCBPrio[d] # p
    BY <1>0, <2>4, NoTaskFacts DEF Live
  <2>. QED BY <2>1, <2>2, <2>3, <2>4, <2>5
<1>b. /\ OSTCBEventPtr[d] = NoTask /\ OSEventTbl' = OSEventTbl
      /\ \A e \in Event : OSTCBPrio[d] \notin OSEventTbl[e] /\ p \notin OSEventTbl[e]
      /\ p \notin OSRdyTbl
      /\ \A m \in Mutex : OSTCBPrio[d] # Pip[m] /\ p # Pip[m]
      /\ \A q \in Prio : OSTCBPrioTbl[q] = d => q = OSTCBPrio[d]
      /\ \A u \in Task : pc[u] # "delete"
      /\ \A u \in Task : Live(u) /\ u # d => OSTCBPrio[u] # OSTCBPrio[d] /\ OSTCBPrio[u] # p
  BY <1>0, <1>a, UcosAssumption
  DEF UcosInv, TaskTypeOK, CurInv, DeleteInv, PendInv, PrioInv, ReadyInv, WaitInv, WaitsFor,
      InPend, Live, Doomed, Raised
<1>1. TaskTypeOK'
  BY UcosAssumption, <1>0, <1>a, <1>b DEF UcosInv, TaskTypeOK, UcosLabel
<1>2. PrioInv'
  BY UcosAssumption, <1>0, <1>a, <1>b DEF UcosInv, TaskTypeOK, PrioInv, Live, Raised
<1>3. ReadyInv'
  BY UcosAssumption, <1>0, <1>a, <1>b DEF UcosInv, TaskTypeOK, ReadyInv, PrioInv,
     DeleteInv, Live, Doomed
<1>4. CurInv'
  BY UcosAssumption, <1>0, <1>a, <1>b DEF UcosInv, TaskTypeOK, CurInv, DeleteInv,
     PrioInv, StandsForCur, Live, Raised, InPend
<1>5. DeleteInv'
  BY UcosAssumption, <1>0, <1>a, <1>b DEF UcosInv, TaskTypeOK, DeleteInv, Live, Holds
<1>6. CreateInv'
  BY UcosAssumption, <1>0, <1>a, <1>b DEF UcosInv, TaskTypeOK, CreateInv, Live
<1>7. PendInv'
  BY UcosAssumption, <1>0, <1>a, <1>b DEF UcosInv, TaskTypeOK, PendInv, InPend, Live,
     Doomed
<1>8. WaitInv'
  BY UcosAssumption, <1>0, <1>a, <1>b DEF UcosInv, TaskTypeOK, WaitInv, WaitsFor,
      InPend, Live
<1>9. MutexInv'
  <2>1. \A m \in Mutex : d # Idle /\ m \in Pends[d] => Pip[m] < p
    BY <1>0 DEF Discipline
  <2>2. /\ \A u \in Task : u # d => OSTCBPrio'[u] = OSTCBPrio[u] /\ (Live(u)' <=> Live(u))
        /\ OSTCBPrio'[d] = p
    BY <1>0, <1>a, <1>b, UcosAssumption DEF UcosInv, TaskTypeOK, Live
  <2>3. \A m \in Mutex : OSEventOwner[m] # NoTask =>
           /\ OSEventOwner[m] \in Task \ {d}
           /\ OSEventCnt[m] # p /\ OSEventCnt[m] # OSTCBPrio[d]
    BY <1>0, <1>a, <1>b, UcosAssumption DEF UcosInv, TaskTypeOK, MutexInv, Live
  <2>4. \A m \in Mutex : Raised(m)' <=> Raised(m)
    BY <1>a, <2>2, <2>3 DEF Raised
  <2>5. ASSUME NEW m \in Mutex, NEW u \in Task \ {Idle}, Live(u)', m \in Pends[u],
               OSEventOwner'[m] # u
        PROVE  Pip[m] < OSTCBPrio'[u]
    BY <1>a, <2>1, <2>2, <2>5 DEF UcosInv, MutexInv
  <2>6. ASSUME NEW m \in Mutex, OSEventOwner[m] = NoTask
        PROVE  OSEventCnt'[m] = Available /\ OSEventTbl'[m] = {}
    BY <1>b, <2>6 DEF UcosInv, MutexInv
  <2>7. ASSUME NEW m \in Mutex, NEW h, h = OSEventOwner[m], h # NoTask
        PROVE  /\ h # Idle /\ m \in Pends[h] /\ Live(h)'
               /\ OSTCBStat'[h] = {} /\ OSTCBDly'[h] = 0
               /\ InPend(h)' => OSTCBStatPend'[h] = "OK"
               /\ OSEventCnt'[m] \in Prio /\ Pip[m] < OSEventCnt'[m]
               /\ OSTCBPrioTbl'[OSEventCnt'[m]] = h
               /\ OSTCBPrio'[h] \in {OSEventCnt'[m], Pip[m]}
               /\ \A x \in OSEventTbl'[m] : OSTCBPrio'[h] < x
               /\ Raised(m)' => \E x \in OSEventTbl'[m] : x < OSEventCnt'[m]
    <3>1. h \in Task \ {d} /\ OSEventCnt'[m] = OSEventCnt[m] /\ OSTCBPrio'[h] = OSTCBPrio[h]
          /\ OSEventTbl'[m] = OSEventTbl[m]
      BY <1>b, <2>2, <2>3, <2>7
    <3>2. /\ h # Idle /\ m \in Pends[h] /\ Live(h) /\ OSTCBStat[h] = {} /\ OSTCBDly[h] = 0
          /\ InPend(h) => OSTCBStatPend[h] = "OK"
          /\ OSEventCnt[m] \in Prio /\ Pip[m] < OSEventCnt[m]
          /\ OSTCBPrioTbl[OSEventCnt[m]] = h
          /\ OSTCBPrio[h] \in {OSEventCnt[m], Pip[m]}
          /\ \A x \in OSEventTbl[m] : OSTCBPrio[h] < x
          /\ Raised(m) => \E x \in OSEventTbl[m] : x < OSEventCnt[m]
      BY <2>7 DEF UcosInv, MutexInv
    <3>3. InPend(h)' => InPend(h)
      BY <1>a, <3>1 DEF UcosInv, TaskTypeOK, InPend
    <3>4. OSTCBPrioTbl'[OSEventCnt[m]] = OSTCBPrioTbl[OSEventCnt[m]]
      BY <1>0, <2>3, <2>7, <3>2 DEF UcosInv, TaskTypeOK
    <3>. QED BY <1>a, <2>2, <2>4, <3>1, <3>2, <3>3, <3>4
  <2>8. UNCHANGED OSEventOwner
    BY <1>a
  <2>. QED BY <2>5, <2>6, <2>7, <2>8 DEF MutexInv
<1>10. HighestReadyRuns'
  BY UcosAssumption, <1>0, <1>a, <1>b DEF UcosInv, TaskTypeOK, HighestReadyRuns,
     HighestReady, CurInv
<1>. QED BY <1>1, <1>2, <1>3, <1>4, <1>5, <1>6, <1>7, <1>8, <1>9, <1>10 DEF UcosInv

LEMMA CountStep ==
    ASSUME UcosInv, NEW e \in Counted, NEW n \in Nat,
           OSEventCnt' = [OSEventCnt EXCEPT ![e] = n], credit' \in [Counted -> Int],
           UNCHANGED <<schedVars, OSLockNesting, prioVars, OSRdyTbl, tcbVars, eventVars, pc, arg>>,
           OSIntNesting' \in {OSIntNesting, 1}
    PROVE  UcosInv'
<1>. USE DEF schedVars, prioVars, tcbVars, eventVars
<1>0. \A m \in Mutex : OSEventCnt'[m] = OSEventCnt[m]
  BY KindFacts DEF Counted, UcosInv, TaskTypeOK
<1>1. TaskTypeOK'
  BY UcosAssumption, <1>0 DEF UcosInv, TaskTypeOK, UcosLabel
<1>2. PrioInv'
  BY UcosAssumption, <1>0 DEF UcosInv, TaskTypeOK, PrioInv, Live, Raised
<1>3. ReadyInv'
  BY UcosAssumption, <1>0 DEF UcosInv, TaskTypeOK, ReadyInv, PrioInv, DeleteInv, Live,
     Doomed
<1>4. CurInv'
  BY UcosAssumption, <1>0 DEF UcosInv, TaskTypeOK, CurInv, DeleteInv, PrioInv,
     StandsForCur, Live, Raised, InPend
<1>5. DeleteInv'
  BY UcosAssumption, <1>0 DEF UcosInv, TaskTypeOK, DeleteInv, Live, Holds
<1>6. CreateInv'
  BY UcosAssumption, <1>0 DEF UcosInv, TaskTypeOK, CreateInv, Live
<1>7. PendInv'
  BY UcosAssumption, <1>0 DEF UcosInv, TaskTypeOK, PendInv, InPend, Live, Doomed
<1>8. WaitInv'
  BY UcosAssumption, <1>0 DEF UcosInv, TaskTypeOK, WaitInv, WaitsFor, InPend, Live
<1>9. MutexInv'
  BY UcosAssumption, <1>0 DEF UcosInv, TaskTypeOK, MutexInv, Live, Raised, InPend
<1>10. HighestReadyRuns'
  BY UcosAssumption, <1>0 DEF UcosInv, TaskTypeOK, HighestReadyRuns, HighestReady,
     CurInv
<1>. QED BY <1>1, <1>2, <1>3, <1>4, <1>5, <1>6, <1>7, <1>8, <1>9, <1>10 DEF UcosInv

LEMMA EventRdyStep ==
    ASSUME UcosInv, NEW e \in Counted, NEW S \in SUBSET Waiters(e), NEW status \in {"OK", "ABORT"},
           OS_EventTaskRdy(e, S, status, OSRdyTbl),
           \/ InApp(OSTCBCur) /\ Goto(OSTCBCur, "sched") /\ UNCHANGED OSIntNesting
           \/ UNCHANGED pc /\ OSIntNesting' = 1,
           UNCHANGED <<schedVars, OSLockNesting, prioVars, OSTCBEventPtr, OSEventOwner, arg>>,
           OSEventCnt' = OSEventCnt, credit' \in [Counted -> Int]
    PROVE  UcosInv'
<1>. USE DEF InApp, Running, Goto, schedVars, prioVars
<1>0. \A u \in S : u \in Task /\ Live(u) /\ OSTCBPrio[u] \in OSEventTbl[e] /\ WaitsFor(u, e)
  BY DEF Counted, Waiters, UcosInv, WaitInv, Live
<1>a. \A u \in S : /\ u # Idle /\ InPend(u) /\ OSTCBEventPtr[u] = e
                   /\ OSTCBStat[u] \subseteq {Kind[e], "SUSPEND"}
  BY <1>0 DEF UcosInv, PendInv, WaitsFor
<1>e. \A u \in S : \A m \in Mutex : OSEventOwner[m] # u
  <2>1. SUFFICES ASSUME NEW u \in S, NEW m \in Mutex, OSEventOwner[m] = u PROVE FALSE
    OBVIOUS
  <2>2. OSTCBStat[u] = {} /\ OSTCBStatPend[u] = "OK"
    BY <1>0, <1>a, <2>1, NoTaskFacts DEF UcosInv, MutexInv
  <2>. QED BY <1>0, <2>2 DEF WaitsFor
<1>f. \A u \in S : \A v \in Task : pc[v] = "delete" => arg[v] # u
  BY <1>0, <1>a DEF UcosInv, DeleteInv, InPend
<1>g. /\ \A u \in Task : /\ InPend(u)' <=> InPend(u)
                         /\ pc'[u] = "delete" <=> pc[u] = "delete"
                         /\ pc'[u] = "create" <=> pc[u] = "create"
                         /\ u # OSTCBCur => pc'[u] = pc[u]
      /\ pc'[OSTCBCur] = pc[OSTCBCur] \/ (pc[OSTCBCur] = "app" /\ pc'[OSTCBCur] = "sched")
      /\ pc' \in [Task -> UcosLabel] /\ (OSTCBCur = Idle => UNCHANGED pc)
      /\ pc'[OSTCBCur] = "sched" \/ OSIntNesting' = 1
      /\ OSTCBCur \in Task /\ OSIntNesting' \in {0, 1}
  <2>0. pc \in [Task -> UcosLabel] /\ OSTCBCur \in Task /\ OSIntNesting \in {0, 1}
    BY DEF UcosInv, TaskTypeOK
  <2>1. CASE InApp(OSTCBCur) /\ Goto(OSTCBCur, "sched") /\ UNCHANGED OSIntNesting
    BY <2>0, <2>1 DEF InPend, UcosLabel
  <2>2. CASE UNCHANGED pc /\ OSIntNesting' = 1
    BY <2>0, <2>2 DEF InPend
  <2>. QED BY <2>1, <2>2
<1>b. \A u \in Task :
        /\ OSTCBStat'[u] = IF u \in S THEN OSTCBStat[u] \ {Kind[e]} ELSE OSTCBStat[u]
        /\ OSTCBStatPend'[u] = IF u \in S THEN status ELSE OSTCBStatPend[u]
        /\ OSTCBDly'[u] = IF u \in S THEN 0 ELSE OSTCBDly[u]
        /\ u \in S => (OSTCBStat'[u] = {} <=> Wakeable(u))
        /\ OSTCBStat[u] = {} => OSTCBStat'[u] = {}
  BY <1>a, KindFacts DEF OS_EventTaskRdy, Wakeable, Counted
<1>c. \A u \in Task : Live(u) => (OSTCBPrio[u] \in {OSTCBPrio[v] : v \in S} <=> u \in S)
  BY <1>0 DEF Live
<1>d. \A x \in Event : OSEventTbl'[x] = IF x = e THEN OSEventTbl[e] \ {OSTCBPrio[v] : v \in S}
                                               ELSE OSEventTbl[x]
  BY DEF OS_EventTaskRdy, UcosInv, TaskTypeOK, Counted
<1>j. \A u \in Task \ S : /\ OSTCBStat'[u] = OSTCBStat[u] /\ OSTCBDly'[u] = OSTCBDly[u]
                          /\ OSTCBStatPend'[u] = OSTCBStatPend[u]
  BY <1>b
<1>k. ASSUME NEW u \in S
      PROVE  /\ OSTCBStat'[u] \subseteq {"SUSPEND"} /\ OSTCBStat'[u] \subseteq OSTCBStat[u]
             /\ Kind[e] \notin OSTCBStat'[u] /\ OSTCBDly'[u] = 0
             /\ OSTCBStatPend'[u] \in {"OK", "ABORT"}
  <2>1. OSTCBStat'[u] = OSTCBStat[u] \ {Kind[e]} /\ OSTCBStat[u] \subseteq {Kind[e], "SUSPEND"}
    BY <1>0, <1>a, <1>b
  <2>2. OSTCBDly'[u] = 0 /\ OSTCBStatPend'[u] = status
    BY <1>0, <1>b
  <2>. QED BY <2>1, <2>2
<1>h. /\ OSRdyTbl' \in SUBSET Prio /\ OSEventTbl' \in [Event -> SUBSET Prio]
      /\ OSTCBStat' \in [Task -> SUBSET Status] /\ OSTCBDly' \in [Task -> Nat]
      /\ OSTCBStatPend' \in [Task -> {"OK", "TO", "ABORT"}]
  BY <1>0 DEF UcosInv, TaskTypeOK, OS_EventTaskRdy, Counted
<1>i. UNCHANGED <<OSTCBCur, OSTCBHighRdy, OSPrioCur, OSPrioHighRdy, OSLockNesting, OSTCBPrioTbl,
                  OSTCBPrio, OSTCBEventPtr, OSEventOwner, arg, OSEventCnt>>
  OBVIOUS
<1>1. TaskTypeOK'
  BY <1>g, <1>h DEF UcosInv, TaskTypeOK, UcosLabel
<1>2. PrioInv'
  <2>1. Idle \in Task /\ Idle \notin S
    BY <1>a, NoTaskFacts
  <2>2. OSTCBStat'[Idle] = {} /\ OSTCBDly'[Idle] = 0
    BY <2>1, <1>j DEF UcosInv, PrioInv
  <2>3. pc'[Idle] = "app"
    BY <2>1, <1>g DEF UcosInv, PrioInv
  <2>. QED BY <1>i, <2>2, <2>3 DEF UcosInv, PrioInv, Live, Raised
<1>3. ReadyInv'
  <2>1. OSRdyTbl' = OSRdyTbl \cup {OSTCBPrio[v] : v \in {u \in S : Wakeable(u)}}
    BY DEF OS_EventTaskRdy
  <2>2. \A u \in Task : Doomed(u)' <=> Doomed(u)
    BY <1>g, <1>i DEF Doomed
  <2>3. \A u \in S : ~Doomed(u)
    BY <1>f, <1>g DEF Doomed
  <2>4. \A u \in Task : Live(u) =>
           (OSTCBPrio[u] \in OSRdyTbl' <=> OSTCBPrio[u] \in OSRdyTbl \/ (u \in S /\ Wakeable(u)))
    BY <1>0, <2>1 DEF Live
  <2>5. \A u \in S : OSTCBStat[u] = {} => Wakeable(u)
    BY DEF Wakeable
  <2>6. \A p \in OSRdyTbl' : OSTCBPrioTbl[p] \in Task /\ OSTCBPrio[OSTCBPrioTbl[p]] = p
    BY <1>0, <2>1 DEF UcosInv, ReadyInv, Live
  <2>7. ASSUME NEW u \in Task, Live(u)
        PROVE  OSTCBPrio[u] \in OSRdyTbl' <=> OSTCBStat'[u] = {} /\ OSTCBDly'[u] = 0 /\ ~Doomed(u)'
    BY <1>b, <2>2, <2>3, <2>4, <2>5, <2>7 DEF UcosInv, ReadyInv
  <2>. QED BY <1>i, <2>6, <2>7 DEF ReadyInv, Live
<1>4. CurInv'
  <2>1. OSTCBStat[OSTCBCur] = {} /\ OSTCBDly[OSTCBCur] = 0
          => OSTCBStat'[OSTCBCur] = {} /\ OSTCBDly'[OSTCBCur] = 0
    BY <1>g, <1>j, <1>k
  <2>. QED BY <1>g, <1>i, <2>1 DEF UcosInv, CurInv, StandsForCur, Live, Raised
<1>5. DeleteInv'
  BY <1>0, <1>f, <1>g, <1>i, <1>j DEF UcosInv, TaskTypeOK, DeleteInv, Live, Holds
<1>6. CreateInv'
  BY <1>g, <1>i DEF UcosInv, TaskTypeOK, CreateInv, Live
<1>7. PendInv'
  <2>1. ASSUME NEW u \in S
        PROVE  /\ "SUSPEND" \in OSTCBStat'[u] => "SUSPEND" \in OSTCBStat[u]
               /\ OSTCBStat'[u] \subseteq {Kind[OSTCBEventPtr[u]], "SUSPEND"}
               /\ Kind[OSTCBEventPtr[u]] \notin OSTCBStat'[u] /\ OSTCBDly'[u] = 0
               /\ u \in Task /\ InPend(u)
    BY <1>0, <1>a, <1>k
  <2>2. \A u \in Task : /\ InPend(u)' <=> InPend(u)
                        /\ Live(u)' <=> Live(u)
                        /\ Doomed(u)' <=> Doomed(u)
    BY <1>g, <1>i DEF Live, Doomed
  <2>. QED BY <1>i, <1>j, <2>1, <2>2 DEF UcosInv, PendInv
<1>8. WaitInv'
  <2>1. \A u \in S, x \in Event : ~WaitsFor(u, x)' /\ (WaitsFor(u, x) => x = e)
    BY <1>0, <1>a, <1>i, <1>k DEF WaitsFor
  <2>2. \A u \in Task \ S, x \in Event : WaitsFor(u, x)' <=> WaitsFor(u, x)
    BY <1>g, <1>i, <1>j DEF WaitsFor
  <2>3. \A u \in Task, x \in Event : Live(u) =>
            (OSTCBPrio[u] \in OSEventTbl'[x] <=> WaitsFor(u, x)')
    <3>1. ASSUME NEW u \in Task, NEW x \in Event, Live(u)
          PROVE  OSTCBPrio[u] \in OSEventTbl'[x] <=> WaitsFor(u, x)'
      <4>1. OSTCBPrio[u] \in OSEventTbl[x] <=> WaitsFor(u, x)
        BY <3>1 DEF UcosInv, WaitInv
      <4>2. CASE u \in S
        BY <1>c, <1>d, <2>1, <3>1, <4>1, <4>2
      <4>3. CASE u \notin S
        BY <1>c, <1>d, <2>2, <3>1, <4>1, <4>3
      <4>. QED BY <4>2, <4>3
    <3>. QED BY <3>1
  <2>4. \A x \in Event : OSEventTbl'[x] \subseteq OSEventTbl[x]
    BY <1>d
  <2>. QED BY <1>i, <2>3, <2>4 DEF UcosInv, WaitInv, Live
<1>9. MutexInv'
  <2>1. \A m \in Mutex : OSEventTbl'[m] = OSEventTbl[m]
    BY <1>d, KindFacts DEF Counted
  <2>2. \A m \in Mutex : OSEventOwner[m] \in Task => OSEventOwner[m] \in Task \ S
    BY <1>e
  <2>3. \A m \in Mutex : OSEventOwner[m] # NoTask => OSEventOwner[m] \in Task
    BY DEF UcosInv, TaskTypeOK
  <2>4. \A m \in Mutex : Raised(m)' <=> Raised(m)
    BY <1>i DEF Raised
  <2>5. \A u \in Task : Live(u)' <=> Live(u)
    BY <1>i DEF Live
  <2>6. ASSUME NEW m \in Mutex, NEW u \in Task \ {Idle}, Live(u)', m \in Pends[u],
               OSEventOwner'[m] # u
        PROVE  Pip[m] < OSTCBPrio'[u]
    BY <1>i, <2>5, <2>6 DEF UcosInv, MutexInv
  <2>7. ASSUME NEW m \in Mutex, OSEventOwner'[m] = NoTask
        PROVE  OSEventCnt'[m] = Available /\ OSEventTbl'[m] = {}
    BY <1>i, <2>1, <2>7 DEF UcosInv, MutexInv
  <2>8. ASSUME NEW m \in Mutex, NEW h, h = OSEventOwner'[m], h # NoTask
        PROVE  /\ h # Idle /\ m \in Pends[h] /\ Live(h)'
               /\ OSTCBStat'[h] = {} /\ OSTCBDly'[h] = 0
               /\ InPend(h)' => OSTCBStatPend'[h] = "OK"
               /\ OSEventCnt'[m] \in Prio /\ Pip[m] < OSEventCnt'[m]
               /\ OSTCBPrioTbl'[OSEventCnt'[m]] = h
               /\ OSTCBPrio'[h] \in {OSEventCnt'[m], Pip[m]}
               /\ \A x \in OSEventTbl'[m] : OSTCBPrio'[h] < x
               /\ Raised(m)' => \E x \in OSEventTbl'[m] : x < OSEventCnt'[m]
    <3>1. h = OSEventOwner[m] /\ h \in Task \ S
      BY <1>i, <2>2, <2>3, <2>8
    <3>2. /\ h # Idle /\ m \in Pends[h] /\ Live(h) /\ OSTCBStat[h] = {} /\ OSTCBDly[h] = 0
          /\ InPend(h) => OSTCBStatPend[h] = "OK"
          /\ OSEventCnt[m] \in Prio /\ Pip[m] < OSEventCnt[m]
          /\ OSTCBPrioTbl[OSEventCnt[m]] = h
          /\ OSTCBPrio[h] \in {OSEventCnt[m], Pip[m]}
          /\ \A x \in OSEventTbl[m] : OSTCBPrio[h] < x
          /\ Raised(m) => \E x \in OSEventTbl[m] : x < OSEventCnt[m]
      BY <2>8, <3>1 DEF UcosInv, MutexInv
    <3>3. /\ OSTCBStat'[h] = OSTCBStat[h] /\ OSTCBDly'[h] = OSTCBDly[h]
          /\ OSTCBStatPend'[h] = OSTCBStatPend[h] /\ (InPend(h)' <=> InPend(h))
      BY <1>g, <1>j, <3>1
    <3>. QED BY <1>i, <2>1, <2>4, <2>5, <3>1, <3>2, <3>3
  <2>. QED BY <2>6, <2>7, <2>8 DEF MutexInv
<1>10. HighestReadyRuns'
  BY <1>g DEF HighestReadyRuns
<1>. QED BY <1>1, <1>2, <1>3, <1>4, <1>5, <1>6, <1>7, <1>8, <1>9, <1>10 DEF UcosInv

LEMMA WaitStep ==
    ASSUME UcosInv, Discipline, NEW t \in Task, InApp(t), MayBlock(t),
           NEW e \in Pends[t], NEW timeout \in Nat,
           e \in Mutex => /\ OSEventOwner[e] # NoTask
                          /\ OSTCBPrio[OSEventOwner[e]] < OSTCBPrio[t],
           OS_EventTaskWait(t, e, timeout, OSRdyTbl, OSEventTbl),
           UNCHANGED <<schedVars, nestVars, prioVars, OSEventOwner, arg, OSEventCnt, credit>>
    PROVE  UcosInv'
<1>. USE DEF OS_EventTaskWait, InApp, Running, Goto, schedVars, prioVars, nestVars
<1>0. /\ t = OSTCBCur /\ Live(t) /\ (\A u \in Task : pc[u] # "delete") /\ t # Idle
      /\ OSTCBStat[t] = {} /\ OSTCBDly[t] = 0 /\ OSTCBEventPtr[t] = NoTask
      /\ OSLockNesting = 0 /\ (\A m \in Mutex : OSEventOwner[m] # t)
      /\ e \in Event /\ ~InPend(t)
  BY CurInApp, CurIsReady, KindFacts
  DEF MayBlock, Holds, Discipline, UcosInv, PendInv, Doomed, InPend
<1>a. /\ OSTCBStat'[t] = {Kind[e]} /\ \A u \in Task : u # t => OSTCBStat'[u] = OSTCBStat[u]
      /\ OSTCBStat' \in [Task -> SUBSET Status]
  BY <1>0, KindFacts DEF UcosInv, TaskTypeOK, Status
<1>b. /\ OSEventTbl'[e] = OSEventTbl[e] \cup {OSTCBPrio[t]}
      /\ \A x \in Event : x # e => OSEventTbl'[x] = OSEventTbl[x]
      /\ OSEventTbl' \in [Event -> SUBSET Prio]
  BY <1>0 DEF UcosInv, TaskTypeOK
<1>c. \A u \in Task : Live(u) /\ u # t => OSTCBPrio[u] # OSTCBPrio[t]
  BY <1>0 DEF Live
<1>1. TaskTypeOK'
  BY UcosAssumption, <1>0, <1>a, <1>b DEF UcosInv, TaskTypeOK, UcosLabel
<1>2. PrioInv'
  BY UcosAssumption, <1>0, <1>a, <1>b DEF UcosInv, TaskTypeOK, PrioInv, Live, Raised
<1>3. ReadyInv'
  <2>1. \A u \in Task : ~Doomed(u) /\ ~Doomed(u)'
    BY <1>0 DEF Doomed
  <2>2. OSRdyTbl' = OSRdyTbl \ {OSTCBPrio[t]} /\ OSTCBStat'[t] # {}
    BY <1>a
  <2>3. \A u \in Task : u # t => OSTCBStat'[u] = OSTCBStat[u] /\ OSTCBDly'[u] = OSTCBDly[u]
    BY <1>a DEF UcosInv, TaskTypeOK
  <2>. QED BY <1>c, <2>1, <2>2, <2>3 DEF UcosInv, ReadyInv, Live
<1>4. CurInv'
  BY UcosAssumption, <1>0, <1>a, <1>b DEF UcosInv, TaskTypeOK, CurInv, DeleteInv,
     PrioInv, StandsForCur, Live, Raised, InPend
<1>5. DeleteInv'
  BY UcosAssumption, <1>0, <1>a, <1>b DEF UcosInv, TaskTypeOK, DeleteInv, Live, Holds
<1>6. CreateInv'
  BY UcosAssumption, <1>0, <1>a, <1>b DEF UcosInv, TaskTypeOK, CreateInv, Live
<1>7. PendInv'
  BY UcosAssumption, <1>0, <1>a, KindFacts DEF UcosInv, TaskTypeOK, PendInv, InPend,
     Live, Doomed
<1>8. WaitInv'
  BY UcosAssumption, <1>0, <1>a, <1>b, <1>c DEF UcosInv, TaskTypeOK, WaitInv, WaitsFor,
      InPend, Live, PrioInv
<1>9. MutexInv'
  BY UcosAssumption, <1>0, <1>a, <1>b DEF UcosInv, TaskTypeOK, MutexInv, Live, Raised,
      InPend
<1>10. HighestReadyRuns'
  BY UcosAssumption, <1>0, <1>a, <1>b DEF UcosInv, TaskTypeOK, HighestReadyRuns,
     HighestReady, CurInv
<1>. QED BY <1>1, <1>2, <1>3, <1>4, <1>5, <1>6, <1>7, <1>8, <1>9, <1>10 DEF UcosInv

LEMMA TakeMutexStep ==
    ASSUME UcosInv, Discipline, NEW t \in Task, InApp(t), NEW m \in Mutex \cap Pends[t], TakeMutex(t, m)
    PROVE  UcosInv'
<1>. USE DEF TakeMutex, InApp, Running, schedVars, prioVars, nestVars, tcbVars
<1>0. /\ t = OSTCBCur /\ Live(t) /\ t # Idle /\ (\A u \in Task : pc[u] # "delete")
      /\ OSTCBStat[t] = {} /\ OSTCBDly[t] = 0 /\ OSTCBPrio[t] \in Prio
      /\ OSEventOwner[m] = NoTask /\ ~Raised(m)
  <2>1. t = OSTCBCur /\ t # Idle /\ OSIntNesting = 0 /\ pc[OSTCBCur] = "app"
    OBVIOUS
  <2>2. Live(t) /\ \A u \in Task : pc[u] # "delete"
    BY <2>1, CurInApp
  <2>3. OSTCBStat[t] = {} /\ OSTCBDly[t] = 0
    BY <2>1, CurIsReady
  <2>4. OSTCBPrio[t] \in Prio
    BY DEF UcosInv, TaskTypeOK
  <2>5. OSEventOwner[m] = NoTask
    <3>1. OSEventCnt[m] = Available /\ Available \notin Prio
      BY UcosAssumption DEF Available, Prio
    <3>. QED BY <3>1 DEF UcosInv, MutexInv
  <2>6. ~Raised(m)
    BY <2>5 DEF Raised
  <2>. QED BY <2>1, <2>2, <2>3, <2>4, <2>5, <2>6
<1>a. /\ OSEventOwner'[m] = t /\ OSEventCnt'[m] = OSTCBPrio[t]
      /\ \A n \in Mutex : n # m => OSEventOwner'[n] = OSEventOwner[n] /\ OSEventCnt'[n] = OSEventCnt[n]
      /\ OSEventCnt' \in [Event -> Nat] /\ OSEventOwner' \in [Mutex -> Task \cup {NoTask}]
  BY <1>0, KindFacts, UcosAssumption DEF UcosInv, TaskTypeOK, Prio
<1>b. Pip[m] < OSTCBPrio[t] /\ t # NoTask /\ OSEventTbl[m] = {}
  BY <1>0, UcosAssumption DEF UcosInv, MutexInv
<1>c. ~Raised(m)' /\ \A n \in Mutex : n # m => (Raised(n)' <=> Raised(n))
  BY <1>0, <1>a, <1>b, UcosAssumption DEF Raised, Prio
<1>1. TaskTypeOK'
  BY UcosAssumption, <1>0, <1>a, <1>b, <1>c DEF UcosInv, TaskTypeOK, UcosLabel
<1>2. PrioInv'
  BY UcosAssumption, <1>0, <1>a, <1>b, <1>c DEF UcosInv, TaskTypeOK, PrioInv, Live,
     Raised
<1>3. ReadyInv'
  BY UcosAssumption, <1>0, <1>a, <1>b, <1>c DEF UcosInv, TaskTypeOK, ReadyInv, PrioInv,
     DeleteInv, Live, Doomed
<1>4. CurInv'
  BY UcosAssumption, <1>0, <1>a, <1>b, <1>c DEF UcosInv, TaskTypeOK, CurInv, DeleteInv,
     PrioInv, StandsForCur, Live, Raised, InPend
<1>5. DeleteInv'
  BY UcosAssumption, <1>0, <1>a, <1>b, <1>c DEF UcosInv, TaskTypeOK, DeleteInv, Live,
     Holds
<1>6. CreateInv'
  BY UcosAssumption, <1>0, <1>a, <1>b, <1>c DEF UcosInv, TaskTypeOK, CreateInv, Live
<1>7. PendInv'
  BY UcosAssumption, <1>0, <1>a, <1>b, <1>c DEF UcosInv, TaskTypeOK, PendInv, InPend,
     Live, Doomed
<1>8. WaitInv'
  BY UcosAssumption, <1>0, <1>a, <1>b, <1>c DEF UcosInv, TaskTypeOK, WaitInv, WaitsFor,
      InPend, Live
<1>9. MutexInv'
  BY UcosAssumption, <1>0, <1>a, <1>b, <1>c DEF UcosInv, TaskTypeOK, MutexInv, Live,
     Raised, InPend
<1>10. HighestReadyRuns'
  BY UcosAssumption, <1>0, <1>a, <1>b, <1>c DEF UcosInv, TaskTypeOK, HighestReadyRuns,
     HighestReady, CurInv
<1>. QED BY <1>1, <1>2, <1>3, <1>4, <1>5, <1>6, <1>7, <1>8, <1>9, <1>10 DEF UcosInv

LEMMA FinishPendStep ==
    ASSUME UcosInv, NEW t \in Task, FinishPend(t)
    PROVE  UcosInv'
<1>. USE DEF FinishPend, Running, Goto, schedVars, prioVars, nestVars
<1>0. /\ t = OSTCBCur /\ OSIntNesting = 0 /\ pc[t] = "wake" /\ Live(t)
      /\ OSTCBStat[t] = {} /\ OSTCBDly[t] = 0 /\ OSLockNesting = 0
      /\ OSTCBEventPtr[t] \in Event /\ t # Idle
      /\ \A u \in Task : pc[u] # "delete"
  BY CurIsReady, KindFacts DEF UcosInv, CurInv, DeleteInv, PendInv, InPend
<1>a. /\ OSTCBStat' = OSTCBStat /\ pc' = [pc EXCEPT ![t] = "app"]
      /\ OSTCBStatPend' = [OSTCBStatPend EXCEPT ![t] = "OK"]
      /\ OSTCBEventPtr' = [OSTCBEventPtr EXCEPT ![t] = NoTask]
      /\ credit' \in [Counted -> Int]
  BY <1>0 DEF UcosInv, TaskTypeOK
<1>b. \A e \in Event : OSEventTbl'[e] = OSEventTbl[e] \ {OSTCBPrio[t]}
  <2>1. ASSUME NEW e \in Event
        PROVE  OSTCBPrio[t] \in OSEventTbl[e] <=> OSTCBEventPtr[t] = e /\ OSTCBStatPend[t] = "TO"
    BY <1>0 DEF UcosInv, WaitInv, WaitsFor, InPend
  <2>. QED BY <1>0, <2>1 DEF WaitListsWithout
<1>c. OSEventTbl' \in [Event -> SUBSET Prio]
  BY DEF WaitListsWithout, UcosInv, TaskTypeOK
<1>d. \A u \in Task : Live(u) /\ u # t => OSTCBPrio[u] # OSTCBPrio[t]
  BY <1>0 DEF Live
\* No task that waits for a mutex runs before its holder.
<1>e. \A m \in Mutex : OSEventOwner[m] # NoTask => OSTCBPrio[t] \notin OSEventTbl[m]
  <2>1. SUFFICES ASSUME NEW m \in Mutex, OSEventOwner[m] # NoTask, OSTCBPrio[t] \in OSEventTbl[m]
                 PROVE  FALSE
    OBVIOUS
  <2>2. PICK h \in Task : h = OSEventOwner[m] /\ Live(h) /\ OSTCBStat[h] = {} /\ OSTCBDly[h] = 0
                           /\ OSTCBPrio[h] < OSTCBPrio[t]
    BY <2>1 DEF UcosInv, TaskTypeOK, MutexInv
  <2>3. OSTCBPrio[h] \in OSRdyTbl
    BY <1>0, <2>2 DEF UcosInv, ReadyInv, Doomed
  <2>4. OSTCBPrio[t] <= OSTCBPrio[h]
    BY <1>0, <2>3, HighestReadyIsLive DEF UcosInv, HighestReadyRuns
  <2>5. OSTCBPrio[t] \in Int /\ OSTCBPrio[h] \in Int
    BY <2>2 DEF UcosInv, TaskTypeOK, Prio
  <2>. QED BY <2>2, <2>4, <2>5
<1>1. TaskTypeOK'
  BY <1>0, <1>a, <1>b, <1>c, <1>d, NoTaskFacts DEF UcosInv, TaskTypeOK, UcosLabel
<1>2. PrioInv'
  BY <1>0, <1>a, <1>b, <1>c, <1>d, NoTaskFacts DEF UcosInv, TaskTypeOK, PrioInv, Live,
     Raised
<1>3. ReadyInv'
  BY <1>0, <1>a, <1>b, <1>c, <1>d, NoTaskFacts DEF UcosInv, TaskTypeOK, ReadyInv,
     PrioInv, DeleteInv, Live, Doomed
<1>4. CurInv'
  BY <1>0, <1>a, <1>b, <1>c, <1>d, NoTaskFacts DEF UcosInv, TaskTypeOK, CurInv,
     DeleteInv, PrioInv, StandsForCur, Live, Raised, InPend
<1>5. DeleteInv'
  BY <1>0, <1>a, <1>b, <1>c, <1>d, NoTaskFacts DEF UcosInv, TaskTypeOK, DeleteInv,
     Live, Holds
<1>6. CreateInv'
  BY <1>0, <1>a, <1>b, <1>c, <1>d, NoTaskFacts DEF UcosInv, TaskTypeOK, CreateInv, Live
<1>7. PendInv'
  BY <1>0, <1>a, <1>b, <1>c, <1>d, NoTaskFacts DEF UcosInv, TaskTypeOK, PendInv,
      InPend, Live, Doomed
<1>8. WaitInv'
  BY <1>0, <1>a, <1>b, <1>c, <1>d, NoTaskFacts DEF UcosInv, TaskTypeOK, WaitInv,
     WaitsFor, InPend, Live
<1>9. MutexInv'
  <2>1. \A m \in Mutex : /\ OSEventOwner[m] # NoTask => OSEventTbl'[m] = OSEventTbl[m]
                         /\ OSEventTbl[m] = {} => OSEventTbl'[m] = {}
    <3>1. \A m \in Mutex : OSEventTbl'[m] = OSEventTbl[m] \ {OSTCBPrio[t]}
      BY <1>b, KindFacts
    <3>. QED BY <1>e, <3>1
  <2>2. \A u \in Task : /\ InPend(u)' => InPend(u)
                        /\ OSTCBStatPend[u] = "OK" => OSTCBStatPend'[u] = "OK"
    BY <1>a DEF UcosInv, TaskTypeOK, InPend
  <2>3. \A m \in Mutex : OSEventOwner[m] # NoTask => OSEventOwner[m] \in Task
    BY DEF UcosInv, TaskTypeOK
  <2>4. UNCHANGED <<OSTCBPrioTbl, OSTCBPrio, OSTCBStat, OSTCBDly, OSEventOwner, OSEventCnt>>
    BY <1>a
  <2>5. \A m \in Mutex : Raised(m)' <=> Raised(m)
    BY <2>4 DEF Raised
  <2>6. \A m \in Mutex : OSEventOwner[m] = NoTask => OSEventTbl'[m] = {}
    BY <2>1 DEF UcosInv, MutexInv
  <2>7. \A m \in Mutex : OSEventOwner[m] # NoTask /\ InPend(OSEventOwner[m])
                          => OSTCBStatPend[OSEventOwner[m]] = "OK"
    BY DEF UcosInv, MutexInv
  <2>8. \A m \in Mutex : OSEventOwner[m] # NoTask /\ InPend(OSEventOwner[m])'
                          => OSTCBStatPend'[OSEventOwner[m]] = "OK"
    BY <2>2, <2>3, <2>4, <2>7 DEF InPend
  <2>. QED BY <2>1, <2>4, <2>5, <2>6, <2>8 DEF UcosInv, MutexInv, Live, InPend
<1>10. HighestReadyRuns'
  BY <1>0, <1>a DEF UcosInv, HighestReadyRuns, HighestReady
<1>. QED BY <1>1, <1>2, <1>3, <1>4, <1>5, <1>6, <1>7, <1>8, <1>9, <1>10 DEF UcosInv

\* OSMutexPend lends the priority of the mutex to the holder h, which is ready.
LEMMA InheritStep ==
    ASSUME UcosInv, Discipline, NEW t \in Task, InApp(t), MayBlock(t),
           NEW m \in Mutex \cap Pends[t], WaitForMutex(t, m), Inherits(m, t)
    PROVE  UcosInv'
<1>1. PICK h \in Task : h = OSEventOwner[m]
  BY DEF WaitForMutex, UcosInv, TaskTypeOK, MutexInv
<1>2. /\ t = OSTCBCur /\ pc[t] = "app" /\ OSIntNesting = 0 /\ Live(t) /\ t # Idle
      /\ OSTCBStat[t] = {} /\ OSTCBDly[t] = 0 /\ OSTCBEventPtr[t] = NoTask
      /\ OSLockNesting = 0 /\ (\A n \in Mutex : OSEventOwner[n] # t)
      /\ m \in Event /\ Kind[m] = "MUTEX" /\ ~InPend(t) /\ t # h
      /\ \A u \in Task : pc[u] # "delete"
  BY <1>1, CurInApp, CurIsReady, KindFacts
  DEF InApp, Running, MayBlock, Holds, Discipline, UcosInv, PendInv, Doomed, InPend
<1>3. /\ h # Idle /\ m \in Pends[h] /\ Live(h) /\ OSTCBStat[h] = {} /\ OSTCBDly[h] = 0
      /\ InPend(h) => OSTCBStatPend[h] = "OK"
      /\ OSTCBPrio[h] \in Prio /\ OSTCBPrio[t] \in Prio /\ Pip[m] \in Prio
      /\ OSTCBPrio[h] = OSEventCnt[m] /\ Pip[m] < OSEventCnt[m] /\ ~Raised(m)
      /\ OSTCBPrioTbl[Pip[m]] = Reserved /\ Pip[m] < OSTCBPrio[t] /\ OSTCBPrio[t] < OSEventCnt[m]
      /\ Pip[m] # OSTCBPrio[t] /\ Pip[m] # OSTCBPrio[h]
  <2>1. OSTCBPrio[h] \in Prio /\ OSTCBPrio[t] \in Prio /\ Pip[m] \in Prio
    BY UcosAssumption DEF UcosInv, TaskTypeOK
  <2>2. OSTCBPrio[h] # Pip[m] /\ OSTCBPrio[t] < OSEventCnt[m]
    BY <1>1, <2>1, UcosAssumption DEF Inherits, Prio, UcosInv, TaskTypeOK
  <2>3. Pip[m] < OSTCBPrio[t] /\ Pip[m] < OSEventCnt[m] /\ OSEventCnt[m] = OSTCBPrio[h]
    BY <1>1, <1>2, <2>2, NoTaskFacts DEF UcosInv, MutexInv
  <2>4. Pip[m] # OSTCBPrio[t] /\ Pip[m] # OSTCBPrio[h]
    BY <2>1, <2>3 DEF Prio
  <2>. QED BY <1>1, <1>2, <2>1, <2>2, <2>3, <2>4, NoTaskFacts DEF UcosInv, MutexInv, PrioInv, Raised
<1>4. /\ OSTCBPrio[h] \in OSRdyTbl /\ Pip[m] \notin OSRdyTbl
      /\ \A e \in Event : OSTCBPrio[h] \notin OSEventTbl[e] /\ Pip[m] \notin OSEventTbl[e]
  BY <1>2, <1>3, NoTaskFacts DEF UcosInv, ReadyInv, Doomed, WaitInv, WaitsFor
<1>5. \A n \in Mutex : n # m => OSEventOwner[n] # h /\ Pip[n] # Pip[m] /\ n \notin Pends[h]
  BY <1>3, UcosAssumption, NoTaskFacts DEF UcosInv, MutexInv, Discipline
<1>6. PICK timeout \in Nat :
        /\ OSTCBPrio' = [OSTCBPrio EXCEPT ![h] = Pip[m]]
        /\ OSTCBPrioTbl' = [OSTCBPrioTbl EXCEPT ![Pip[m]] = h]
        /\ OS_EventTaskWait(t, m, timeout, RaisedReady(h, Pip[m]), RaisedWaiting(h, Pip[m]))
        /\ UNCHANGED <<schedVars, nestVars, OSEventOwner, arg, OSEventCnt, credit>>
  BY <1>1, UcosEventAssumption DEF WaitForMutex
<1>7. /\ OSRdyTbl' = ((OSRdyTbl \ {OSTCBPrio[h]}) \cup {Pip[m]}) \ {OSTCBPrio[t]}
      /\ OSTCBStat' = [OSTCBStat EXCEPT ![t] = @ \cup {"MUTEX"}]
      /\ OSTCBStatPend' = [OSTCBStatPend EXCEPT ![t] = "OK"]
      /\ OSTCBDly' = [OSTCBDly EXCEPT ![t] = timeout]
      /\ OSTCBEventPtr' = [OSTCBEventPtr EXCEPT ![t] = m]
      /\ pc' = [pc EXCEPT ![t] = "pend"]
  BY <1>2, <1>4, <1>6 DEF OS_EventTaskWait, RaisedReady, Goto
<1>8. /\ OSEventTbl'[m] = OSEventTbl[m] \cup {OSTCBPrio[t]}
      /\ \A e \in Event : e # m => OSEventTbl'[e] = OSEventTbl[e]
      /\ OSEventTbl' \in [Event -> SUBSET Prio]
  <2>1. RaisedWaiting(h, Pip[m]) = OSEventTbl
    BY <1>4 DEF RaisedWaiting, UcosInv, TaskTypeOK
  <2>. QED BY <1>2, <1>3, <1>6, <2>1 DEF OS_EventTaskWait, UcosInv, TaskTypeOK
<1>9. /\ OSTCBStat'[t] = {"MUTEX"} /\ \A u \in Task : u # t => OSTCBStat'[u] = OSTCBStat[u]
      /\ OSTCBStat' \in [Task -> SUBSET Status]
  BY <1>2, <1>7 DEF UcosInv, TaskTypeOK, Status, PendAny
<1>10. /\ OSTCBPrio'[h] = Pip[m] /\ OSTCBPrio' \in [Task -> Prio]
       /\ \A u \in Task : u # h => OSTCBPrio'[u] = OSTCBPrio[u]
       /\ OSTCBPrioTbl'[Pip[m]] = h /\ OSTCBPrioTbl' \in [Prio -> Task \cup {NoTask, Reserved}]
       /\ \A p \in Prio : p # Pip[m] => OSTCBPrioTbl'[p] = OSTCBPrioTbl[p]
  BY <1>3, <1>6 DEF UcosInv, TaskTypeOK
<1>11. \A u \in Task : /\ Live(u)' <=> Live(u)
                       /\ Live(u) /\ u # h => OSTCBPrio[u] # Pip[m] /\ OSTCBPrio[u] # OSTCBPrio[h]
                       /\ Live(u) /\ u # t => OSTCBPrio[u] # OSTCBPrio[t]
  BY <1>2, <1>3, <1>10, NoTaskFacts DEF UcosInv, TaskTypeOK, Live
<1>12. Raised(m)' /\ \A n \in Mutex : n # m => (Raised(n)' <=> Raised(n))
  <2>1. Raised(m)'
    BY <1>1, <1>6, <1>10, NoTaskFacts DEF Raised
  <2>2. ASSUME NEW n \in Mutex, n # m
        PROVE  Raised(n)' <=> Raised(n)
    BY <1>5, <1>6, <1>10, <2>2 DEF Raised, UcosInv, TaskTypeOK
  <2>. QED BY <2>1, <2>2
<1>13. TaskTypeOK'
  <2>1. OSRdyTbl' \in SUBSET Prio
    BY <1>3, <1>7 DEF UcosInv, TaskTypeOK
  <2>. QED BY <1>2, <1>6, <1>7, <1>8, <1>9, <1>10, <2>1
       DEF UcosInv, TaskTypeOK, UcosLabel, schedVars, nestVars
<1>14. PrioInv'
  BY <1>1, <1>2, <1>3, <1>5, <1>6, <1>7, <1>9, <1>10, <1>11, <1>12, NoTaskFacts
  DEF UcosInv, TaskTypeOK, PrioInv
<1>15. ReadyInv'
  <2>1. \A p \in OSRdyTbl' : OSTCBPrioTbl'[p] \in Task /\ OSTCBPrio'[OSTCBPrioTbl'[p]] = p
    BY <1>3, <1>4, <1>7, <1>10 DEF UcosInv, TaskTypeOK, ReadyInv
  <2>2. \A u \in Task : ~Doomed(u) /\ ~Doomed(u)'
    BY <1>2, <1>6, <1>7 DEF Doomed, schedVars, UcosInv, TaskTypeOK
  <2>3. OSTCBPrio'[h] \in OSRdyTbl' /\ OSTCBPrio'[t] \notin OSRdyTbl'
    BY <1>2, <1>3, <1>7, <1>10
  <2>4. \A u \in Task : Live(u) /\ u # h /\ u # t =>
            (OSTCBPrio'[u] \in OSRdyTbl' <=> OSTCBPrio[u] \in OSRdyTbl)
    BY <1>7, <1>10, <1>11
  <2>5. \A u \in Task : u # t => OSTCBDly'[u] = OSTCBDly[u]
    BY <1>7 DEF UcosInv, TaskTypeOK
  <2>6. \A u \in Task : Live(u) => (OSTCBPrio'[u] \in OSRdyTbl' <=> OSTCBStat'[u] = {} /\ OSTCBDly'[u] = 0)
    BY <1>2, <1>3, <1>9, <2>2, <2>3, <2>4, <2>5, SMTT(30) DEF UcosInv, ReadyInv
  <2>. QED BY <1>11, <2>1, <2>2, <2>6 DEF ReadyInv
<1>16. CurInv'
  BY <1>2, <1>6, <1>7, <1>10, <1>11 DEF UcosInv, TaskTypeOK, CurInv, StandsForCur, schedVars, nestVars
<1>17. DeleteInv'
  BY <1>2, <1>6, <1>7 DEF UcosInv, TaskTypeOK, DeleteInv
<1>18. CreateInv'
  BY <1>2, <1>3, <1>6, <1>7, <1>10, <1>11 DEF UcosInv, TaskTypeOK, CreateInv
<1>19. PendInv'
  BY <1>2, <1>6, <1>7, <1>9, <1>11 DEF UcosInv, TaskTypeOK, PendInv, InPend, Doomed, schedVars
<1>20. WaitInv'
  BY <1>2, <1>3, <1>4, <1>6, <1>7, <1>8, <1>9, <1>10, <1>11
  DEF UcosInv, TaskTypeOK, WaitInv, WaitsFor, InPend, Live
<1>21. MutexInv'
  <2>1. ASSUME NEW u \in Task, u # t
        PROVE  /\ OSTCBDly'[u] = OSTCBDly[u]
               /\ OSTCBStatPend'[u] = OSTCBStatPend[u]
               /\ InPend(u)' <=> InPend(u)
    BY <1>7, <2>1 DEF UcosInv, TaskTypeOK, InPend
  <2>2. UNCHANGED <<OSEventOwner, OSEventCnt>>
    BY <1>6
  <2>3. ASSUME NEW n \in Mutex, NEW u \in Task \ {Idle},
               Live(u), n \in Pends[u], OSEventOwner[n] # u
        PROVE  Pip[n] < OSTCBPrio'[u]
    BY <1>1, <1>5, <1>10, <2>3 DEF UcosInv, MutexInv
  <2>4. \A p \in OSEventTbl'[m] : Pip[m] < p
    <3>1. ASSUME NEW p \in OSEventTbl[m]
          PROVE  Pip[m] < p
      <4>1. PICK u \in Task : Live(u) /\ OSTCBPrio[u] = p /\ WaitsFor(u, m)
        BY <1>2, <3>1 DEF UcosInv, TaskTypeOK, WaitInv, Live
      <4>2. u # h
        BY <1>4, <1>2, <3>1, <4>1
      <4>. QED BY <1>1, <4>1, <4>2 DEF UcosInv, MutexInv, PendInv, WaitsFor
    <3>. QED BY <1>3, <1>8, <3>1
  <2>5. ASSUME NEW n \in Mutex, n # m, OSEventOwner[n] # NoTask
        PROVE  /\ OSEventOwner[n] \in Task \ {h, t} /\ OSEventTbl'[n] = OSEventTbl[n]
               /\ OSEventCnt[n] # Pip[m]
    BY <1>2, <1>3, <1>5, <1>8, <2>5, KindFacts, NoTaskFacts DEF UcosInv, TaskTypeOK, MutexInv
  <2>6. ASSUME NEW n \in Mutex, n # m
        PROVE  /\ OSEventTbl[n] = {} => OSEventTbl'[n] = {}
               /\ Raised(n)' <=> Raised(n)
    BY <1>8, <1>12, <2>6, KindFacts
  <2>7. \E p \in OSEventTbl'[m] : p < OSEventCnt[m]
    BY <1>3, <1>8
  <2>8. ASSUME NEW n \in Mutex, NEW k \in Task, OSEventOwner[n] = k, n # m
        PROVE  /\ OSTCBStat'[k] = {} /\ OSTCBDly'[k] = 0
               /\ InPend(k)' => OSTCBStatPend'[k] = "OK"
               /\ OSTCBPrioTbl'[OSEventCnt[n]] = k /\ OSTCBPrio'[k] = OSTCBPrio[k]
    <3>1. k # NoTask /\ k # h /\ k # t /\ OSEventCnt[n] # Pip[m]
      BY <2>5, <2>8, NoTaskFacts
    <3>2. /\ OSTCBStat[k] = {} /\ OSTCBDly[k] = 0 /\ OSEventCnt[n] \in Prio
          /\ InPend(k) => OSTCBStatPend[k] = "OK"
          /\ OSTCBPrioTbl[OSEventCnt[n]] = k
      BY <2>8, <3>1 DEF UcosInv, MutexInv
    <3>. QED BY <1>9, <1>10, <2>1, <3>1, <3>2
  <2>9. /\ OSTCBStat'[h] = {} /\ OSTCBDly'[h] = 0
        /\ InPend(h)' => OSTCBStatPend'[h] = "OK"
        /\ OSTCBPrioTbl'[OSEventCnt[m]] = h
    BY <1>2, <1>3, <1>9, <1>10, <2>1 DEF Live
  <2>10. \A n \in Mutex, u \in Task \ {Idle} :
            Live(u)' /\ n \in Pends[u] /\ OSEventOwner'[n] # u => Pip[n] < OSTCBPrio'[u]
    BY <1>11, <2>2, <2>3
  <2>11. ASSUME NEW n \in Mutex, NEW k \in Task, OSEventOwner[n] = k
         PROVE  /\ k # Idle /\ n \in Pends[k] /\ Live(k)'
                /\ OSTCBStat'[k] = {} /\ OSTCBDly'[k] = 0
                /\ InPend(k)' => OSTCBStatPend'[k] = "OK"
                /\ OSEventCnt'[n] \in Prio /\ Pip[n] < OSEventCnt'[n]
                /\ OSTCBPrioTbl'[OSEventCnt'[n]] = k
                /\ OSTCBPrio'[k] \in {OSEventCnt'[n], Pip[n]}
                /\ \A p \in OSEventTbl'[n] : OSTCBPrio'[k] < p
                /\ Raised(n)' => \E p \in OSEventTbl'[n] : p < OSEventCnt'[n]
    <3>1. CASE n = m
      BY <1>1, <1>3, <1>10, <1>11, <2>2, <2>4, <2>7, <2>9, <2>11, <3>1, NoTaskFacts
      DEF UcosInv, MutexInv
    <3>2. CASE n # m
      BY <1>11, <2>2, <2>5, <2>6, <2>8, <2>11, <3>2, NoTaskFacts DEF UcosInv, MutexInv
    <3>. QED BY <3>1, <3>2
  <2>12. ASSUME NEW n \in Mutex, OSEventOwner'[n] = NoTask
         PROVE  OSEventCnt'[n] = Available /\ OSEventTbl'[n] = {}
    BY <1>1, <2>2, <2>6, <2>12, NoTaskFacts DEF UcosInv, MutexInv
  <2>13. \A n \in Mutex : OSEventOwner'[n] # NoTask => OSEventOwner'[n] \in Task
    BY <1>13 DEF TaskTypeOK
  <2>. QED BY <2>2, <2>10, <2>11, <2>12, <2>13 DEF MutexInv, InPend, Live
<1>22. HighestReadyRuns'
  BY <1>2, <1>6, <1>7 DEF HighestReadyRuns, schedVars, UcosInv, TaskTypeOK
<1>. QED BY <1>13, <1>14, <1>15, <1>16, <1>17, <1>18, <1>19, <1>20, <1>21, <1>22 DEF UcosInv

\* What holds of the task that gives a mutex
Giver(t, m) ==
    /\ t = OSTCBCur /\ pc[t] = "app" /\ OSIntNesting = 0 /\ Live(t) /\ t # Idle
    /\ OSTCBStat[t] = {} /\ OSTCBDly[t] = 0 /\ OSTCBEventPtr[t] = NoTask
    /\ m \in Event /\ Kind[m] = "MUTEX" /\ OSEventOwner[m] = t /\ m \in Pends[t]
    /\ \A u \in Task : pc[u] # "delete"
    /\ OSTCBPrio[t] \in Prio /\ OSEventCnt[m] \in Prio /\ Pip[m] \in Prio
    /\ Pip[m] < OSEventCnt[m] /\ Pip[m] # OSEventCnt[m]
    /\ OSTCBPrioTbl[OSEventCnt[m]] = t /\ OSTCBPrio[t] \in {OSEventCnt[m], Pip[m]}
    /\ Lowered(t, m) = OSEventCnt[m] /\ OSTCBPrio[t] \in OSRdyTbl
    /\ \A e \in Event : OSTCBPrio[t] \notin OSEventTbl[e] /\ OSEventCnt[m] \notin OSEventTbl[e]
    /\ \A n \in Mutex : n # m => OSEventOwner[n] # t /\ Pip[n] # Pip[m] /\ n \notin Pends[t]

LEMMA GiverFacts ==
    ASSUME UcosInv, Discipline, NEW t \in Task, NEW m \in Mutex, OSMutexPost(t, m)
    PROVE  Giver(t, m)
<1>1. /\ t = OSTCBCur /\ pc[t] = "app" /\ OSIntNesting = 0 /\ t # Idle /\ Live(t)
      /\ OSEventOwner[m] = t /\ \A u \in Task : pc[u] # "delete"
  BY CurInApp DEF OSMutexPost, InApp, Running
<1>2. OSTCBStat[t] = {} /\ OSTCBDly[t] = 0 /\ OSTCBEventPtr[t] = NoTask
  BY <1>1, CurIsReady DEF UcosInv, PendInv, InPend, Doomed
<1>3. /\ m \in Pends[t] /\ OSEventCnt[m] \in Prio /\ Pip[m] < OSEventCnt[m]
      /\ OSTCBPrioTbl[OSEventCnt[m]] = t /\ OSTCBPrio[t] \in {OSEventCnt[m], Pip[m]}
  BY <1>1, NoTaskFacts DEF UcosInv, MutexInv
<1>4. OSTCBPrio[t] \in Prio /\ Pip[m] \in Prio
  BY UcosAssumption DEF UcosInv, TaskTypeOK
<1>5. Pip[m] # OSEventCnt[m]
  BY <1>3, <1>4 DEF Prio
<1>6. Lowered(t, m) = OSEventCnt[m]
  BY <1>3, <1>5 DEF Lowered
<1>7. OSTCBPrio[t] \in OSRdyTbl
  BY <1>1, <1>2 DEF UcosInv, ReadyInv, Doomed
<1>8. ASSUME NEW e \in Event
      PROVE  OSTCBPrio[t] \notin OSEventTbl[e] /\ OSEventCnt[m] \notin OSEventTbl[e]
  <2>1. OSTCBPrio[t] \notin OSEventTbl[e]
    BY <1>1, NoTaskFacts DEF UcosInv, WaitInv, WaitsFor, InPend
  <2>2. OSEventCnt[m] \in OSEventTbl[e] => OSTCBPrio[t] = OSEventCnt[m]
    BY <1>3 DEF UcosInv, WaitInv
  <2>. QED BY <2>1, <2>2
<1>9. \A n \in Mutex : n # m => OSEventOwner[n] # t /\ Pip[n] # Pip[m] /\ n \notin Pends[t]
  BY <1>1, <1>3, UcosAssumption, NoTaskFacts DEF UcosInv, MutexInv, Discipline
<1>. QED BY <1>1, <1>2, <1>3, <1>4, <1>5, <1>6, <1>7, <1>8, <1>9, KindFacts DEF Giver

LEMMA GiveEffects ==
    ASSUME UcosInv, Discipline, NEW t \in Task, NEW m \in Mutex, OSMutexPost(t, m)
    PROVE  /\ OSTCBPrio' = [OSTCBPrio EXCEPT ![t] = OSEventCnt[m]]
           /\ OSPrioCur' = IF OSTCBPrio[t] = Pip[m] THEN OSEventCnt[m] ELSE OSPrioCur
           /\ OSTCBPrioTbl' = [OSTCBPrioTbl EXCEPT ![OSEventCnt[m]] = t, ![Pip[m]] = Reserved]
           /\ OS_EventTaskRdy(m, MostUrgent(m), "OK",
                              (OSRdyTbl \ {OSTCBPrio[t]}) \cup {OSEventCnt[m]})
           /\ UNCHANGED <<OSTCBCur, OSTCBHighRdy, OSPrioHighRdy, OSIntNesting, OSLockNesting,
                          OSTCBEventPtr, arg, credit>>
<1>1. Lowered(t, m) = OSEventCnt[m]
  BY GiverFacts DEF Giver
<1>. QED BY <1>1 DEF OSMutexPost, nestVars

\* Nobody waits: the holder has its own priority, and nothing but the mutex changes.
LEMMA GiveStep ==
    ASSUME UcosInv, Discipline, NEW t \in Task, NEW m \in Mutex, OSMutexPost(t, m),
           OSEventTbl[m] = {}
    PROVE  UcosInv'
<1>0. Giver(t, m)
  BY GiverFacts
<1>1. OSTCBPrio[t] = OSEventCnt[m] /\ ~Raised(m) /\ OSTCBPrioTbl[Pip[m]] = Reserved
  BY <1>0, NoTaskFacts DEF UcosInv, MutexInv, PrioInv, Raised, Giver
<1>2. MostUrgent(m) = {}
  BY DEF MostUrgent
<1>e. /\ OSTCBPrio' = [OSTCBPrio EXCEPT ![t] = OSEventCnt[m]]
      /\ OSPrioCur' = IF OSTCBPrio[t] = Pip[m] THEN OSEventCnt[m] ELSE OSPrioCur
      /\ OSTCBPrioTbl' = [OSTCBPrioTbl EXCEPT ![OSEventCnt[m]] = t, ![Pip[m]] = Reserved]
      /\ OS_EventTaskRdy(m, MostUrgent(m), "OK",
                         (OSRdyTbl \ {OSTCBPrio[t]}) \cup {OSEventCnt[m]})
      /\ UNCHANGED <<OSTCBCur, OSTCBHighRdy, OSPrioHighRdy, OSIntNesting, OSLockNesting,
                     OSTCBEventPtr, arg, credit>>
  BY GiveEffects
<1>3. /\ UNCHANGED <<OSTCBCur, OSTCBHighRdy, OSPrioCur, OSPrioHighRdy, OSIntNesting, OSLockNesting,
                     OSTCBEventPtr, arg, credit, OSTCBPrio>>
  BY <1>1, <1>0, <1>e DEF UcosInv, TaskTypeOK, Giver
<1>4. OSTCBPrioTbl' = OSTCBPrioTbl
  BY <1>1, <1>0, <1>e DEF UcosInv, TaskTypeOK, Giver
<1>5. OSEventTbl' = OSEventTbl
  BY <1>2, <1>e DEF OS_EventTaskRdy, UcosInv, TaskTypeOK
<1>6. OSRdyTbl' = OSRdyTbl /\ OSTCBDly' = OSTCBDly /\ OSTCBStat' = OSTCBStat
      /\ OSTCBStatPend' = OSTCBStatPend
  <2>1. OSRdyTbl' = OSRdyTbl
    BY <1>1, <1>2, <1>0, <1>e DEF OS_EventTaskRdy, Giver
  <2>2. OSTCBDly' = OSTCBDly /\ OSTCBStat' = OSTCBStat /\ OSTCBStatPend' = OSTCBStatPend
    BY <1>2, <1>e DEF OS_EventTaskRdy, UcosInv, TaskTypeOK
  <2>. QED BY <2>1, <2>2
<1>7. /\ OSEventCnt' = [OSEventCnt EXCEPT ![m] = Available]
      /\ OSEventOwner' = [OSEventOwner EXCEPT ![m] = NoTask]
      /\ pc' = [pc EXCEPT ![t] = "app"]
  BY <1>2 DEF OSMutexPost, Goto
<1>8. pc' = pc
  BY <1>7, <1>0 DEF UcosInv, TaskTypeOK, Giver
<1>9. \A n \in Mutex : Raised(n)' <=> Raised(n)
  BY <1>1, <1>3, <1>7, NoTaskFacts DEF Raised, UcosInv, TaskTypeOK
<1>10. TaskTypeOK'
  <2>1. OSEventCnt' \in [Event -> Nat]
    <3>1. Available \in Nat
      BY NoTaskFacts DEF Available
    <3>. QED BY <1>7, <3>1 DEF UcosInv, TaskTypeOK
  <2>. QED BY <1>3, <1>4, <1>5, <1>6, <1>7, <1>8, <2>1 DEF UcosInv, TaskTypeOK
<1>11. PrioInv'
  BY <1>1, <1>3, <1>4, <1>6, <1>7, <1>8, <1>9, <1>0, NoTaskFacts DEF UcosInv, TaskTypeOK, PrioInv, Live, Giver
<1>12. ReadyInv' /\ CreateInv' /\ PendInv' /\ WaitInv' /\ HighestReadyRuns'
  BY <1>3, <1>4, <1>5, <1>6, <1>8
  DEF UcosInv, ReadyInv, CreateInv, PendInv, WaitInv, HighestReadyRuns, WaitsFor, Live, Doomed,
      InPend, HighestReady
<1>13. CurInv'
  BY <1>3, <1>4, <1>6, <1>8, <1>9 DEF UcosInv, CurInv, StandsForCur, Live, InPend
<1>14. DeleteInv'
  BY <1>8, <1>0 DEF DeleteInv, Giver
<1>15. MutexInv'
  <2>1. \A n \in Mutex : n # m => OSEventOwner'[n] = OSEventOwner[n] /\ OSEventCnt'[n] = OSEventCnt[n]
    BY <1>7, KindFacts DEF UcosInv, TaskTypeOK
  <2>2. OSEventOwner'[m] = NoTask /\ OSEventCnt'[m] = Available
    BY <1>7, KindFacts DEF UcosInv, TaskTypeOK
  <2>3. Pip[m] < OSTCBPrio[t]
    BY <1>1, <1>0 DEF Giver
  <2>. QED BY <1>3, <1>4, <1>5, <1>6, <1>8, <1>9, <2>1, <2>2, <2>3, <1>0, SMTT(30)
           DEF UcosInv, MutexInv, Live, InPend, Giver
<1>. QED BY <1>10, <1>11, <1>12, <1>13, <1>14, <1>15 DEF UcosInv

\* The mutex goes to the most urgent task u that waits.
LEMMA HandOverStep ==
    ASSUME UcosInv, Discipline, NEW t \in Task, NEW m \in Mutex, OSMutexPost(t, m),
           OSEventTbl[m] # {}
    PROVE  UcosInv'
<1> DEFINE q == Min(OSEventTbl[m])
           u == OSTCBPrioTbl[q]
<1>1. Giver(t, m)
  BY GiverFacts
<1>2. q \in OSEventTbl[m] /\ q \in Prio /\ \A p \in OSEventTbl[m] : q <= p
  BY <1>1, LeastPrio DEF Giver, UcosInv, TaskTypeOK
<1>3. u \in Task /\ OSTCBPrio[u] = q /\ Live(u) /\ WaitsFor(u, m)
  BY <1>1, <1>2 DEF Giver, UcosInv, WaitInv, Live
<1>. HIDE DEF u, q
<1>4. /\ u # t /\ u # Idle /\ InPend(u) /\ OSTCBEventPtr[u] = m /\ m \in Pends[u]
      /\ OSTCBStat[u] \subseteq {"MUTEX"} /\ q # OSTCBPrio[t] /\ q # OSEventCnt[m]
      /\ Pip[m] < q /\ Pip[m] # q
  <2>1. u # t
    BY <1>1, <1>2, <1>3 DEF Giver
  <2>2. InPend(u) /\ u # Idle /\ OSTCBEventPtr[u] = m /\ m \in Pends[u]
    BY <1>3 DEF WaitsFor, UcosInv, PendInv
  <2>3. OSTCBStat[u] \subseteq {"MUTEX"}
    BY <1>1, <1>3, <2>2 DEF Giver, UcosInv, PendInv, Discipline
  <2>4. Pip[m] < q
    BY <1>1, <1>3, <2>1, <2>2 DEF Giver, UcosInv, MutexInv
  <2>. QED BY <1>1, <1>2, <2>1, <2>2, <2>3, <2>4 DEF Giver, Prio
<1>5. \A n \in Mutex : OSEventOwner[n] # u
  <2>1. SUFFICES ASSUME NEW n \in Mutex, OSEventOwner[n] = u PROVE FALSE
    OBVIOUS
  <2>2. OSTCBStat[u] = {} /\ OSTCBStatPend[u] = "OK"
    BY <1>3, <1>4, <2>1, NoTaskFacts DEF UcosInv, MutexInv
  <2>. QED BY <1>3, <2>2 DEF WaitsFor
<1>6. \A n \in Mutex : n # m => n \notin Pends[u]
  BY <1>3, <1>4 DEF Discipline
<1>7. MostUrgent(m) = {u} /\ Wakeable(u)
  BY <1>1, <1>4 DEF MostUrgent, Wakeable, u, q
<1>8. /\ OSTCBPrio' = [OSTCBPrio EXCEPT ![t] = OSEventCnt[m]]
      /\ OSPrioCur' = IF OSTCBPrio[t] = Pip[m] THEN OSEventCnt[m] ELSE OSPrioCur
      /\ OSTCBPrioTbl' = [OSTCBPrioTbl EXCEPT ![OSEventCnt[m]] = t, ![Pip[m]] = Reserved]
      /\ OS_EventTaskRdy(m, MostUrgent(m), "OK",
                         (OSRdyTbl \ {OSTCBPrio[t]}) \cup {OSEventCnt[m]})
      /\ UNCHANGED <<OSTCBCur, OSTCBHighRdy, OSPrioHighRdy, OSIntNesting, OSLockNesting,
                     OSTCBEventPtr, arg, credit>>
  BY GiveEffects
<1>9. /\ OSEventCnt' = [OSEventCnt EXCEPT ![m] = q]
      /\ OSEventOwner' = [OSEventOwner EXCEPT ![m] = u]
      /\ pc' = [pc EXCEPT ![t] = "sched"]
  BY <1>7 DEF OSMutexPost, Goto, q
<1>10. /\ OSTCBPrioTbl'[Pip[m]] = Reserved /\ \A p \in Prio : p # Pip[m] => OSTCBPrioTbl'[p] = OSTCBPrioTbl[p]
       /\ OSTCBPrio'[t] = OSEventCnt[m] /\ \A v \in Task : v # t => OSTCBPrio'[v] = OSTCBPrio[v]
       /\ OSTCBPrioTbl' \in [Prio -> Task \cup {NoTask, Reserved}] /\ OSTCBPrio' \in [Task -> Prio]
  BY <1>1, <1>8 DEF Giver, UcosInv, TaskTypeOK
<1>11. /\ OSRdyTbl' = ((OSRdyTbl \ {OSTCBPrio[t]}) \cup {OSEventCnt[m]}) \cup {q}
       /\ OSRdyTbl' \in SUBSET Prio
  BY <1>1, <1>2, <1>3, <1>7, <1>8 DEF OS_EventTaskRdy, Giver, UcosInv, TaskTypeOK
<1>12. /\ OSEventTbl'[m] = OSEventTbl[m] \ {q}
       /\ \A e \in Event : e # m => OSEventTbl'[e] = OSEventTbl[e]
       /\ OSEventTbl' \in [Event -> SUBSET Prio]
  BY <1>1, <1>3, <1>7, <1>8 DEF OS_EventTaskRdy, Giver, UcosInv, TaskTypeOK
<1>13. /\ OSTCBStat'[u] = {} /\ \A v \in Task : v # u => OSTCBStat'[v] = OSTCBStat[v]
       /\ OSTCBStat' \in [Task -> SUBSET Status]
  BY <1>1, <1>3, <1>4, <1>7, <1>8 DEF OS_EventTaskRdy, Giver, UcosInv, TaskTypeOK
<1>14. /\ OSTCBDly'[u] = 0 /\ \A v \in Task : v # u => OSTCBDly'[v] = OSTCBDly[v]
       /\ OSTCBStatPend'[u] = "OK" /\ \A v \in Task : v # u => OSTCBStatPend'[v] = OSTCBStatPend[v]
       /\ OSTCBDly' \in [Task -> Nat] /\ OSTCBStatPend' \in [Task -> {"OK", "TO", "ABORT"}]
  BY <1>1, <1>3, <1>7, <1>8 DEF OS_EventTaskRdy, Giver, UcosInv, TaskTypeOK
<1>15. /\ OSEventOwner'[m] = u /\ OSEventCnt'[m] = q
       /\ \A n \in Mutex : n # m => OSEventOwner'[n] = OSEventOwner[n] /\ OSEventCnt'[n] = OSEventCnt[n]
       /\ OSEventOwner' \in [Mutex -> Task \cup {NoTask}] /\ OSEventCnt' \in [Event -> Nat]
  BY <1>1, <1>2, <1>3, <1>9, KindFacts, NoTaskFacts DEF Giver, UcosInv, TaskTypeOK, Prio
<1>16. ASSUME NEW v \in Task
       PROVE  /\ Live(v)' <=> Live(v)
              /\ v # t => OSTCBPrio'[v] = OSTCBPrio[v]
              /\ Live(v) /\ v # t => OSTCBPrio[v] # OSTCBPrio[t] /\ OSTCBPrio[v] # OSEventCnt[m]
              /\ Live(v) /\ v # u => OSTCBPrio[v] # q
              /\ InPend(v)' <=> InPend(v)
              /\ ~Doomed(v) /\ ~Doomed(v)'
              /\ pc'[v] # "delete" /\ (pc'[v] = "create" <=> pc[v] = "create")
  <2>1. Live(v) /\ v # t => OSTCBPrio[v] # OSTCBPrio[t] /\ OSTCBPrio[v] # OSEventCnt[m]
    BY <1>1, NoTaskFacts DEF Giver, Live
  <2>2. Live(v) /\ v # u => OSTCBPrio[v] # q
    BY <1>3 DEF Live
  <2>3. v # t => (Live(v)' <=> Live(v))
    <3>1. CASE OSTCBPrio[v] = Pip[m]
      BY <1>1, <1>10, <2>1, <3>1, NoTaskFacts DEF Giver, Live, UcosInv, PrioInv, Raised
    <3>2. CASE OSTCBPrio[v] # Pip[m]
      BY <1>10, <3>2 DEF Live, UcosInv, TaskTypeOK
    <3>. QED BY <3>1, <3>2
  <2>4. Live(t) /\ Live(t)'
    BY <1>1, <1>10 DEF Giver, Live
  <2>5. pc'[v] # "delete" /\ (pc'[v] = "create" <=> pc[v] = "create") /\ (InPend(v)' <=> InPend(v))
    BY <1>1, <1>9 DEF Giver, InPend, UcosInv, TaskTypeOK
  <2>6. ~Doomed(v) /\ ~Doomed(v)'
    BY <1>1, <1>8, <1>9 DEF Giver, Doomed, UcosInv, TaskTypeOK
  <2>. QED BY <1>10, <2>1, <2>2, <2>3, <2>4, <2>5, <2>6
<1>17. ~Raised(m)' /\ \A n \in Mutex : n # m => (Raised(n)' <=> Raised(n))
  <2>1. ~Raised(m)'
    BY <1>3, <1>4, <1>15, <1>16 DEF Raised
  <2>2. ASSUME NEW n \in Mutex, n # m
        PROVE  Raised(n)' <=> Raised(n)
    BY <1>1, <1>10, <1>15, <2>2 DEF Giver, Raised, UcosInv, TaskTypeOK
  <2>. QED BY <2>1, <2>2
<1>18. TaskTypeOK'
  BY <1>1, <1>8, <1>9, <1>10, <1>11, <1>12, <1>13, <1>14, <1>15 DEF Giver, UcosInv, TaskTypeOK, UcosLabel
<1>19. PrioInv'
  <2>1. ASSUME NEW p \in Prio, OSTCBPrioTbl'[p] \in Task
        PROVE  /\ Live(OSTCBPrioTbl[p])' /\ OSTCBPrioTbl'[p] = OSTCBPrioTbl[p] /\ p # Pip[m]
    BY <1>10, <1>16, <2>1, NoTaskFacts DEF UcosInv, PrioInv, Live
  <2>2. ASSUME NEW p \in Prio, NEW k \in Task, OSTCBPrioTbl'[p] = k
        PROVE  \/ p = OSTCBPrio'[k]
               \/ \E n \in Mutex : OSEventOwner'[n] = k /\ Raised(n)' /\ p = OSEventCnt'[n]
    <3>1. OSTCBPrioTbl[p] = k /\ p # Pip[m]
      BY <2>1, <2>2
    <3>2. CASE k = t
      BY <1>1, <1>10, <3>1, <3>2 DEF Giver, UcosInv, PrioInv
    <3>3. CASE k # t
      BY <1>1, <1>10, <1>15, <1>17, <3>1, <3>3 DEF Giver, UcosInv, PrioInv
    <3>. QED BY <3>2, <3>3
  <2>3. ASSUME NEW n \in Mutex
        PROVE  OSTCBPrioTbl'[Pip[n]] = IF Raised(n)' THEN OSEventOwner'[n] ELSE Reserved
    <3>1. CASE n = m
      BY <1>10, <1>17, <3>1
    <3>2. CASE n # m
      <4>1. Pip[n] \in Prio /\ Pip[n] # Pip[m]
        BY <1>1, <3>2, UcosAssumption DEF Giver
      <4>. QED BY <1>10, <1>15, <1>17, <3>2, <4>1 DEF UcosInv, PrioInv
    <3>. QED BY <3>1, <3>2
  <2>4. /\ Live(Idle)' /\ OSTCBPrio'[Idle] = Lowest /\ OSTCBStat'[Idle] = {} /\ OSTCBDly'[Idle] = 0
        /\ pc'[Idle] = "app"
    BY <1>1, <1>4, <1>9, <1>13, <1>14, <1>16, NoTaskFacts DEF Giver, UcosInv, TaskTypeOK, PrioInv
  <2>. QED BY <2>1, <2>2, <2>3, <2>4 DEF PrioInv, Live
<1>20. ReadyInv'
  <2>1. ASSUME NEW p \in OSRdyTbl'
        PROVE  OSTCBPrioTbl'[p] \in Task /\ OSTCBPrio'[OSTCBPrioTbl'[p]] = p
    <3>1. CASE p = OSEventCnt[m]
      BY <1>1, <1>10, <3>1 DEF Giver
    <3>2. CASE p = q
      BY <1>2, <1>3, <1>4, <1>10, <3>2 DEF u
    <3>3. CASE p \in OSRdyTbl \ {OSTCBPrio[t]}
      <4>1. PICK k \in Task : k = OSTCBPrioTbl[p] /\ OSTCBPrio[k] = p /\ k # t /\ p \in Prio
        BY <3>3 DEF UcosInv, TaskTypeOK, ReadyInv
      <4>2. p # Pip[m]
        BY <1>1, <4>1, NoTaskFacts DEF Giver, UcosInv, PrioInv
      <4>. QED BY <1>10, <4>1, <4>2
    <3>. QED BY <1>11, <3>1, <3>2, <3>3
  <2>2. ASSUME NEW v \in Task, Live(v)
        PROVE  OSTCBPrio'[v] \in OSRdyTbl' <=> OSTCBStat'[v] = {} /\ OSTCBDly'[v] = 0
    <3>1. CASE v = t
      BY <1>1, <1>4, <1>10, <1>11, <1>13, <1>14, <3>1 DEF Giver
    <3>2. CASE v = u
      BY <1>3, <1>4, <1>11, <1>13, <1>14, <1>16, <3>2
    <3>3. CASE v # t /\ v # u
      BY <1>11, <1>13, <1>14, <1>16, <2>2, <3>3 DEF UcosInv, ReadyInv
    <3>. QED BY <3>1, <3>2, <3>3
  <2>. QED BY <1>16, <2>1, <2>2 DEF ReadyInv
<1>21. CurInv'
  BY <1>1, <1>4, <1>8, <1>9, <1>10, <1>13, <1>14, <1>16, <1>17
  DEF Giver, UcosInv, TaskTypeOK, CurInv, StandsForCur, InPend, Raised
<1>22. DeleteInv'
  BY <1>16 DEF DeleteInv
<1>23. CreateInv'
  BY <1>8, <1>10, <1>16, NoTaskFacts DEF UcosInv, TaskTypeOK, CreateInv
<1>24. PendInv'
  BY <1>3, <1>4, <1>8, <1>13, <1>14, <1>16 DEF UcosInv, PendInv
<1>25. WaitInv'
  <2>1. ASSUME NEW v \in Task, NEW e \in Event
        PROVE  WaitsFor(v, e)' <=> (WaitsFor(v, e) /\ v # u)
    <3>1. CASE v = u
      BY <1>8, <1>13, <1>14, <3>1 DEF WaitsFor
    <3>2. CASE v # u
      BY <1>8, <1>13, <1>14, <1>16, <3>2 DEF WaitsFor
    <3>. QED BY <3>1, <3>2
  <2>2. ASSUME NEW e \in Event, NEW p \in OSEventTbl'[e]
        PROVE  /\ p \in OSEventTbl[e] /\ p \in Prio /\ p # Pip[m] /\ OSTCBPrioTbl[p] \in Task \ {t}
               /\ OSTCBPrio[OSTCBPrioTbl[p]] = p
    <3>1. p \in OSEventTbl[e] /\ p \in Prio
      BY <1>1, <1>12 DEF Giver
    <3>2. OSTCBPrioTbl[p] \in Task \ {t} /\ OSTCBPrio[OSTCBPrioTbl[p]] = p
      BY <1>1, <3>1 DEF Giver, UcosInv, WaitInv
    <3>3. p # Pip[m]
      BY <1>1, <3>2, NoTaskFacts DEF Giver, UcosInv, PrioInv
    <3>. QED BY <3>1, <3>2, <3>3
  <2>3. ASSUME NEW e \in Event, NEW v \in Task, Live(v)
        PROVE  OSTCBPrio'[v] \in OSEventTbl'[e] <=> WaitsFor(v, e)'
    <3>1. CASE v = t
      <4>1. OSTCBPrio'[t] \notin OSEventTbl'[e]
        BY <1>1, <1>10, <1>12 DEF Giver
      <4>2. ~WaitsFor(t, e)
        BY <1>1 DEF Giver, WaitsFor, InPend
      <4>. QED BY <2>1, <3>1, <4>1, <4>2
    <3>2. CASE v = u
      <4>1. OSTCBPrio'[u] = q /\ q \notin OSEventTbl'[m]
        BY <1>3, <1>4, <1>12, <1>16
      <4>2. e # m => OSEventTbl'[e] = OSEventTbl[e] /\ ~WaitsFor(u, e)
        BY <1>4, <1>12 DEF WaitsFor
      <4>3. e # m => q \notin OSEventTbl[e]
        BY <1>3, <4>2 DEF UcosInv, WaitInv
      <4>. QED BY <2>1, <3>2, <4>1, <4>2, <4>3
    <3>3. CASE v # t /\ v # u
      BY <1>1, <1>12, <1>16, <2>1, <2>3, <3>3 DEF Giver, UcosInv, WaitInv
    <3>. QED BY <3>1, <3>2, <3>3
  <2>4. ASSUME NEW e \in Event, NEW p \in OSEventTbl'[e]
        PROVE  OSTCBPrioTbl'[p] \in Task /\ OSTCBPrio'[OSTCBPrioTbl'[p]] = p
    BY <1>10, <2>2
  <2>. QED BY <1>16, <2>3, <2>4 DEF WaitInv
<1>26. MutexInv'
  <2>1. ASSUME NEW n \in Mutex, NEW v \in Task \ {Idle},
               Live(v), n \in Pends[v], OSEventOwner'[n] # v
        PROVE  Pip[n] < OSTCBPrio'[v]
    <3>1. CASE v = t
      BY <1>1, <1>10, <2>1, <3>1 DEF Giver
    <3>2. CASE v # t
      BY <1>1, <1>15, <1>16, <2>1, <3>2 DEF Giver, UcosInv, MutexInv
    <3>. QED BY <3>1, <3>2
  <2>2. \A p \in OSEventTbl'[m] : q < p
    BY <1>1, <1>2, <1>12 DEF Giver, UcosInv, TaskTypeOK, Prio
  <2>3. ASSUME NEW n \in Mutex, NEW k \in Task, OSEventOwner'[n] = k
        PROVE  /\ k # Idle /\ n \in Pends[k] /\ Live(k)
               /\ OSTCBStat'[k] = {} /\ OSTCBDly'[k] = 0
               /\ InPend(k) => OSTCBStatPend'[k] = "OK"
               /\ OSEventCnt'[n] \in Prio /\ Pip[n] < OSEventCnt'[n]
               /\ OSTCBPrioTbl'[OSEventCnt'[n]] = k
               /\ OSTCBPrio'[k] \in {OSEventCnt'[n], Pip[n]}
               /\ \A p \in OSEventTbl'[n] : OSTCBPrio'[k] < p
               /\ Raised(n)' => \E p \in OSEventTbl'[n] : p < OSEventCnt'[n]
    <3>1. CASE n = m
      <4>1. k = u /\ OSTCBPrio'[u] = q /\ OSTCBPrioTbl'[q] = u
        BY <1>2, <1>3, <1>4, <1>10, <1>15, <1>16, <2>3, <3>1 DEF u
      <4>. QED BY <1>2, <1>3, <1>4, <1>13, <1>14, <1>15, <1>17, <2>2, <3>1, <4>1
    <3>2. CASE n # m
      <4>1. /\ k # t /\ k # u /\ k # NoTask /\ OSEventOwner[n] = k /\ OSEventCnt'[n] = OSEventCnt[n]
            /\ n \in Event /\ OSEventTbl'[n] = OSEventTbl[n]
        BY <1>1, <1>5, <1>12, <1>15, <2>3, <3>2, NoTaskFacts, KindFacts DEF Giver
      <4>2. OSEventCnt[n] \in Prio /\ OSTCBPrioTbl[OSEventCnt[n]] = k
        BY <4>1 DEF UcosInv, MutexInv
      <4>3. OSEventCnt[n] # Pip[m]
        BY <1>1, <4>1, <4>2, NoTaskFacts DEF Giver, UcosInv, PrioInv
      <4>4. OSTCBPrio'[k] = OSTCBPrio[k] /\ OSTCBPrioTbl'[OSEventCnt[n]] = k
        BY <1>10, <1>16, <4>1, <4>2, <4>3
      <4>. QED BY <1>13, <1>14, <1>17, <3>2, <4>1, <4>2, <4>4, SMTT(30)
                DEF UcosInv, MutexInv
    <3>. QED BY <3>1, <3>2
  <2>4. ASSUME NEW n \in Mutex, OSEventOwner'[n] = NoTask
        PROVE  OSEventCnt'[n] = Available /\ OSEventTbl'[n] = {}
    BY <1>3, <1>12, <1>15, <2>4, KindFacts, NoTaskFacts DEF UcosInv, MutexInv
  <2>5. \A n \in Mutex : OSEventOwner'[n] # NoTask => OSEventOwner'[n] \in Task
    BY <1>15
  <2>6. \A n \in Mutex : OSEventOwner'[n] # NoTask => (InPend(OSEventOwner[n])' <=> InPend(OSEventOwner'[n]))
    BY <1>16, <2>5 DEF InPend
  <2>. QED BY <1>16, <2>1, <2>3, <2>4, <2>5, <2>6 DEF MutexInv
<1>27. HighestReadyRuns'
  BY <1>1, <1>8, <1>9 DEF Giver, HighestReadyRuns, UcosInv, TaskTypeOK
<1>. QED BY <1>18, <1>19, <1>20, <1>21, <1>22, <1>23, <1>24, <1>25, <1>26, <1>27 DEF UcosInv

\* The holder is urgent enough already.
LEMMA NoInheritStep ==
    ASSUME UcosInv, Discipline, NEW t \in Task, InApp(t), MayBlock(t),
           NEW m \in Mutex \cap Pends[t], WaitForMutex(t, m), ~Inherits(m, t)
    PROVE  UcosInv'
<1>1. PICK h \in Task : h = OSEventOwner[m]
  BY DEF WaitForMutex, UcosInv, TaskTypeOK, MutexInv
<1>2. /\ t = OSTCBCur /\ Live(t) /\ t # Idle /\ t # h
      /\ \A u \in Task : pc[u] # "delete"
  BY <1>1, CurInApp DEF InApp, Running, MayBlock, Holds, Discipline
<1>3. /\ Live(h) /\ OSTCBStat[h] = {} /\ OSTCBDly[h] = 0
      /\ InPend(h) => OSTCBStatPend[h] = "OK"
      /\ Pip[m] < OSEventCnt[m] /\ OSTCBPrio[h] \in {OSEventCnt[m], Pip[m]}
      /\ Pip[m] < OSTCBPrio[t]
  BY <1>1, <1>2, NoTaskFacts DEF UcosInv, MutexInv
<1>4. OSTCBPrio[h] \in Prio /\ OSTCBPrio[t] \in Prio /\ Pip[m] \in Prio /\ OSEventCnt[m] \in Nat
  BY UcosAssumption, KindFacts DEF UcosInv, TaskTypeOK
<1>5. OSTCBPrio[h] # OSTCBPrio[t]
  BY <1>2, <1>3 DEF Live
<1>6. OSTCBPrio[h] < OSTCBPrio[t]
  BY <1>1, <1>3, <1>4, <1>5 DEF Inherits, Prio
<1>7. PICK timeout \in Nat :
        /\ OSTCBPrio' = [OSTCBPrio EXCEPT ![h] = OSTCBPrio[h]]
        /\ OSTCBPrioTbl' = [OSTCBPrioTbl EXCEPT ![OSTCBPrio[h]] = h]
        /\ OS_EventTaskWait(t, m, timeout, RaisedReady(h, OSTCBPrio[h]), RaisedWaiting(h, OSTCBPrio[h]))
        /\ UNCHANGED <<schedVars, nestVars, OSEventOwner, arg, OSEventCnt, credit>>
  BY <1>1, UcosEventAssumption DEF WaitForMutex
<1>8. UNCHANGED prioVars
  BY <1>3, <1>4, <1>7 DEF prioVars, Live, UcosInv, TaskTypeOK
<1>9. RaisedReady(h, OSTCBPrio[h]) = OSRdyTbl
  BY DEF RaisedReady
<1>10. RaisedWaiting(h, OSTCBPrio[h]) = OSEventTbl
  <2>1. OSTCBPrio[h] \in OSRdyTbl
    BY <1>2, <1>3 DEF UcosInv, ReadyInv, Doomed
  <2>. QED BY <2>1 DEF RaisedWaiting, UcosInv, TaskTypeOK
<1>11. OS_EventTaskWait(t, m, timeout, OSRdyTbl, OSEventTbl)
  BY <1>7, <1>9, <1>10 DEF OS_EventTaskWait
<1>12. OSEventOwner[m] # NoTask /\ OSTCBPrio[OSEventOwner[m]] < OSTCBPrio[t]
  BY <1>1, <1>6, NoTaskFacts
<1>. QED BY <1>7, <1>8, <1>11, <1>12, WaitStep

LEMMA TickStep ==
    ASSUME UcosInv, Tick
    PROVE  UcosInv' /\ (OSLockNesting > 0 => OSTCBCur' = OSTCBCur)
<1> DEFINE ready == OSRdyTbl \cup {OSTCBPrio[t] : t \in {u \in Due : Wakeable(u)}}
<1>1. \A t \in Due : t \in Task /\ Live(t) /\ OSTCBDly[t] = 1
  BY CreatedIsLive DEF Due
<1>2. \A t \in Task : /\ Live(t) /\ OSTCBDly[t] = 1 => t \in Due
  BY DEF Due, Created, Live, UcosInv, TaskTypeOK
<1>3. ready \in SUBSET Prio
  BY <1>1 DEF UcosInv, TaskTypeOK
<1>4. \A p \in ready : OSTCBPrioTbl[p] \in Task /\ OSTCBPrio[OSTCBPrioTbl[p]] = p
  BY <1>1 DEF UcosInv, ReadyInv, Live
<1>5. \A t \in Task : Live(t) =>
          (OSTCBPrio[t] \in ready <=> OSTCBPrio[t] \in OSRdyTbl \/ (t \in Due /\ Wakeable(t)))
  BY <1>1 DEF Live
<1>6. /\ Min(ready) \in Prio /\ OSTCBPrioTbl[Min(ready)] \in Task
      /\ OSTCBPrio[OSTCBPrioTbl[Min(ready)]] = Min(ready)
  BY <1>3, <1>4, IdleIsReady, LeastPrio
<1>. HIDE DEF ready
<1>7. /\ OSTCBDly' = [t \in Task |-> IF OSTCBDly[t] > 0 THEN OSTCBDly[t] - 1 ELSE 0]
      /\ OSTCBStat' = [t \in Task |-> IF t \in Due THEN OSTCBStat[t] \ PendAny ELSE OSTCBStat[t]]
      /\ OSTCBStatPend' = [t \in Task |-> IF t \in Due THEN TimedOut(t) ELSE OSTCBStatPend[t]]
      /\ OSRdyTbl' = ready
      /\ OSIntExit(ready)
      /\ UNCHANGED <<OSLockNesting, prioVars, eventVars, pc, arg, OSEventCnt, credit>>
  BY DEF Tick, time_handler, ready
<1>8. /\ OSIntNesting' = 0 /\ OSTCBHighRdy' = OSTCBCur' /\ OSPrioHighRdy' = OSPrioCur'
      /\ OSLockNesting > 0 => OSTCBCur' = OSTCBCur /\ OSPrioHighRdy' = OSPrioHighRdy
      /\ OSLockNesting = 0 => /\ OSTCBCur' = OSTCBPrioTbl[Min(ready)]
                              /\ OSPrioCur' = Min(ready)
  BY <1>7 DEF OSIntExit, OS_SchedNew, task_switch, UcosInv, CurInv, TaskTypeOK
<1>9. UNCHANGED <<OSTCBPrioTbl, OSTCBPrio, OSTCBEventPtr, OSEventTbl, OSEventOwner, pc, arg,
                  OSLockNesting, OSEventCnt, credit>>
  BY <1>7 DEF prioVars, eventVars
<1>10. ASSUME NEW t \in Task
       PROVE  /\ Live(t)' <=> Live(t)
              /\ InPend(t)' <=> InPend(t)
              /\ Doomed(t)' <=> Doomed(t)
  <2>1. OSLockNesting = 0 => (\A u \in Task : pc[u] # "delete") /\ OSTCBCur' \in Task /\ OSTCBCur \in Task
    BY <1>6, <1>8 DEF UcosInv, TaskTypeOK, DeleteInv
  <2>. QED BY <1>8, <1>9, <2>1 DEF Live, InPend, Doomed, UcosInv, TaskTypeOK
<1>11. \A m \in Mutex : Raised(m)' <=> Raised(m)
  BY <1>9 DEF Raised
<1>12. ASSUME NEW t \in Task, t \in Due
       PROVE  /\ OSTCBStat'[t] = OSTCBStat[t] \ PendAny /\ OSTCBDly'[t] = 0
              /\ OSTCBStat'[t] \subseteq {"SUSPEND"}
              /\ OSTCBStat'[t] = {} <=> Wakeable(t)
              /\ \A e \in Event : Kind[e] \notin OSTCBStat'[t]
              /\ \A e \in Event : Kind[e] \in OSTCBStat[t] => OSTCBStatPend'[t] = "TO"
              /\ OSTCBStat[t] # {} \/ OSTCBDly[t] # 0
  <2>1. OSTCBStat'[t] = OSTCBStat[t] \ PendAny /\ OSTCBDly'[t] = 0 /\ OSTCBStat[t] \subseteq Status
    BY <1>1, <1>7, <1>12 DEF UcosInv, TaskTypeOK
  <2>2. OSTCBStatPend'[t] = IF OSTCBStat[t] \cap PendAny # {} THEN "TO" ELSE "OK"
    BY <1>7, <1>12 DEF TimedOut
  <2>3. /\ OSTCBStat'[t] \subseteq {"SUSPEND"}
        /\ "SUSPEND" \in OSTCBStat'[t] <=> "SUSPEND" \in OSTCBStat[t]
    BY <2>1 DEF Status, PendAny
  <2>4. OSTCBStat'[t] = {} <=> Wakeable(t)
    BY <2>3 DEF Wakeable
  <2>. QED BY <1>1, <1>12, <2>1, <2>2, <2>3, <2>4, KindFacts
<1>13. ASSUME NEW t \in Task, t \notin Due
       PROVE  /\ OSTCBStat'[t] = OSTCBStat[t] /\ OSTCBStatPend'[t] = OSTCBStatPend[t]
              /\ OSTCBDly[t] = 0 => OSTCBDly'[t] = 0
              /\ Live(t) /\ OSTCBDly[t] # 0 => OSTCBDly'[t] # 0
              /\ OSTCBDly'[t] > 0 => OSTCBDly[t] > 0
  BY <1>2, <1>7, <1>13 DEF UcosInv, TaskTypeOK
<1>14. TaskTypeOK'
  <2>1. OSTCBDly' \in [Task -> Nat] /\ OSTCBStat' \in [Task -> SUBSET Status]
    BY <1>7 DEF UcosInv, TaskTypeOK
  <2>2. OSTCBStatPend' \in [Task -> {"OK", "TO", "ABORT"}]
    BY <1>7 DEF UcosInv, TaskTypeOK, TimedOut
  <2>3. OSTCBCur' \in Task /\ OSPrioCur' \in Prio /\ OSPrioHighRdy' \in Prio
    BY <1>6, <1>8 DEF UcosInv, TaskTypeOK
  <2>. QED BY <1>3, <1>7, <1>8, <1>9, <2>1, <2>2, <2>3 DEF UcosInv, TaskTypeOK
<1>15. PrioInv'
  <2>1. Idle \in Task /\ Idle \notin Due
    BY <1>1, NoTaskFacts DEF UcosInv, PrioInv
  <2>2. OSTCBStat'[Idle] = {} /\ OSTCBDly'[Idle] = 0
    BY <1>13, <2>1 DEF UcosInv, PrioInv
  <2>. QED BY <1>9, <1>11, <2>2 DEF UcosInv, PrioInv, Live
<1>16. ReadyInv'
  <2>1. ASSUME NEW t \in Task, Live(t)
        PROVE  OSTCBPrio[t] \in ready <=> OSTCBStat'[t] = {} /\ OSTCBDly'[t] = 0 /\ ~Doomed(t)
    <3>1. CASE t \in Due
      <4>1. ~Doomed(t)
        BY <1>1, <3>1 DEF UcosInv, TaskTypeOK, DeleteInv, Doomed
      <4>. QED BY <1>5, <1>12, <2>1, <3>1, <4>1 DEF UcosInv, ReadyInv
    <3>2. CASE t \notin Due
      BY <1>5, <1>13, <2>1, <3>2 DEF UcosInv, ReadyInv
    <3>. QED BY <3>1, <3>2
  <2>. QED BY <1>4, <1>7, <1>9, <1>10, <2>1 DEF ReadyInv
<1>17. CurInv'
  <2>1. CASE OSLockNesting = 0
    BY <1>6, <1>8, <1>9, <2>1 DEF CurInv, StandsForCur, Live
  <2>2. CASE OSLockNesting > 0
    <3>1. /\ OSTCBStat[OSTCBCur] = {} /\ OSTCBDly[OSTCBCur] = 0 /\ OSTCBCur \notin Due
          /\ OSTCBCur \in Task
      BY <1>1, <2>2 DEF UcosInv, CurInv, TaskTypeOK
    <3>. QED BY <1>8, <1>9, <1>11, <1>13, <2>2, <3>1
             DEF UcosInv, CurInv, StandsForCur, Live, InPend, Raised
  <2>. QED BY <2>1, <2>2 DEF UcosInv, TaskTypeOK
<1>18. DeleteInv'
  <2>1. ASSUME NEW t \in Task, pc[t] = "delete"
        PROVE  arg[t] \in Task /\ arg[t] \notin Due /\ OSTCBCur' = OSTCBCur
    BY <1>1, <1>8, <2>1 DEF UcosInv, DeleteInv
  <2>. QED BY <1>8, <1>9, <1>13, <2>1 DEF UcosInv, DeleteInv, Live, Holds
<1>19. CreateInv'
  BY <1>9 DEF UcosInv, CreateInv, Live
<1>20. PendInv'
  <2>1. ASSUME NEW t \in Task
        PROVE  /\ "SUSPEND" \in OSTCBStat'[t] => "SUSPEND" \in OSTCBStat[t]
               /\ OSTCBStat'[t] \subseteq OSTCBStat[t]
               /\ OSTCBDly'[t] > 0 => OSTCBDly[t] > 0 /\ OSTCBStat'[t] = OSTCBStat[t]
               /\ \A e \in Event : Kind[e] \in OSTCBStat'[t] =>
                     Kind[e] \in OSTCBStat[t] /\ OSTCBStatPend'[t] = OSTCBStatPend[t]
    <3>1. CASE t \in Due
      BY <1>12, <3>1
    <3>2. CASE t \notin Due
      BY <1>13, <3>2
    <3>. QED BY <3>1, <3>2
  <2>. QED BY <1>9, <1>10, <2>1, KindFacts DEF UcosInv, PendInv
<1>21. WaitInv'
  <2>1. ASSUME NEW t \in Task, NEW e \in Event, Live(t)
        PROVE  WaitsFor(t, e)' <=> WaitsFor(t, e)
    <3>1. CASE t \in Due
      BY <1>1, <1>9, <1>10, <1>12, <2>1, <3>1 DEF UcosInv, PendInv, WaitsFor
    <3>2. CASE t \notin Due
      BY <1>9, <1>10, <1>13, <3>2 DEF WaitsFor
    <3>. QED BY <3>1, <3>2
  <2>. QED BY <1>9, <1>10, <2>1 DEF UcosInv, WaitInv
<1>22. MutexInv'
  <2>1. ASSUME NEW m \in Mutex, OSEventOwner[m] # NoTask
        PROVE  OSEventOwner[m] \in Task /\ OSEventOwner[m] \notin Due
    BY <1>1, <2>1 DEF UcosInv, TaskTypeOK, MutexInv
  <2>. QED BY <1>9, <1>11, <1>13, <2>1 DEF UcosInv, MutexInv, InPend, Live
<1>23. HighestReadyRuns'
  BY <1>6, <1>7, <1>8, <1>9 DEF HighestReadyRuns, HighestReady
<1>. QED BY <1>8, <1>14, <1>15, <1>16, <1>17, <1>18, <1>19, <1>20, <1>21, <1>22, <1>23 DEF UcosInv

-----------------------------------------------------------------------------
(* Every step *)

\* The running task changes in OS_Sched and in the tick only.
CurStays == OSTCBCur' = OSTCBCur

LEMMA CallsTasksStep ==
    ASSUME UcosInv, Discipline, CallsTasks(OSTCBCur)
    PROVE  UcosInv' /\ (OSLockNesting > 0 => CurStays)
<1>0. OSTCBCur \in Task /\ UNCHANGED <<OSEventCnt, credit>>
  BY DEF UcosInv, TaskTypeOK, CallsTasks
<1> DEFINE t == OSTCBCur
<1>1. CASE OS_Sched(t)
  BY <1>0, <1>1, SchedStep DEF CurStays
<1>2. CASE OSSchedLock(t) \/ OSSchedUnlock(t) \/ OSTimeDly(t)
  BY <1>0, <1>2, LockStep, UnlockStep, TimeDlyStep
  DEF CurStays, OSSchedLock, OSSchedUnlock, OSTimeDly, schedVars
<1>3. CASE OSTaskCreate(t) \/ NoMoreTcb(t) \/ FinishDelete(t)
  BY <1>0, <1>3, TaskCreateStep, NoMoreTcbStep, FinishDeleteStep
  DEF CurStays, OSTaskCreate, NoMoreTcb, FinishDelete, schedVars
<1>4. ASSUME NEW d \in Task, OSTimeDlyResume(t, d) \/ OS_TCBInit(t, d)
      PROVE  UcosInv' /\ CurStays
  BY <1>0, <1>4, TimeDlyResumeStep, TCBInitStep DEF CurStays, OSTimeDlyResume, OS_TCBInit, schedVars
<1>5. ASSUME NEW d \in Task, OSTaskSuspend(t, d) \/ OSTaskResume(t, d) \/ OSTaskChangePrio(t, d)
      PROVE  UcosInv' /\ CurStays
  BY <1>0, <1>5, SuspendStep, ResumeStep, ChangePrioStep
  DEF CurStays, OSTaskSuspend, OSTaskResume, OSTaskChangePrio, schedVars
<1>. QED BY <1>1, <1>2, <1>3, <1>4, <1>5 DEF CallsTasks

LEMMA MostUrgentWaits ==
    ASSUME UcosInv, NEW e \in Event
    PROVE  MostUrgent(e) \subseteq Waiters(e)
  BY LeastPrio DEF MostUrgent, Waiters, UcosInv, TaskTypeOK

LEMMA TakeStep ==
    ASSUME UcosInv, NEW e \in Counted, Take(e)
    PROVE  UcosInv' /\ CurStays
<1>1. e \in Event /\ OSEventCnt[e] - 1 \in Nat /\ OSEventCnt[e] \in Nat
  BY DEF Take, Counted, UcosInv, TaskTypeOK
<1>2. credit' \in [Counted -> Int]
  BY DEF Take, UcosInv, TaskTypeOK
<1>. QED BY <1>1, <1>2, CountStep DEF Take, taskVars, nestVars, CurStays, schedVars

LEMMA SetCountStep ==
    ASSUME UcosInv, NEW e \in Counted, NEW n \in Nat, SetCount(e, n)
    PROVE  UcosInv' /\ CurStays
<1>1. credit' \in [Counted -> Int]
  BY DEF SetCount, UcosInv, TaskTypeOK, Counted
<1>. QED BY <1>1, CountStep DEF SetCount, taskVars, nestVars, CurStays, schedVars

LEMMA PendStep ==
    ASSUME UcosInv, Discipline, NEW e \in Counted, Pend(OSTCBCur, e)
    PROVE  UcosInv' /\ CurStays
<1>1. OSTCBCur \in Task /\ e \in Event /\ e \notin Mutex
  BY DEF UcosInv, TaskTypeOK, Counted
<1>2. CASE Take(e)
  BY <1>2, TakeStep
<1>3. ASSUME NEW timeout \in Timeouts,
             OS_EventTaskWait(OSTCBCur, e, timeout, OSRdyTbl, OSEventTbl),
             UNCHANGED <<schedVars, nestVars, prioVars, OSEventOwner, arg, OSEventCnt, credit>>
      PROVE  UcosInv' /\ CurStays
  <2>1. timeout \in Nat /\ InApp(OSTCBCur) /\ MayBlock(OSTCBCur) /\ e \in Pends[OSTCBCur]
    BY UcosEventAssumption DEF Pend
  <2>2. UcosInv'
    BY <1>1, <1>3, <2>1, WaitStep
  <2>. QED BY <1>3, <2>2 DEF CurStays, schedVars
<1>. QED BY <1>2, <1>3 DEF Pend

LEMMA AcceptStep ==
    ASSUME UcosInv, NEW e \in Counted, Accept(OSTCBCur, e)
    PROVE  UcosInv' /\ CurStays
  BY TakeStep DEF Accept

LEMMA PostStep ==
    ASSUME UcosInv, NEW e \in Counted, NEW S \in SUBSET Waiters(e), Post(e, S),
           UNCHANGED <<schedVars, OSLockNesting, prioVars, OSTCBEventPtr, OSEventOwner, arg>>,
           \/ /\ InApp(OSTCBCur) /\ UNCHANGED OSIntNesting
              /\ Goto(OSTCBCur, IF S = {} THEN "app" ELSE "sched")
           \/ UNCHANGED pc /\ OSIntNesting' = 1
    PROVE  UcosInv'
<1>1. CASE S # {}
  <2>1. /\ OS_EventTaskRdy(e, S, "OK", OSRdyTbl) /\ OSEventCnt' = OSEventCnt
        /\ credit' = [credit EXCEPT ![e] = @ + Cardinality(S)]
    BY <1>1 DEF Post
  <2>2. credit' \in [Counted -> Int]
    <3>1. S \in SUBSET Task
      BY DEF Counted, Waiters, UcosInv, WaitInv
    <3>2. Cardinality(S) \in Nat
      BY <3>1, UcosAssumption, FS_Subset, FS_CardinalityType
    <3>. QED BY <2>1, <3>2 DEF UcosInv, TaskTypeOK
  <2>3. \/ InApp(OSTCBCur) /\ Goto(OSTCBCur, "sched") /\ UNCHANGED OSIntNesting
        \/ UNCHANGED pc /\ OSIntNesting' = 1
    BY <1>1
  <2>. QED BY <2>1, <2>2, <2>3, EventRdyStep
<1>2. CASE S = {}
  <2>1. /\ OSEventCnt' = [OSEventCnt EXCEPT ![e] = @ + 1]
        /\ credit' = [credit EXCEPT ![e] = @ + 1]
        /\ UNCHANGED <<tcbVars, OSRdyTbl, OSEventTbl>>
    BY <1>2 DEF Post
  <2>2. credit' \in [Counted -> Int] /\ OSEventCnt[e] + 1 \in Nat
    BY <2>1 DEF UcosInv, TaskTypeOK, Counted
  <2>3. UNCHANGED pc /\ OSIntNesting' \in {OSIntNesting, 1}
    BY <1>2 DEF Goto, InApp, UcosInv, TaskTypeOK
  <2>. QED BY <2>1, <2>2, <2>3, CountStep DEF eventVars
<1>. QED BY <1>1, <1>2

LEMMA PostFromTaskStep ==
    ASSUME UcosInv, NEW e \in Counted, NEW S \in SUBSET Waiters(e), PostFromTask(OSTCBCur, e, S)
    PROVE  UcosInv' /\ CurStays
<1>1. UcosInv'
  BY PostStep DEF PostFromTask, nestVars
<1>. QED BY <1>1 DEF PostFromTask, CurStays, schedVars

LEMMA HookStep ==
    ASSUME UcosInv, NEW e \in TickPosts, OSTimeTickHook(e)
    PROVE  UcosInv' /\ CurStays
<1>1. e \in Counted /\ MostUrgent(e) \in SUBSET Waiters(e)
  BY UcosEventAssumption, MostUrgentWaits DEF Counted, Mutex
<1>2. UcosInv'
  BY <1>1, PostStep DEF OSTimeTickHook
<1>. QED BY <1>2 DEF OSTimeTickHook, CurStays, schedVars

LEMMA AbortStep ==
    ASSUME UcosInv, NEW e \in Counted, NEW S \in SUBSET Waiters(e), PendAbort(OSTCBCur, e, S)
    PROVE  UcosInv' /\ CurStays
<1>1. UcosInv'
  BY EventRdyStep DEF PendAbort, nestVars, UcosInv, TaskTypeOK
<1>. QED BY <1>1 DEF PendAbort, CurStays, schedVars

LEMMA MutexCallsStep ==
    ASSUME UcosInv, Discipline, NEW m \in Event,
           OSMutexPend(OSTCBCur, m) \/ OSMutexAccept(OSTCBCur, m) \/ OSMutexPost(OSTCBCur, m)
    PROVE  UcosInv' /\ CurStays
<1>0. OSTCBCur \in Task
  BY DEF UcosInv, TaskTypeOK
<1> DEFINE t == OSTCBCur
<1>1. ASSUME InApp(t), m \in Mutex \cap Pends[t], TakeMutex(t, m)
      PROVE  UcosInv' /\ CurStays
  BY <1>0, <1>1, TakeMutexStep DEF TakeMutex, CurStays, schedVars
<1>2. ASSUME InApp(t), MayBlock(t), m \in Mutex \cap Pends[t], WaitForMutex(t, m)
      PROVE  UcosInv' /\ CurStays
  <2>1. UcosInv'
    BY <1>0, <1>2, InheritStep, NoInheritStep
  <2>. QED BY <1>2, <2>1 DEF WaitForMutex, CurStays, schedVars
<1>3. ASSUME OSMutexPost(t, m)
      PROVE  UcosInv' /\ CurStays
  <2>1. m \in Mutex /\ CurStays
    BY <1>3 DEF OSMutexPost, CurStays
  <2>. QED BY <1>0, <1>3, <2>1, GiveStep, HandOverStep
<1>. QED BY <1>1, <1>2, <1>3 DEF OSMutexPend, OSMutexAccept

LEMMA CallsEventStep ==
    ASSUME UcosInv, Discipline, NEW e \in Event, CallsEvent(OSTCBCur, e)
    PROVE  UcosInv' /\ CurStays
<1> DEFINE t == OSTCBCur
<1>0. Kind[e] \in {"SEM", "MBOX", "Q"} => e \in Counted
  BY DEF Counted, Mutex
<1>1. /\ MostUrgent(e) \in SUBSET Waiters(e) /\ Waiters(e) \in SUBSET Waiters(e)
  BY MostUrgentWaits
<1>2. ASSUME e \in Counted, Pend(t, e) \/ Accept(t, e)
      PROVE  UcosInv' /\ CurStays
  BY <1>2, PendStep, AcceptStep
<1>3. ASSUME e \in Counted, PostFromTask(t, e, MostUrgent(e)) \/ PostFromTask(t, e, Waiters(e))
      PROVE  UcosInv' /\ CurStays
  BY <1>1, <1>3, PostFromTaskStep
<1>4. ASSUME e \in Counted, \E S \in {MostUrgent(e), Waiters(e)} : PendAbort(t, e, S)
      PROVE  UcosInv' /\ CurStays
  BY <1>1, <1>4, AbortStep
<1>5. ASSUME e \in Counted, \E n \in Counts \cup {0} : SetCount(e, n)
      PROVE  UcosInv' /\ CurStays
  BY <1>5, SetCountStep, UcosEventAssumption
<1>6. CASE OSSemPend(t, e) \/ OSSemAccept(t, e) \/ OSSemPost(t, e) \/ OSSemPendAbort(t, e) \/ OSSemSet(t, e)
  BY <1>0, <1>2, <1>3, <1>4, <1>5, <1>6
  DEF OSSemPend, OSSemAccept, OSSemPost, OSSemPendAbort, OSSemSet
<1>7. CASE \/ OSMboxPend(t, e) \/ OSMboxAccept(t, e) \/ OSMboxPost(t, e)
           \/ OSMboxPostOpt(t, e) \/ OSMboxPendAbort(t, e)
  BY <1>0, <1>2, <1>3, <1>4, <1>7
  DEF OSMboxPend, OSMboxAccept, OSMboxPost, OSMboxPostOpt, OSMboxPendAbort
<1>8. CASE \/ OSQPend(t, e) \/ OSQAccept(t, e) \/ OSQPost(t, e)
           \/ OSQPostOpt(t, e) \/ OSQPendAbort(t, e) \/ OSQFlush(t, e)
  BY <1>0, <1>2, <1>3, <1>4, <1>5, <1>8
  DEF OSQPend, OSQAccept, OSQPost, OSQPostOpt, OSQPendAbort, OSQFlush
<1>9. CASE OSMutexPend(t, e) \/ OSMutexAccept(t, e) \/ OSMutexPost(t, e)
  BY <1>9, MutexCallsStep
<1>. QED BY <1>6, <1>7, <1>8, <1>9 DEF CallsEvent

LEMMA UcosStep ==
    ASSUME UcosInv, Discipline, [UcosNext]_ucosVars
    PROVE  UcosInv' /\ (OSLockNesting > 0 => CurStays)
<1>0. OSTCBCur \in Task
  BY DEF UcosInv, TaskTypeOK
<1>1. CASE Tick
  BY <1>1, TickStep DEF CurStays
<1>2. CASE \E e \in TickPosts : OSTimeTickHook(e)
  BY <1>2, HookStep
<1>3. CASE CallsTasks(OSTCBCur)
  BY <1>3, CallsTasksStep
<1>4. CASE FinishPend(OSTCBCur)
  BY <1>0, <1>4, FinishPendStep DEF FinishPend, CurStays, schedVars
<1>5. CASE \E d \in Task : DeleteTask(OSTCBCur, d)
  BY <1>0, <1>5, DeleteStep DEF DeleteTask, OSTaskDel, CurStays, schedVars
<1>6. CASE \E e \in Event : CallsEvent(OSTCBCur, e)
  BY <1>6, CallsEventStep
<1>7. CASE UNCHANGED ucosVars
  BY <1>7
  DEF ucosVars, taskVars, schedVars, nestVars, prioVars, tcbVars, eventVars, CurStays,
      UcosInv, TaskTypeOK, PrioInv, ReadyInv, CurInv, DeleteInv, CreateInv, PendInv, WaitInv,
      MutexInv, HighestReadyRuns, HighestReady, StandsForCur, WaitsFor, Raised, Live, Doomed, InPend,
      Holds
<1>. QED BY <1>1, <1>2, <1>3, <1>4, <1>5, <1>6, <1>7 DEF UcosNext
-----------------------------------------------------------------------------
(* The initial states *)

\* The control block that a priority leads to at the start
LEMMA PrioTblAtStart ==
    ASSUME OSStart
    PROVE  /\ \A t \in Task : FirstPrio[t] # NoTask =>
                 FirstPrio[t] \in Prio /\ OSTCBPrioTbl[FirstPrio[t]] = t
           /\ \A p \in Prio : \/ OSTCBPrioTbl[p] \in Task /\ FirstPrio[OSTCBPrioTbl[p]] = p
                              \/ /\ OSTCBPrioTbl[p] \in {NoTask, Reserved}
                                 /\ \A t \in Task : FirstPrio[t] # p
           /\ \A m \in Mutex : OSTCBPrioTbl[Pip[m]] = Reserved
<1>1. \A p \in Prio : OSTCBPrioTbl[p] =
         IF \E t \in Task : FirstPrio[t] = p
         THEN CHOOSE t \in Task : FirstPrio[t] = p
         ELSE IF \E m \in Mutex : Pip[m] = p THEN Reserved ELSE NoTask
  BY DEF OSStart
<1>2. ASSUME NEW p \in Prio, \E t \in Task : FirstPrio[t] = p
      PROVE  OSTCBPrioTbl[p] \in Task /\ FirstPrio[OSTCBPrioTbl[p]] = p
  BY <1>1, <1>2
<1>3. ASSUME NEW p \in Prio, ~\E t \in Task : FirstPrio[t] = p
      PROVE  /\ OSTCBPrioTbl[p] \in {NoTask, Reserved}
             /\ (\E m \in Mutex : Pip[m] = p) => OSTCBPrioTbl[p] = Reserved
  BY <1>1, <1>3
<1>4. \A t \in Task : FirstPrio[t] # NoTask => FirstPrio[t] \in Prio
  BY UcosAssumption
<1>5. \A m \in Mutex : Pip[m] \in Prio /\ ~\E t \in Task : FirstPrio[t] = Pip[m]
  BY UcosAssumption
<1>6. ASSUME NEW t \in Task, FirstPrio[t] # NoTask
      PROVE  OSTCBPrioTbl[FirstPrio[t]] = t
  <2>1. /\ OSTCBPrioTbl[FirstPrio[t]] \in Task
        /\ FirstPrio[OSTCBPrioTbl[FirstPrio[t]]] = FirstPrio[t]
    BY <1>2, <1>4, <1>6
  <2>. QED BY <2>1, <1>6, UcosAssumption
<1>. QED BY <1>2, <1>3, <1>4, <1>5, <1>6

LEMMA UcosInitially ==
    ASSUME UcosInit, Discipline
    PROVE  UcosInv
<1>. USE DEF UcosInit, OSStart
<1>0. /\ FirstPrio[Idle] = Lowest /\ Idle \in Task /\ Lowest \in Prio /\ Lowest # NoTask
      /\ \A t \in Task : FirstPrio[t] \in Prio \cup {NoTask}
      /\ \A m \in Mutex : Pip[m] \in Prio /\ m \in Event
  BY UcosAssumption DEF Prio, Mutex
<1>1. /\ OSRdyTbl \in SUBSET Prio /\ Lowest \in OSRdyTbl /\ First = Min(OSRdyTbl)
      /\ \A p \in OSRdyTbl : \E t \in Task : FirstPrio[t] = p /\ p # NoTask
  BY <1>0 DEF First
<1>2. First \in OSRdyTbl /\ First \in Prio
  BY <1>1, LeastPrio
<1>3. /\ \A t \in Task : FirstPrio[t] # NoTask => OSTCBPrioTbl[FirstPrio[t]] = t
      /\ \A p \in Prio : \/ OSTCBPrioTbl[p] \in Task /\ FirstPrio[OSTCBPrioTbl[p]] = p
                         \/ /\ OSTCBPrioTbl[p] \in {NoTask, Reserved}
                            /\ \A t \in Task : FirstPrio[t] # p
      /\ \A m \in Mutex : OSTCBPrioTbl[Pip[m]] = Reserved
  BY PrioTblAtStart
<1>4. \A t \in Task : OSTCBPrio[t] = IF FirstPrio[t] = NoTask THEN Lowest ELSE FirstPrio[t]
  OBVIOUS
<1>5. \A t \in Task : Live(t) <=> FirstPrio[t] # NoTask
  BY <1>0, <1>3, <1>4 DEF Live
<1>6. OSTCBCur \in Task /\ FirstPrio[OSTCBCur] = First /\ Live(OSTCBCur)
  BY <1>1, <1>2, <1>3, <1>5
<1>7. TaskTypeOK
  <2>1. OSTCBPrioTbl \in [Prio -> Task \cup {NoTask, Reserved}]
    BY <1>3
  <2>2. OSTCBPrio \in [Task -> Prio]
    BY <1>0
  <2>3. OSEventCnt \in [Event -> Nat] /\ credit \in [Counted -> Int]
    BY NoTaskFacts DEF Available
  <2>. QED BY <1>1, <1>2, <1>6, <2>1, <2>2, <2>3 DEF TaskTypeOK, UcosLabel
<1>8. PrioInv
  <2>1. ASSUME NEW p \in Prio, OSTCBPrioTbl[p] \in Task
        PROVE  Live(OSTCBPrioTbl[p]) /\ p = OSTCBPrio[OSTCBPrioTbl[p]]
    BY <1>3, <1>4, <1>5, <2>1, NoTaskFacts
  <2>2. \A m \in Mutex : ~Raised(m)
    BY DEF Raised
  <2>. QED BY <1>0, <1>3, <1>4, <1>5, <2>1, <2>2 DEF PrioInv
<1>9. ReadyInv
  <2>1. \A t \in Task : ~Doomed(t)
    BY <1>6 DEF Doomed
  <2>2. \A t \in Task : Live(t) => OSTCBPrio[t] \in OSRdyTbl
    BY <1>4, <1>5
  <2>. QED BY <1>1, <1>3, <1>4, <2>1, <2>2 DEF ReadyInv
<1>10. CurInv
  BY <1>2, <1>4, <1>6, NoTaskFacts DEF CurInv, StandsForCur, InPend
<1>11. DeleteInv /\ CreateInv
  BY DEF DeleteInv, CreateInv
<1>12. PendInv
  BY DEF PendInv, InPend
<1>13. WaitInv
  BY DEF WaitInv, WaitsFor, InPend
<1>14. MutexInv
  <2>1. ASSUME NEW m \in Mutex, NEW t \in Task \ {Idle}, Live(t), m \in Pends[t]
        PROVE  Pip[m] < OSTCBPrio[t]
    BY <1>4, <1>5, <2>1 DEF Discipline
  <2>. QED BY <1>0, <2>1 DEF MutexInv
<1>15. HighestReadyRuns
  <2>1. OSTCBPrio[OSTCBCur] = First
    BY <1>2, <1>4, <1>6, NoTaskFacts
  <2>. QED BY <1>1, <2>1 DEF HighestReadyRuns, HighestReady
<1>. QED BY <1>7, <1>8, <1>9, <1>10, <1>11, <1>12, <1>13, <1>14, <1>15 DEF UcosInv

-----------------------------------------------------------------------------
(* The theorems *)

\* The invariant holds throughout, and with the scheduler locked the running
\* task stays.
LEMMA UcosInvariant ==
    ASSUME Discipline
    PROVE  UcosSpec => []UcosInv
<1>1. UcosInit => UcosInv
  BY UcosInitially
<1>2. UcosInv /\ [UcosNext]_ucosVars => UcosInv'
  BY UcosStep
<1>. QED BY <1>1, <1>2, PTL DEF UcosSpec

\* In every state that UcosInv allows a created task is one that is live.
LEMMA CreatedIffLive ==
    ASSUME UcosInv, NEW t \in Task
    PROVE  t \in Created <=> Live(t)
<1>1. Live(t) => t \in Created
  BY DEF UcosInv, TaskTypeOK, Live, Created
<1>. QED BY <1>1, CreatedIsLive

\* The ready table and the table of priorities agree with the control blocks,
\* while tasks are created, deleted, suspended, delayed and change priority.
THEOREM TablesAlwaysAgree ==
    ASSUME Discipline
    PROVE  UcosSpec => []TablesAgree
<1>1. ASSUME UcosInv
      PROVE  TablesAgree
  <2>. USE <1>1 DEF UcosInv
  <2>0. TaskTypeOK /\ ReadyInv /\ DeleteInv /\ CurInv
    OBVIOUS
  <2>1. \A t \in Task : t \in Created <=> Live(t)
    BY CreatedIffLive
  <2>2. Created \subseteq Task
    BY DEF Created
  <2>3. ASSUME NEW p \in OSRdyTbl
        PROVE  /\ \E u \in Created : /\ OSTCBStat[u] = {} /\ OSTCBDly[u] = 0
                                     /\ OSTCBPrio[u] = p
               /\ \A t \in Task : pc[t] = "delete" => p # OSTCBPrio[arg[t]]
    <3>1. PICK u \in Task : OSTCBPrioTbl[p] = u /\ OSTCBPrio[u] = p
      BY <2>0 DEF ReadyInv
    <3>2. Live(u) /\ u \in Created
      BY <2>1, <3>1 DEF Live
    <3>3. OSTCBStat[u] = {} /\ OSTCBDly[u] = 0 /\ ~Doomed(u)
      BY <2>0, <3>1, <3>2 DEF ReadyInv
    <3>4. ASSUME NEW t \in Task, pc[t] = "delete"
          PROVE  p # OSTCBPrio[arg[t]]
      BY <2>0, <3>1, <3>3, <3>4 DEF DeleteInv, Doomed, Live
    <3>. QED BY <3>1, <3>2, <3>3, <3>4
  <2>4. ASSUME NEW u \in Created, OSTCBStat[u] = {}, OSTCBDly[u] = 0,
               \A t \in Task : pc[t] = "delete" => OSTCBPrio[u] # OSTCBPrio[arg[t]]
        PROVE  OSTCBPrio[u] \in OSRdyTbl
    BY <2>0, <2>1, <2>2, <2>4 DEF ReadyInv, Doomed, TaskTypeOK
  <2>5. OSRdyTbl = {OSTCBPrio[t] : t \in {u \in Created : OSTCBStat[u] = {} /\ OSTCBDly[u] = 0}}
                      \ {OSTCBPrio[arg[t]] : t \in {u \in Task : pc[u] = "delete"}}
    BY <2>3, <2>4
  <2>6. \A t \in Created : OSTCBPrioTbl[OSTCBPrio[t]] = t
    BY <2>1, <2>2 DEF Live
  <2>. QED BY <2>0, <2>5, <2>6 DEF TablesAgree, TaskTypeOK, CurInv
<1>. QED BY <1>1, UcosInvariant, PTL

\* The most urgent ready task runs whenever the scheduler is not locked: no
\* service that readies a more urgent task forgets OS_Sched.
THEOREM HighestReadyAlwaysRuns ==
    ASSUME Discipline
    PROVE  UcosSpec => []HighestReadyRuns
<1>1. UcosInv => HighestReadyRuns
  BY DEF UcosInv
<1>. QED BY <1>1, UcosInvariant, PTL

\* OSSchedLock keeps the running task, through ticks and through the deletion
\* of a task.
THEOREM LockedSchedulerAlwaysStays ==
    ASSUME Discipline
    PROVE  UcosSpec => LockedSchedulerStays
<1>1. UcosInv /\ [UcosNext]_ucosVars => [OSLockNesting > 0 => OSTCBCur' = OSTCBCur]_taskVars
  BY UcosStep DEF CurStays
<1>. QED BY <1>1, UcosInvariant, PTL DEF UcosSpec, LockedSchedulerStays

\* A wait list is exactly the set of priorities of the tasks that wait, however
\* posts, aborts, timeouts, priority changes and deletions follow each other.
THEOREM WaitListsAreAlwaysExact ==
    ASSUME Discipline
    PROVE  UcosSpec => []WaitListsAreExact
<1>1. ASSUME UcosInv
      PROVE  WaitListsAreExact
  <2>. USE <1>1 DEF UcosInv
  <2>1. \A t \in Task : t \in Created <=> Live(t)
    BY CreatedIffLive
  <2>2. Created \subseteq Task
    BY DEF Created
  <2>3. ASSUME NEW e \in Event
        PROVE  OSEventTbl[e] = {OSTCBPrio[t] : t \in {u \in Created :
                 /\ OSTCBEventPtr[u] = e /\ pc[u] \in {"pend", "wake"}
                 /\ Kind[e] \in OSTCBStat[u] \/ OSTCBStatPend[u] = "TO"}}
    <3>1. \A u \in Created : OSTCBPrio[u] \in OSEventTbl[e] <=>
             /\ OSTCBEventPtr[u] = e /\ pc[u] \in {"pend", "wake"}
             /\ Kind[e] \in OSTCBStat[u] \/ OSTCBStatPend[u] = "TO"
      BY <2>1, <2>2 DEF WaitInv, WaitsFor, InPend
    <3>2. ASSUME NEW p \in OSEventTbl[e]
          PROVE  \E u \in Created : OSTCBPrio[u] = p
      BY <2>1 DEF WaitInv, Live
    <3>. QED BY <3>1, <3>2
  <2>. QED BY <2>3 DEF WaitListsAreExact
<1>. QED BY <1>1, UcosInvariant, PTL

\* Priority inheritance: the holder of a mutex is as urgent as every task that
\* waits for it, and nobody else ever has the priority of the mutex.
THEOREM HolderIsAlwaysAsUrgent ==
    ASSUME Discipline
    PROVE  UcosSpec => []HolderIsAsUrgent
<1>1. ASSUME UcosInv
      PROVE  HolderIsAsUrgent
  <2>. USE <1>1 DEF UcosInv
  <2>1. \A t \in Task : t \in Created <=> Live(t)
    BY CreatedIffLive
  <2>2. Created \subseteq Task
    BY DEF Created
  <2>3. ASSUME NEW m \in Mutex
        PROVE  OSEventOwner[m] = NoTask <=> OSEventCnt[m] = Available
    BY <2>3, NoTaskFacts DEF MutexInv, Available, Prio
  <2>4. ASSUME NEW m \in Mutex, NEW t \in Created, OSTCBPrio[t] = Pip[m]
        PROVE  t = OSEventOwner[m]
    <3>1. OSTCBPrioTbl[Pip[m]] = t /\ t \in Task
      BY <2>1, <2>2, <2>4 DEF Live
    <3>. QED BY <3>1, NoTaskFacts DEF PrioInv
  <2>5. ASSUME NEW m \in Mutex, OSEventOwner[m] # NoTask
        PROVE  /\ OSTCBPrio[OSEventOwner[m]] \in {OSEventCnt[m], Pip[m]}
               /\ \A p \in OSEventTbl[m] : OSTCBPrio[OSEventOwner[m]] < p
    BY <2>5 DEF MutexInv
  <2>6. ASSUME NEW m \in Mutex, OSEventOwner[m] = NoTask
        PROVE  OSEventTbl[m] = {}
    BY <2>6 DEF MutexInv
  <2>. QED BY <2>3, <2>4, <2>5, <2>6 DEF HolderIsAsUrgent
<1>. QED BY <1>1, UcosInvariant, PTL

-----------------------------------------------------------------------------
(* Nothing that is posted is lost *)

\* Task t was given something of event e and has not run since; task t waits.
IsGiven(t, e) ==
    InPend(t) /\ OSTCBEventPtr[t] = e /\ OSTCBStatPend[t] = "OK" /\ Kind[e] \notin OSTCBStat[t]
Given(e) == {t \in Task : IsGiven(t, e)}

CreditInv ==
    \A e \in Counted :
        /\ credit[e] = OSEventCnt[e] + Cardinality(Given(e))
        /\ OSEventCnt[e] > 0 => \A t \in Task : ~WaitsFor(t, e)

LEMMA GivenFacts ==
    ASSUME UcosInv, NEW e \in Event
    PROVE  /\ Granted(e) = Given(e)
           /\ Waiters(e) = {t \in Task : WaitsFor(t, e)}
           /\ OSEventTbl[e] = {} <=> \A t \in Task : ~WaitsFor(t, e)
<1>. USE DEF UcosInv
<1>1. \A t \in Task : t \in Created <=> Live(t)
  BY CreatedIffLive
<1>2. \A t \in Task : InPend(t) => Live(t)
  BY DEF PendInv
<1>3. \A t \in Task : Live(t) => (OSTCBPrio[t] \in OSEventTbl[e] <=> WaitsFor(t, e))
  BY DEF WaitInv
<1>4. \A p \in OSEventTbl[e] : OSTCBPrioTbl[p] \in Task /\ OSTCBPrio[OSTCBPrioTbl[p]] = p
  BY DEF WaitInv
<1>5. ASSUME NEW t \in Task
      PROVE  t \in Granted(e) <=> t \in Given(e)
  BY <1>1, <1>2, <1>3 DEF Granted, Given, IsGiven, WaitsFor, InPend
<1>6. ASSUME NEW t \in Task
      PROVE  t \in Waiters(e) <=> WaitsFor(t, e)
  <2>1. t \in Waiters(e) => Live(t) /\ OSTCBPrio[t] \in OSEventTbl[e]
    BY <1>4 DEF Waiters, Live
  <2>2. Live(t) /\ OSTCBPrio[t] \in OSEventTbl[e] => t \in Waiters(e)
    BY DEF Waiters, Live
  <2>. QED BY <1>2, <1>3, <2>1, <2>2 DEF WaitsFor
<1>7. Waiters(e) \subseteq Task /\ Granted(e) \subseteq Task /\ Given(e) \subseteq Task
  BY <1>4 DEF Waiters, Granted, Created, Given
<1>8. OSEventTbl[e] = {} <=> Waiters(e) = {}
  BY DEF Waiters
<1>. QED BY <1>5, <1>6, <1>7, <1>8

LEMMA GivenIsFinite ==
    ASSUME NEW e
    PROVE  IsFiniteSet(Given(e)) /\ Cardinality(Given(e)) \in Nat
<1>1. Given(e) \in SUBSET Task
  BY DEF Given
<1>. QED BY <1>1, UcosAssumption, FS_Subset, FS_CardinalityType

\* Nobody is given anything, or starts to wait.
LEMMA PlainStep ==
    ASSUME CreditInv, UNCHANGED <<OSEventCnt, credit>>,
           \A t \in Task, e \in Counted : /\ WaitsFor(t, e)' => WaitsFor(t, e)
                                          /\ IsGiven(t, e)' <=> IsGiven(t, e)
    PROVE  CreditInv'
<1>1. \A e \in Counted : Given(e)' = Given(e)
  BY DEF Given
<1>. QED BY <1>1 DEF CreditInv

\* The calls that touch no event leave what a task waits for alone.
LEMMA TasksKeepCredit ==
    ASSUME UcosInv, CreditInv, CallsTasks(OSTCBCur)
    PROVE  CreditInv'
<1> DEFINE t == OSTCBCur
<1>. USE DEF UcosInv, WaitsFor, IsGiven, InPend, Goto, tcbVars, eventVars
<1>0. UNCHANGED <<OSEventCnt, credit>>
  BY DEF CallsTasks
<1>1. CASE OS_Sched(t)
  <2>1. UNCHANGED <<OSTCBEventPtr, OSTCBStat, OSTCBStatPend>>
    BY <1>1 DEF OS_Sched
  <2>2. \A u \in Task : InPend(u)' <=> InPend(u)
    BY <1>1 DEF OS_Sched, TaskTypeOK
  <2>. QED BY <1>0, <2>1, <2>2, PlainStep
<1>2. ASSUME OSSchedLock(t) \/ OSSchedUnlock(t) \/ OSTimeDly(t) \/ OSTaskCreate(t)
                \/ NoMoreTcb(t) \/ FinishDelete(t)
      PROVE  CreditInv'
  <2>1. UNCHANGED <<OSTCBEventPtr, OSTCBStat, OSTCBStatPend>>
    BY <1>2
    DEF OSSchedLock, OSSchedUnlock, OSTimeDly, OSTaskCreate, NoMoreTcb, FinishDelete
  <2>2. \A u \in Task : InPend(u)' <=> InPend(u)
    BY <1>2
    DEF OSSchedLock, OSSchedUnlock, OSTimeDly, OSTaskCreate, NoMoreTcb, FinishDelete,
        InApp, TaskTypeOK
  <2>. QED BY <1>0, <2>1, <2>2, PlainStep
<1>3. ASSUME NEW d \in Task, OSTaskSuspend(t, d) \/ OSTaskResume(t, d) \/ OSTaskChangePrio(t, d)
      PROVE  CreditInv'
  <2>1. UNCHANGED <<OSTCBEventPtr, OSTCBStatPend>>
    BY <1>3 DEF OSTaskSuspend, OSTaskResume, OSTaskChangePrio
  <2>2. \A u \in Task, k \in PendAny : (k \in OSTCBStat[u])' <=> k \in OSTCBStat[u]
    BY <1>3 DEF OSTaskSuspend, OSTaskResume, OSTaskChangePrio, TaskTypeOK, PendAny
  <2>3. \A u \in Task : InPend(u)' <=> InPend(u)
    BY <1>3 DEF OSTaskSuspend, OSTaskResume, OSTaskChangePrio, InApp, TaskTypeOK
  <2>. QED BY <1>0, <2>1, <2>2, <2>3, KindFacts, PlainStep DEF Counted
<1>4. ASSUME NEW d \in Task, OSTimeDlyResume(t, d)
      PROVE  CreditInv'
  <2>1. \A u \in Task : InPend(u)' <=> InPend(u)
    BY <1>4 DEF OSTimeDlyResume, InApp, TaskTypeOK
  <2>2. /\ UNCHANGED OSTCBEventPtr /\ d \in Created /\ OSTCBDly[d] # 0
        /\ \A u \in Task \ {d} : /\ OSTCBStat'[u] = OSTCBStat[u]
                                 /\ OSTCBStatPend'[u] = OSTCBStatPend[u]
        /\ OSTCBStat'[d] = OSTCBStat[d] \ PendAny /\ OSTCBStatPend'[d] = TimedOut(d)
    BY <1>4 DEF OSTimeDlyResume, TaskTypeOK
  <2>3. InPend(d) => /\ OSTCBEventPtr[d] \in Event
                     /\ Kind[OSTCBEventPtr[d]] \in OSTCBStat[d]
                     /\ OSTCBStatPend[d] = "OK" /\ OSTCBStatPend'[d] = "TO"
    BY <2>2, KindFacts DEF PendInv, TaskTypeOK, TimedOut
  <2>4. \A e \in Counted : /\ WaitsFor(d, e)' => WaitsFor(d, e)
                           /\ IsGiven(d, e)' <=> IsGiven(d, e)
    BY <2>1, <2>2, <2>3, KindFacts DEF Counted
  <2>5. \A u \in Task \ {d}, e \in Counted : /\ WaitsFor(u, e)' => WaitsFor(u, e)
                                             /\ IsGiven(u, e)' <=> IsGiven(u, e)
    BY <2>1, <2>2
  <2>. QED BY <1>0, <2>4, <2>5, PlainStep
<1>5. ASSUME NEW d \in Task, OS_TCBInit(t, d)
      PROVE  CreditInv'
  <2>1. ~InPend(d) /\ ~InPend(t)
    BY <1>5, CreatedIffLive DEF OS_TCBInit, PendInv
  <2>0. /\ pc \in [Task -> UcosLabel] /\ t \in Task
        /\ pc' = [pc EXCEPT ![d] = "app", ![t] = "sched"]
    BY <1>5 DEF OS_TCBInit, TaskTypeOK
  <2>2. /\ pc'[t] = "sched" /\ pc'[d] \in {"app", "sched"}
        /\ \A u \in Task : u # d /\ u # t => pc'[u] = pc[u]
    BY <2>0
  <2>3. \A u \in Task \ {d} : /\ OSTCBStat'[u] = OSTCBStat[u]
                              /\ OSTCBStatPend'[u] = OSTCBStatPend[u]
                              /\ OSTCBEventPtr'[u] = OSTCBEventPtr[u]
    BY <1>5 DEF OS_TCBInit, TaskTypeOK
  <2>4. ASSUME NEW u \in Task, NEW e \in Counted
        PROVE  (WaitsFor(u, e)' => WaitsFor(u, e)) /\ (IsGiven(u, e)' <=> IsGiven(u, e))
    <3>1. CASE u = d \/ u = t
      BY <2>1, <2>2, <3>1
    <3>2. CASE u # d /\ u # t
      BY <2>2, <2>3, <3>2
    <3>. QED BY <3>1, <3>2
  <2>. QED BY <1>0, <2>4, PlainStep
<1>. QED BY <1>1, <1>2, <1>3, <1>4, <1>5 DEF CallsTasks

\* A task whose time is over has been given nothing.
LEMMA TickKeepsCredit ==
    ASSUME UcosInv, CreditInv, Tick
    PROVE  CreditInv'
<1>. USE DEF UcosInv, WaitsFor, IsGiven, InPend
<1>1. /\ UNCHANGED <<OSEventCnt, credit, pc, OSTCBEventPtr>>
      /\ \A u \in Task : /\ OSTCBStat'[u] = IF u \in Due THEN OSTCBStat[u] \ PendAny
                                            ELSE OSTCBStat[u]
                         /\ OSTCBStatPend'[u] = IF u \in Due THEN TimedOut(u)
                                                ELSE OSTCBStatPend[u]
  BY DEF Tick, time_handler, eventVars
<1>2. ASSUME NEW u \in Due, u \in Task, InPend(u)
      PROVE  /\ OSTCBEventPtr[u] \in Event /\ Kind[OSTCBEventPtr[u]] \in OSTCBStat[u]
             /\ OSTCBStatPend[u] = "OK" /\ OSTCBStatPend'[u] = "TO"
  <2>1. OSTCBDly[u] > 0
    BY DEF Due
  <2>2. /\ OSTCBEventPtr[u] \in Event /\ Kind[OSTCBEventPtr[u]] \in OSTCBStat[u]
        /\ OSTCBStatPend[u] = "OK"
    BY <1>2, <2>1, KindFacts DEF PendInv
  <2>3. OSTCBStat[u] \cap PendAny # {}
    BY <2>2, KindFacts
  <2>4. OSTCBStatPend'[u] = TimedOut(u)
    BY <1>1, <1>2
  <2>5. TimedOut(u) = "TO"
    BY <2>3 DEF TimedOut
  <2>. QED BY <2>2, <2>4, <2>5
<1>3. ASSUME NEW u \in Task, NEW e \in Counted
      PROVE  (WaitsFor(u, e)' => WaitsFor(u, e)) /\ (IsGiven(u, e)' <=> IsGiven(u, e))
  BY <1>1, <1>2, KindFacts DEF Counted
<1>. QED BY <1>1, <1>3, PlainStep

\* A task that takes what it was given, or goes without.
LEMMA FinishPendKeepsCredit ==
    ASSUME UcosInv, CreditInv, FinishPend(OSTCBCur)
    PROVE  CreditInv'
<1> DEFINE t == OSTCBCur
           got == OSTCBStatPend[t] = "OK"
<1>1. /\ t \in Task /\ pc[t] = "wake" /\ OSTCBStat[t] = {} /\ pc \in [Task -> UcosLabel]
      /\ credit \in [Counted -> Int] /\ \A e \in Counted : OSEventCnt[e] \in Int
  BY CurIsReady DEF FinishPend, Running, UcosInv, TaskTypeOK, Counted
<1>2. PICK k \in Event : k = OSTCBEventPtr[t]
  BY <1>1, KindFacts DEF UcosInv, PendInv, InPend
<1>3. /\ UNCHANGED OSEventCnt /\ pc' = [pc EXCEPT ![t] = "app"]
      /\ credit' = IF got /\ k \in Counted THEN [credit EXCEPT ![k] = @ - 1] ELSE credit
      /\ \A u \in Task : u # t => /\ OSTCBStat'[u] = OSTCBStat[u]
                                  /\ OSTCBStatPend'[u] = OSTCBStatPend[u]
                                  /\ OSTCBEventPtr'[u] = OSTCBEventPtr[u]
  BY <1>2 DEF FinishPend, Goto, UcosInv, TaskTypeOK
<1>4. \A e \in Counted : IsGiven(t, e) <=> e = k /\ got
  BY <1>1, <1>2 DEF IsGiven, InPend
<1>5. ASSUME NEW u \in Task, NEW e \in Counted
      PROVE  /\ WaitsFor(u, e)' => WaitsFor(u, e)
             /\ IsGiven(u, e)' <=> IsGiven(u, e) /\ u # t
  <2>1. CASE u = t
    BY <1>1, <1>3, <2>1 DEF IsGiven, WaitsFor, InPend
  <2>2. CASE u # t
    BY <1>1, <1>3, <2>2 DEF IsGiven, WaitsFor, InPend
  <2>. QED BY <2>1, <2>2
<1>6. \A e \in Counted : Given(e)' = Given(e) \ {t}
  BY <1>5 DEF Given
<1>7. \A e \in Counted : t \in Given(e) <=> e = k /\ got
  BY <1>1, <1>4 DEF Given
<1>8. ASSUME NEW e \in Counted
      PROVE  credit'[e] = OSEventCnt'[e] + Cardinality(Given(e)')
  <2>1. Cardinality(Given(e) \ {t}) =
            IF t \in Given(e) THEN Cardinality(Given(e)) - 1 ELSE Cardinality(Given(e))
    BY GivenIsFinite, FS_RemoveElement
  <2>2. credit[e] = OSEventCnt[e] + Cardinality(Given(e)) /\ Cardinality(Given(e)) \in Int
    BY GivenIsFinite DEF CreditInv
  <2>3. credit'[e] = IF e = k /\ got THEN credit[e] - 1 ELSE credit[e]
    BY <1>1, <1>3
  <2>4. OSEventCnt'[e] = OSEventCnt[e] /\ OSEventCnt[e] \in Int /\ Given(e)' = Given(e) \ {t}
    BY <1>1, <1>3, <1>6
  <2>5. CASE e = k /\ got
    BY <1>7, <2>1, <2>2, <2>3, <2>4, <2>5
  <2>6. CASE ~(e = k /\ got)
    BY <1>7, <2>1, <2>2, <2>3, <2>4, <2>6
  <2>. QED BY <2>5, <2>6
<1>. QED BY <1>3, <1>5, <1>8 DEF CreditInv

\* What was given to a task that is deleted is gone.
LEMMA DeleteKeepsCredit ==
    ASSUME UcosInv, CreditInv, NEW d \in Task, DeleteTask(OSTCBCur, d)
    PROVE  CreditInv'
<1> DEFINE t == OSTCBCur
<1>1. /\ t \in Task /\ pc[t] = "app" /\ pc \in [Task -> UcosLabel]
      /\ credit \in [Counted -> Int] /\ \A e \in Counted : OSEventCnt[e] \in Int
  BY DEF DeleteTask, OSTaskDel, InApp, UcosInv, TaskTypeOK, Counted
<1>2. /\ UNCHANGED <<OSEventCnt, OSTCBEventPtr>>
      /\ pc' = [pc EXCEPT ![d] = "app", ![t] = "delete"]
      /\ \A u \in Task : u # d => /\ OSTCBStat'[u] = OSTCBStat[u]
                                  /\ OSTCBStatPend'[u] = OSTCBStatPend[u]
  BY DEF DeleteTask, OSTaskDel, UcosInv, TaskTypeOK
<1>3. \A e \in Counted : credit'[e] = IF d \in Given(e) THEN credit[e] - 1 ELSE credit[e]
  BY GivenFacts DEF DeleteTask, Counted
<1>4. /\ pc'[d] \in {"app", "delete"} /\ pc'[t] = "delete"
      /\ \A u \in Task : u # d /\ u # t => pc'[u] = pc[u]
  BY <1>1, <1>2
<1>5. ASSUME NEW u \in Task, NEW e \in Counted
      PROVE  /\ WaitsFor(u, e)' => WaitsFor(u, e)
             /\ IsGiven(u, e)' <=> IsGiven(u, e) /\ u # d
  <2>1. CASE u = d \/ u = t
    BY <1>1, <1>4, <2>1 DEF IsGiven, WaitsFor, InPend
  <2>2. CASE u # d /\ u # t
    BY <1>2, <1>4, <2>2 DEF IsGiven, WaitsFor, InPend
  <2>. QED BY <2>1, <2>2
<1>6. \A e \in Counted : Given(e)' = Given(e) \ {d}
  BY <1>5 DEF Given
<1>8. ASSUME NEW e \in Counted
      PROVE  credit'[e] = OSEventCnt'[e] + Cardinality(Given(e)')
  <2>1. Cardinality(Given(e) \ {d}) =
            IF d \in Given(e) THEN Cardinality(Given(e)) - 1 ELSE Cardinality(Given(e))
    BY GivenIsFinite, FS_RemoveElement
  <2>2. credit[e] = OSEventCnt[e] + Cardinality(Given(e)) /\ Cardinality(Given(e)) \in Int
    BY GivenIsFinite DEF CreditInv
  <2>3. OSEventCnt'[e] = OSEventCnt[e] /\ OSEventCnt[e] \in Int /\ Given(e)' = Given(e) \ {d}
    BY <1>1, <1>2, <1>6
  <2>4. CASE d \in Given(e)
    BY <1>3, <2>1, <2>2, <2>3, <2>4
  <2>5. CASE d \notin Given(e)
    BY <1>3, <2>1, <2>2, <2>3, <2>5
  <2>. QED BY <2>4, <2>5
<1>. QED BY <1>2, <1>5, <1>8 DEF CreditInv

\* Calls on a mutex, which is not counted
LEMMA MutexCallsKeepCredit ==
    ASSUME UcosInv, Discipline, CreditInv, NEW m \in Event,
           OSMutexPend(OSTCBCur, m) \/ OSMutexAccept(OSTCBCur, m) \/ OSMutexPost(OSTCBCur, m)
    PROVE  CreditInv'
<1> DEFINE t == OSTCBCur
<1>1. /\ t \in Task /\ m \in Mutex /\ m \notin Counted /\ pc[t] = "app"
      /\ pc \in [Task -> UcosLabel]
      /\ OSTCBStat \in [Task -> SUBSET Status] /\ OSTCBStatPend \in [Task -> {"OK", "TO", "ABORT"}]
  BY DEF OSMutexPend, OSMutexAccept, OSMutexPost, InApp, UcosInv, TaskTypeOK, Counted
<1>2. \A e \in Counted : Kind[e] # "MUTEX" /\ m # e
  BY <1>1 DEF Counted, Mutex
<1>3. ASSUME OSMutexPend(t, m) \/ OSMutexAccept(t, m), TakeMutex(t, m)
      PROVE  CreditInv'
  <2>1. /\ UNCHANGED <<pc, OSTCBStat, OSTCBStatPend, OSTCBEventPtr, credit>>
        /\ \A e \in Counted : OSEventCnt'[e] = OSEventCnt[e]
    BY <1>1, <1>3 DEF TakeMutex, tcbVars, UcosInv, TaskTypeOK, Counted
  <2>2. \A e \in Counted : Given(e)' = Given(e)
    BY <2>1 DEF Given, IsGiven, InPend
  <2>. QED BY <2>1, <2>2 DEF CreditInv, WaitsFor, InPend
<1>4. ASSUME OSMutexPend(t, m), WaitForMutex(t, m)
      PROVE  CreditInv'
  <2>1. /\ UNCHANGED <<OSEventCnt, credit>> /\ pc' = [pc EXCEPT ![t] = "pend"]
        /\ OSTCBEventPtr' = [OSTCBEventPtr EXCEPT ![t] = m]
        /\ OSTCBStat' = [OSTCBStat EXCEPT ![t] = @ \cup {Kind[m]}]
        /\ OSTCBStatPend' = [OSTCBStatPend EXCEPT ![t] = "OK"]
    BY <1>4 DEF WaitForMutex, OS_EventTaskWait, Goto
  <2>2. OSTCBEventPtr'[t] = m /\ \A u \in Task : u # t =>
            /\ pc'[u] = pc[u] /\ OSTCBEventPtr'[u] = OSTCBEventPtr[u]
            /\ OSTCBStat'[u] = OSTCBStat[u] /\ OSTCBStatPend'[u] = OSTCBStatPend[u]
    BY <1>1, <2>1 DEF UcosInv, TaskTypeOK
  <2>3. ASSUME NEW u \in Task, NEW e \in Counted
        PROVE  (WaitsFor(u, e)' => WaitsFor(u, e)) /\ (IsGiven(u, e)' <=> IsGiven(u, e))
    <3>1. CASE u = t
      BY <1>1, <1>2, <2>2, <3>1 DEF IsGiven, WaitsFor, InPend
    <3>2. CASE u # t
      BY <2>2, <3>2 DEF IsGiven, WaitsFor, InPend
    <3>. QED BY <3>1, <3>2
  <2>. QED BY <2>1, <2>3, PlainStep
<1>5. ASSUME OSMutexPost(t, m)
      PROVE  CreditInv'
  <2>1. MostUrgent(m) \subseteq {u \in Task : WaitsFor(u, m)}
    BY MostUrgentWaits, GivenFacts
  <2>2. /\ UNCHANGED <<OSTCBEventPtr, credit>>
        /\ pc' = [pc EXCEPT ![t] = IF MostUrgent(m) # {} THEN "sched" ELSE "app"]
        /\ \A u \in Task : u \notin MostUrgent(m) =>
               OSTCBStat'[u] = OSTCBStat[u] /\ OSTCBStatPend'[u] = OSTCBStatPend[u]
    BY <1>5 DEF OSMutexPost, OS_EventTaskRdy, Goto
  <2>3. \A e \in Counted : OSEventCnt'[e] = OSEventCnt[e]
    BY <1>1, <1>5 DEF OSMutexPost, UcosInv, TaskTypeOK, Counted
  <2>4. \A u \in MostUrgent(m), e \in Counted : OSTCBEventPtr[u] # e
    BY <1>1, <2>1 DEF WaitsFor
  <2>5. \A u \in Task : InPend(u)' <=> InPend(u)
    BY <1>1, <2>2 DEF InPend
  <2>6. ASSUME NEW u \in Task, NEW e \in Counted
        PROVE  (WaitsFor(u, e)' => WaitsFor(u, e)) /\ (IsGiven(u, e)' <=> IsGiven(u, e))
    BY <2>2, <2>4, <2>5 DEF IsGiven, WaitsFor
  <2>7. \A e \in Counted : Given(e)' = Given(e)
    BY <2>6 DEF Given
  <2>. QED BY <2>2, <2>3, <2>6, <2>7 DEF CreditInv
<1>. QED BY <1>3, <1>4, <1>5 DEF OSMutexPend, OSMutexAccept

\* An event changes by as much as is posted or taken, and nobody waits for it.
LEMMA CountKeepsCredit ==
    ASSUME UcosInv, CreditInv, NEW e \in Counted, NEW n \in Nat,
           OSEventCnt' = [OSEventCnt EXCEPT ![e] = n],
           credit' = [credit EXCEPT ![e] = @ + n - OSEventCnt[e]],
           UNCHANGED <<pc, OSTCBStat, OSTCBStatPend, OSTCBEventPtr>>,
           OSEventCnt[e] > 0 \/ OSEventTbl[e] = {} \/ n = 0
    PROVE  CreditInv'
<1>1. /\ \A k \in Counted : Given(k)' = Given(k)
      /\ \A u \in Task, k \in Counted : WaitsFor(u, k)' <=> WaitsFor(u, k)
  BY DEF Given, IsGiven, WaitsFor, InPend
<1>2. /\ \A k \in Counted : credit[k] \in Int /\ OSEventCnt[k] \in Nat /\ k \in Event
      /\ credit \in [Counted -> Int] /\ OSEventCnt \in [Event -> Nat]
  BY DEF UcosInv, TaskTypeOK, Counted
<1>3. /\ \A k \in Counted : k # e => credit'[k] = credit[k] /\ OSEventCnt'[k] = OSEventCnt[k]
      /\ credit'[e] = credit[e] + n - OSEventCnt[e] /\ OSEventCnt'[e] = n
  BY <1>2
<1>4. credit'[e] = OSEventCnt'[e] + Cardinality(Given(e))
  <2>1. Cardinality(Given(e)) \in Int /\ credit[e] = OSEventCnt[e] + Cardinality(Given(e))
    BY GivenIsFinite DEF CreditInv
  <2>. QED BY <1>2, <1>3, <2>1
<1>5. n > 0 => \A u \in Task : ~WaitsFor(u, e)
  BY <1>2, GivenFacts DEF CreditInv
<1>. QED BY <1>1, <1>3, <1>4, <1>5 DEF CreditInv

\* The tasks of S are given something, or sent away.
LEMMA ReadyKeepsCredit ==
    ASSUME UcosInv, CreditInv, NEW e \in Counted, NEW S \in SUBSET Waiters(e), S # {},
           NEW status \in {"OK", "ABORT"}, OS_EventTaskRdy(e, S, status, OSRdyTbl),
           UNCHANGED <<OSEventCnt, OSTCBEventPtr>>,
           \A u \in Task : InPend(u)' <=> InPend(u),
           credit' = IF status = "OK" THEN [credit EXCEPT ![e] = @ + Cardinality(S)] ELSE credit
    PROVE  CreditInv'
<1>1. /\ e \in Event /\ S \subseteq {u \in Task : WaitsFor(u, e)}
      /\ credit \in [Counted -> Int] /\ OSEventCnt[e] \in Nat
  BY GivenFacts DEF Counted, UcosInv, TaskTypeOK
<1>2. /\ \A u \in S : /\ OSTCBStat'[u] = OSTCBStat[u] \ {Kind[e]} /\ OSTCBStatPend'[u] = status
                      /\ OSTCBEventPtr[u] = e /\ InPend(u) /\ u \in Task
      /\ \A u \in Task \ S : OSTCBStat'[u] = OSTCBStat[u] /\ OSTCBStatPend'[u] = OSTCBStatPend[u]
  BY <1>1 DEF OS_EventTaskRdy, WaitsFor
<1>3. ASSUME NEW u \in Task, NEW k \in Counted
      PROVE  /\ WaitsFor(u, k)' => WaitsFor(u, k)
             /\ IsGiven(u, k)' <=> IsGiven(u, k) \/ (k = e /\ u \in S /\ status = "OK")
             /\ k = e /\ u \in S => ~IsGiven(u, k)
  <2>1. CASE u \in S
    BY <1>1, <1>2, <2>1 DEF WaitsFor, IsGiven
  <2>2. CASE u \notin S
    BY <1>2, <2>2 DEF WaitsFor, IsGiven
  <2>. QED BY <2>1, <2>2
<1>4. \A k \in Counted : Given(k)' = IF k = e /\ status = "OK" THEN Given(k) \cup S ELSE Given(k)
  BY <1>1, <1>3 DEF Given
<1>5. IsFiniteSet(S) /\ Cardinality(S) \in Nat /\ Given(e) \cap S = {}
  <2>1. S \in SUBSET Task /\ Given(e) \cap S = {}
    BY <1>1, <1>3 DEF Given
  <2>. QED BY <2>1, UcosAssumption, FS_Subset, FS_CardinalityType
<1>6. Cardinality(Given(e) \cup S) = Cardinality(Given(e)) + Cardinality(S)
  <2>1. Cardinality(Given(e) \cup S)
          = Cardinality(Given(e)) + Cardinality(S) - Cardinality(Given(e) \cap S)
    BY <1>5, GivenIsFinite, FS_Union
  <2>2. Cardinality(Given(e) \cap S) = 0
    BY <1>5, FS_EmptySet
  <2>3. Cardinality(Given(e)) \in Int
    BY GivenIsFinite
  <2>. QED BY <1>5, <2>1, <2>2, <2>3
<1>7. ASSUME NEW k \in Counted
      PROVE  credit'[k] = OSEventCnt'[k] + Cardinality(Given(k)')
  <2>1. CASE k = e /\ status = "OK"
    <3>1. credit'[e] = credit[e] + Cardinality(S) /\ OSEventCnt'[e] = OSEventCnt[e]
      BY <1>1, <2>1
    <3>2. credit[e] = OSEventCnt[e] + Cardinality(Given(e)) /\ Cardinality(Given(e)) \in Int
      BY GivenIsFinite DEF CreditInv
    <3>3. Given(e)' = Given(e) \cup S
      BY <1>4, <2>1
    <3>4. Cardinality(Given(e)') = Cardinality(Given(e)) + Cardinality(S)
      BY <1>6, <3>3
    <3>5. Cardinality(S) \in Int /\ OSEventCnt[e] \in Int
      BY <1>1, <1>5
    <3>6. credit'[e] = OSEventCnt'[e] + Cardinality(Given(e)')
      BY <3>1, <3>2, <3>4, <3>5
    <3>. QED BY <2>1, <3>6
  <2>2. CASE ~(k = e /\ status = "OK")
    <3>1. credit'[k] = credit[k] /\ OSEventCnt'[k] = OSEventCnt[k] /\ Given(k)' = Given(k)
      BY <1>1, <1>4, <2>2
    <3>. QED BY <3>1 DEF CreditInv
  <2>. QED BY <2>1, <2>2
<1>8. \A k \in Counted : OSEventCnt'[k] = OSEventCnt[k]
  OBVIOUS
<1>. QED BY <1>3, <1>7, <1>8 DEF CreditInv

\* A post, from a task or from the hook of the tick.
LEMMA PostKeepsCredit ==
    ASSUME UcosInv, CreditInv, NEW e \in Counted, NEW S \in SUBSET Waiters(e), Post(e, S),
           OSEventTbl[e] # {} => S # {}, UNCHANGED OSTCBEventPtr,
           \A u \in Task : InPend(u)' <=> InPend(u), S = {} => UNCHANGED pc
    PROVE  CreditInv'
<1>1. CASE S # {}
  BY <1>1, ReadyKeepsCredit DEF Post
<1>2. CASE S = {}
  <2>1. /\ OSEventCnt' = [OSEventCnt EXCEPT ![e] = @ + 1]
        /\ credit' = [credit EXCEPT ![e] = @ + 1]
        /\ UNCHANGED <<tcbVars, pc>> /\ OSEventTbl[e] = {}
    BY <1>2 DEF Post
  <2>2. /\ credit \in [Counted -> Int] /\ OSEventCnt[e] \in Nat /\ OSEventCnt[e] + 1 \in Nat
        /\ OSEventCnt \in [Event -> Nat]
    BY DEF UcosInv, TaskTypeOK, Counted
  <2>3. PICK n \in Nat : n = OSEventCnt[e] + 1
    BY <2>2
  <2>4. /\ OSEventCnt' = [OSEventCnt EXCEPT ![e] = n]
        /\ credit' = [credit EXCEPT ![e] = @ + n - OSEventCnt[e]]
    <3>1. credit[e] + n - OSEventCnt[e] = credit[e] + 1
      BY <2>2, <2>3
    <3>. QED BY <2>1, <2>3, <3>1
  <2>. QED BY <2>1, <2>4, CountKeepsCredit DEF tcbVars
<1>. QED BY <1>1, <1>2

LEMMA CallsEventKeepCredit ==
    ASSUME UcosInv, Discipline, CreditInv, NEW e \in Event, CallsEvent(OSTCBCur, e)
    PROVE  CreditInv'
<1> DEFINE t == OSTCBCur
<1>1. /\ t \in Task /\ pc \in [Task -> UcosLabel]
      /\ Kind[e] \in {"SEM", "MBOX", "Q"} => e \in Counted
  BY DEF UcosInv, TaskTypeOK, Counted, Mutex
<1>2. /\ MostUrgent(e) \in SUBSET Waiters(e) /\ Waiters(e) \in SUBSET Waiters(e)
      /\ OSEventTbl[e] # {} => MostUrgent(e) # {} /\ Waiters(e) # {}
  BY MostUrgentWaits DEF MostUrgent, Waiters
<1>3. ASSUME e \in Counted, Take(e)
      PROVE  CreditInv'
  <2>1. PICK n \in Nat : n = OSEventCnt[e] - 1
    BY <1>3 DEF Take, UcosInv, TaskTypeOK, Counted
  <2>2. credit \in [Counted -> Int] /\ OSEventCnt[e] \in Nat
    BY <1>3 DEF UcosInv, TaskTypeOK, Counted
  <2>3. credit' = [credit EXCEPT ![e] = @ + n - OSEventCnt[e]]
    <3>1. credit[e] + n - OSEventCnt[e] = credit[e] - 1
      BY <1>3, <2>1, <2>2
    <3>. QED BY <1>3, <3>1 DEF Take
  <2>. QED BY <1>3, <2>1, <2>3, CountKeepsCredit DEF Take, taskVars, tcbVars, eventVars
<1>4. ASSUME e \in Counted, Pend(t, e)
      PROVE  CreditInv'
  <2>1. ASSUME NEW timeout \in Timeouts, OSEventCnt[e] = 0, pc[t] = "app",
               OS_EventTaskWait(t, e, timeout, OSRdyTbl, OSEventTbl),
               UNCHANGED <<OSEventCnt, credit>>
        PROVE  CreditInv'
    <3>1. /\ ~InPend(t) /\ Kind[e] \in OSTCBStat'[t] /\ OSTCBEventPtr'[t] = e
          /\ \A u \in Task : u # t =>
                /\ pc'[u] = pc[u] /\ OSTCBEventPtr'[u] = OSTCBEventPtr[u]
                /\ OSTCBStat'[u] = OSTCBStat[u] /\ OSTCBStatPend'[u] = OSTCBStatPend[u]
      BY <1>1, <2>1 DEF OS_EventTaskWait, Goto, UcosInv, TaskTypeOK, InPend
    <3>2. ASSUME NEW u \in Task, NEW k \in Counted
          PROVE  /\ WaitsFor(u, k)' => WaitsFor(u, k) \/ k = e
                 /\ IsGiven(u, k)' <=> IsGiven(u, k)
      <4>1. CASE u = t
        BY <3>1, <4>1 DEF WaitsFor, IsGiven, InPend
      <4>2. CASE u # t
        BY <3>1, <4>2 DEF WaitsFor, IsGiven, InPend
      <4>. QED BY <4>1, <4>2
    <3>3. \A k \in Counted : Given(k)' = Given(k)
      BY <3>2 DEF Given
    <3>4. ~(OSEventCnt'[e] > 0)
      BY <2>1
    <3>. QED BY <2>1, <3>2, <3>3, <3>4 DEF CreditInv
  <2>. QED BY <1>3, <1>4, <2>1 DEF Pend, InApp
<1>5. ASSUME e \in Counted, NEW S \in SUBSET Waiters(e), OSEventTbl[e] # {} => S # {},
             PostFromTask(t, e, S)
      PROVE  CreditInv'
  <2>1. /\ Post(e, S) /\ UNCHANGED OSTCBEventPtr /\ pc[t] = "app"
        /\ pc' = [pc EXCEPT ![t] = IF S = {} THEN "app" ELSE "sched"]
    BY <1>5 DEF PostFromTask, InApp, Goto
  <2>2. (\A u \in Task : InPend(u)' <=> InPend(u)) /\ (S = {} => UNCHANGED pc)
    BY <1>1, <2>1 DEF InPend
  <2>. QED BY <1>5, <2>1, <2>2, PostKeepsCredit
<1>6. ASSUME e \in Counted, NEW S \in SUBSET Waiters(e), PendAbort(t, e, S)
      PROVE  CreditInv'
  <2>1. /\ OS_EventTaskRdy(e, S, "ABORT", OSRdyTbl) /\ S # {} /\ pc[t] = "app"
        /\ UNCHANGED <<OSEventCnt, OSTCBEventPtr, credit>> /\ pc' = [pc EXCEPT ![t] = "sched"]
    BY <1>6 DEF PendAbort, InApp, Goto
  <2>2. \A u \in Task : InPend(u)' <=> InPend(u)
    BY <1>1, <2>1 DEF InPend
  <2>. QED BY <1>6, <2>1, <2>2, ReadyKeepsCredit
<1>7. ASSUME e \in Counted, NEW n \in Nat, SetCount(e, n),
             OSEventCnt[e] > 0 \/ OSEventTbl[e] = {} \/ n = 0
      PROVE  CreditInv'
  BY <1>7, CountKeepsCredit DEF SetCount, taskVars, tcbVars, eventVars
<1>8. CASE \/ OSSemPend(t, e) \/ OSSemAccept(t, e) \/ OSSemPost(t, e)
           \/ OSSemPendAbort(t, e) \/ OSSemSet(t, e)
  BY <1>1, <1>2, <1>3, <1>4, <1>5, <1>6, <1>7, <1>8, UcosEventAssumption
  DEF OSSemPend, OSSemAccept, OSSemPost, OSSemPendAbort, OSSemSet, Accept
<1>9. CASE \/ OSMboxPend(t, e) \/ OSMboxAccept(t, e) \/ OSMboxPost(t, e)
           \/ OSMboxPostOpt(t, e) \/ OSMboxPendAbort(t, e)
  BY <1>1, <1>2, <1>3, <1>4, <1>5, <1>6, <1>9
  DEF OSMboxPend, OSMboxAccept, OSMboxPost, OSMboxPostOpt, OSMboxPendAbort, Accept
<1>10. CASE \/ OSQPend(t, e) \/ OSQAccept(t, e) \/ OSQPost(t, e)
            \/ OSQPostOpt(t, e) \/ OSQPendAbort(t, e)
  BY <1>1, <1>2, <1>3, <1>4, <1>5, <1>6, <1>10
  DEF OSQPend, OSQAccept, OSQPost, OSQPostOpt, OSQPendAbort, Accept
<1>11. CASE OSQFlush(t, e)
  BY <1>1, <1>7, <1>11 DEF OSQFlush
<1>12. CASE OSMutexPend(t, e) \/ OSMutexAccept(t, e) \/ OSMutexPost(t, e)
  BY <1>12, MutexCallsKeepCredit
<1>. QED BY <1>8, <1>9, <1>10, <1>11, <1>12 DEF CallsEvent

LEMMA CreditStep ==
    ASSUME UcosInv, Discipline, CreditInv, [UcosNext]_ucosVars
    PROVE  CreditInv'
<1>1. CASE Tick
  BY <1>1, TickKeepsCredit
<1>2. ASSUME NEW e \in TickPosts, OSTimeTickHook(e)
      PROVE  CreditInv'
  <2>1. e \in Counted /\ MostUrgent(e) \in SUBSET Waiters(e)
    BY UcosEventAssumption, MostUrgentWaits DEF Counted, Mutex
  <2>2. Post(e, MostUrgent(e)) /\ UNCHANGED <<OSTCBEventPtr, pc>>
    BY <1>2 DEF OSTimeTickHook
  <2>3. OSEventTbl[e] # {} => MostUrgent(e) # {}
    BY DEF MostUrgent
  <2>4. \A u \in Task : InPend(u)' <=> InPend(u)
    BY <2>2 DEF InPend
  <2>. QED BY <2>1, <2>2, <2>3, <2>4, PostKeepsCredit
<1>3. CASE CallsTasks(OSTCBCur)
  BY <1>3, TasksKeepCredit
<1>4. CASE FinishPend(OSTCBCur)
  BY <1>4, FinishPendKeepsCredit
<1>5. CASE \E d \in Task : DeleteTask(OSTCBCur, d)
  BY <1>5, DeleteKeepsCredit
<1>6. CASE \E e \in Event : CallsEvent(OSTCBCur, e)
  BY <1>6, CallsEventKeepCredit
<1>7. CASE UNCHANGED ucosVars
  <2>1. UNCHANGED <<OSEventCnt, credit, pc, OSTCBEventPtr, OSTCBStat, OSTCBStatPend>>
    BY <1>7 DEF ucosVars, taskVars, tcbVars, eventVars
  <2>. QED BY <2>1, PlainStep DEF WaitsFor, IsGiven, InPend
<1>. QED BY <1>1, <1>2, <1>3, <1>4, <1>5, <1>6, <1>7 DEF UcosNext

\* Every post to a semaphore, mailbox or queue is taken once, and nobody waits
\* for an event that has something to take: the post, the timeout, the abort and
\* the deletion of a task never race to lose or to double one.
THEOREM NothingIsEverLost ==
    ASSUME Discipline
    PROVE  UcosSpec => []NothingIsLost
<1>1. UcosInit => CreditInv
  <2>1. ASSUME UcosInit
        PROVE  /\ \A e \in Counted : Given(e) = {}
               /\ \A e \in Counted : credit[e] = 0 /\ OSEventCnt[e] = 0
    BY <2>1 DEF UcosInit, OSStart, Given, IsGiven, InPend, Counted
  <2>. QED BY <2>1, FS_EmptySet DEF CreditInv
<1>2. UcosInv /\ CreditInv /\ [UcosNext]_ucosVars => CreditInv'
  BY CreditStep
<1>3. ASSUME UcosInv, CreditInv
      PROVE  NothingIsLost
  BY <1>3, GivenFacts DEF NothingIsLost, CreditInv, Counted
<1>. QED BY <1>1, <1>2, <1>3, UcosInvariant, PTL DEF UcosSpec
===========================================================================
