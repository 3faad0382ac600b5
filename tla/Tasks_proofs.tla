--------------------------- MODULE Tasks_proofs ---------------------------
(***************************************************************************)
(* Proofs about Tasks, for every set of tasks, every width of the tick     *)
(* count and every number of priorities: the types and the program points, *)
(* the critical sections, the delayed lists, the choice of the running     *)
(* task and the notifications.                                             *)
(***************************************************************************)
EXTENDS Tasks, FiniteSetTheorems, WellFoundedInduction, TLAPS

\* Every nonempty set of naturals has a least element, the head of a sorted list: the prefixes of the set
\* are finite sets, so one of them is minimal for the strict subset order.
LEMMA LeastElement ==
    ASSUME NEW S \in SUBSET Nat, S # {}
    PROVE  \E m \in S : \A k \in S : m <= k
<1>1. PICK n \in S : TRUE
  OBVIOUS
<1>. DEFINE X == 0 .. n
            F(m) == S \cap (0 .. m)
            T == {F(m) : m \in S \cap X}
<1>2. IsFiniteSet(X)
  BY FS_Interval, n \in Int, 0 \in Int
<1>3. T \subseteq FiniteSubsetsOf(X)
  <2>. SUFFICES ASSUME NEW m \in S \cap X PROVE F(m) \in FiniteSubsetsOf(X)
    OBVIOUS
  <2>1. F(m) \in SUBSET X
    OBVIOUS
  <2>2. IsFiniteSet(F(m))
    BY <1>2, <2>1, FS_Subset
  <2>. QED
    BY <2>1, <2>2 DEF FiniteSubsetsOf
<1>4. T # {}
  <2>1. n \in S \cap X
    BY <1>1
  <2>2. F(n) \in T
    BY <2>1
  <2>. QED BY <2>2
<1>. HIDE DEF T
<1>5. PICK x \in T : \A y \in T : ~ (<<y, x>> \in StrictSubsetOrdering(X))
  BY <1>3, <1>4, WFMin, FS_StrictSubsetOrderingWellFounded, Zenon
<1>. USE DEF T
<1>6. PICK m \in S \cap X : x = F(m)
  BY <1>5
<1>7. SUFFICES ASSUME NEW k \in S, k < m PROVE FALSE
  BY <1>6
<1>8. k \in S \cap X /\ F(k) \in T
  BY <1>6, <1>7
<1>9. F(k) \subseteq F(m) /\ m \in F(m) /\ m \notin F(k)
  BY <1>6, <1>7
<1>10. <<F(k), F(m)>> \in StrictSubsetOrdering(X)
  BY <1>8, <1>9 DEF StrictSubsetOrdering
<1>. QED
  BY <1>5, <1>6, <1>8, <1>10

\* A nonempty set of naturals that are at most b has a greatest element (TopWith).
LEMMA GreatestElement ==
    ASSUME NEW b \in Nat, NEW S \in SUBSET (0 .. b), S # {}
    PROVE  \E m \in S : \A k \in S : k <= m
<1>. DEFINE D == {b - k : k \in S}
<1>1. D \in SUBSET Nat /\ D # {}
  <2>1. \A k \in S : b - k \in Nat
    OBVIOUS
  <2>2. PICK k \in S : TRUE
    OBVIOUS
  <2>3. b - k \in D
    BY <2>2
  <2>. QED BY <2>1, <2>3
<1>2. PICK d \in D : \A e \in D : d <= e
  <2>. HIDE DEF D
  <2>. QED BY <1>1, LeastElement
<1>3. PICK m \in S : d = b - m
  BY <1>2
<1>4. \A k \in S : k <= m
  <2>. SUFFICES ASSUME NEW k \in S PROVE k <= m
    OBVIOUS
  <2>1. b - k \in D
    OBVIOUS
  <2>. QED BY <1>2, <1>3, <2>1
<1>. QED BY <1>4

\* Induction on the naturals for membership in a set.
LEMMA SetInduction ==
    ASSUME NEW S \in SUBSET Nat, 0 \in S, \A n \in S : n + 1 \in S
    PROVE  S = Nat
<1>. DEFINE C == Nat \ S
<1>1. SUFFICES ASSUME C # {} PROVE FALSE
  OBVIOUS
<1>2. PICK m \in C : \A k \in C : m <= k
  BY <1>1, LeastElement
<1>3. m \in Nat /\ m # 0 /\ m - 1 \in Nat
  BY <1>2
<1>4. m - 1 \in S
  BY <1>2, <1>3
<1>5. (m - 1) + 1 \in S
  BY <1>4
<1>. QED BY <1>2, <1>3, <1>5

LEMMA SyscallMaskType == SyscallMask \in Nat /\ SyscallMask # 0
  BY DEF SyscallMask

\* The scheduler's program points are not those of the calls on queues and event groups.
LEMMA ApartFromObjects ==
    /\ \A l \in {"run", "userCritical", "delay", "delayUntil", "resumeAll", "replay", "exit",
                "yield", "reset", "createYield", "take", "wait", "reap", "yieldUnless"} :
           l \notin ObjectLabels
    /\ \A l \in ObjectLabels :
           l \notin {"run", "userCritical", "delay", "delayUntil", "resumeAll", "replay", "exit",
                    "yield", "reset", "createYield", "take", "wait", "reap", "yieldUnless"}
  BY TasksAssumption DEF SchedulerLabel

\* The sum of two ticks, wrapped, is a tick.
LEMMA WrapType ==
    ASSUME NEW n \in Nat, n <= 2 * TickMod - 1
    PROVE  Wrap(n) \in Tick
  BY TasksAssumption DEF Wrap, Tick

\* The head of a delayed list is a tick, and no task of the list wakes before it.
LEMMA HeadValueIsLeast ==
    ASSUME NEW S \in SUBSET Task, NEW value \in [Task -> Tick]
    PROVE  /\ HeadValue(S, value) \in Tick
           /\ \A t \in S : HeadValue(S, value) <= value[t]
<1>1. CASE S = {}
  BY <1>1, TasksAssumption DEF HeadValue, portMAX_DELAY, Tick
<1>2. CASE S # {}
  <2>. DEFINE W == {value[t] : t \in S}
  <2>1. W \in SUBSET Tick /\ W # {}
    BY <1>2
  <2>2. W \in SUBSET Nat
    BY <2>1, TasksAssumption DEF Tick
  <2>3. PICK m \in W : \A k \in W : m <= k
    <3>. HIDE DEF W
    <3>. QED BY <2>1, <2>2, LeastElement
  <2>4. \A t \in S : m <= value[t]
    BY <2>3
  <2>5. /\ HeadValue(S, value) \in W
        /\ \A t \in S : HeadValue(S, value) <= value[t]
    BY <1>2, <2>3, <2>4 DEF HeadValue
  <2>. QED BY <2>1, <2>5
<1>. QED BY <1>1, <1>2

\* Recording the priorities of tasks yields a priority.
LEMMA TopWithType ==
    ASSUME NEW S \in SUBSET Task, NEW priority \in [Task -> Priority],
           uxTopReadyPriority \in Priority
    PROVE  TopWith(S, priority) \in Priority
<1>. DEFINE P == {uxTopReadyPriority} \union {priority[t] : t \in S}
<1>1. P \in SUBSET (0 .. MaxPriority) /\ P # {} /\ MaxPriority \in Nat
  BY TasksAssumption DEF Priority
<1>2. PICK m \in P : \A k \in P : k <= m
  <2>. HIDE DEF P
  <2>. QED BY <1>1, GreatestElement
<1>3. m >= uxTopReadyPriority /\ \A t \in S : m >= priority[t]
  <2>1. \A k \in P : k \in Nat
    BY <1>1
  <2>. QED BY <1>1, <1>2, <2>1
<1>4. TopWith(S, priority) \in P
  BY <1>2, <1>3 DEF TopWith
<1>. QED BY <1>1, <1>4 DEF Priority

---------------------------------------------------------------------------
(* The operators the actions are made of *)

\* A context switch keeps the types and happens only when the scheduler is not suspended.
LEMMA SwitchStep ==
    ASSUME NEW top \in Priority, SwitchTypeOK, PriorityTypeOK',
           vTaskSwitchContext(top) \/ NoSwitch(top)
    PROVE  /\ SwitchTypeOK'
           /\ pxCurrentTCB' = pxCurrentTCB \/ uxSchedulerSuspended = 0
<1>1. CASE NoSwitch(top)
  BY <1>1 DEF SwitchTypeOK, NoSwitch
<1>2. CASE vTaskSwitchContext(top)
  BY <1>2 DEF SwitchTypeOK, PriorityTypeOK, vTaskSwitchContext, Selectable
<1>. QED BY <1>1, <1>2

\* Adding a task to a delayed list, for a delay that is not zero.
LEMMA DelayedListStep ==
    ASSUME NEW t \in Task, NEW n \in Tick, NEW b \in BOOLEAN,
           TimeTypeOK, ListTypeOK, prvAddCurrentTaskToDelayedList(t, n, b)
    PROVE  /\ xNextTaskUnblockTime' \in Tick
           /\ stateList' \in [Task -> StateList]
           /\ xItemValue' \in [Task -> Tick]
<1>1. xTickCount + n \in Nat /\ xTickCount + n <= 2 * TickMod - 1
  BY TasksAssumption DEF TimeTypeOK, Tick
<1>2. Wrap(xTickCount + n) \in Tick
  BY <1>1, WrapType
<1>. QED
  BY <1>2 DEF prvAddCurrentTaskToDelayedList, TimeTypeOK, ListTypeOK, StateList

LEMMA IncrementTickStep ==
    ASSUME TimeTypeOK, ListTypeOK, xTaskIncrementTick
    PROVE  TimeTypeOK' /\ ListTypeOK'
<1>. DEFINE now == Wrap(xTickCount + 1)
            lists == IF now = 0 THEN [t \in Task |-> Switched(stateList[t])] ELSE stateList
            delayed == {t \in Task : lists[t] = "delayed"}
            unblockTime == IF now = 0 THEN HeadValue(delayed, xItemValue)
                           ELSE xNextTaskUnblockTime
            woken == IF now >= unblockTime THEN {t \in delayed : xItemValue[t] <= now} ELSE {}
<1>1. xTickCount + 1 \in Nat /\ xTickCount + 1 <= 2 * TickMod - 1
  BY TasksAssumption DEF TimeTypeOK, Tick
<1>2. now \in Tick
  BY <1>1, WrapType
<1>3. lists \in [Task -> StateList]
  BY DEF ListTypeOK, StateList, Switched
<1>4. delayed \in SUBSET Task /\ woken \in SUBSET Task /\ delayed \ woken \in SUBSET Task
  OBVIOUS
<1>. HIDE DEF now, lists, delayed, unblockTime, woken
<1>5. HeadValue(delayed, xItemValue) \in Tick /\ HeadValue(delayed \ woken, xItemValue) \in Tick
  BY <1>4, HeadValueIsLeast DEF ListTypeOK
<1>6. unblockTime \in Tick
  BY <1>5 DEF unblockTime, TimeTypeOK
<1>7. /\ xTickCount' = now
      /\ xNumOfOverflows' = IF now = 0 THEN (xNumOfOverflows + 1) % OverflowMod
                            ELSE xNumOfOverflows
      /\ stateList' = [t \in Task |-> IF t \in woken THEN "ready" ELSE lists[t]]
      /\ eventList' = [t \in Task |-> IF t \in woken THEN "none" ELSE eventList[t]]
      /\ xNextTaskUnblockTime' = IF now >= unblockTime
                                 THEN HeadValue(delayed \ woken, xItemValue) ELSE unblockTime
      /\ xItemValue' = xItemValue
  BY DEF xTaskIncrementTick, now, lists, delayed, unblockTime, woken
<1>8. xNumOfOverflows' \in Nat
  BY <1>7, TasksAssumption DEF TimeTypeOK
<1>9. TimeTypeOK'
  BY <1>2, <1>5, <1>6, <1>7, <1>8 DEF TimeTypeOK
<1>10. ListTypeOK'
  <2>1. stateList' \in [Task -> StateList]
    BY <1>3, <1>7 DEF StateList
  <2>2. eventList' \in [Task -> EventList]
    BY <1>7 DEF ListTypeOK, EventList
  <2>. QED BY <1>7, <2>1, <2>2 DEF ListTypeOK
<1>. QED BY <1>9, <1>10

\* The three ways an action treats the critical sections keep the types of the port.
LEMMA PortStep ==
    ASSUME NEW t \in Task, PortTypeOK,
           \/ vPortEnterCritical(t) /\ held[t] < MaxNesting
           \/ vPortExitCritical(t) /\ held[t] > 0
           \/ WholeCriticalSection
           \/ UNCHANGED portVars
    PROVE  PortTypeOK'
  BY PortAssumption, SyscallMaskType
  DEF PortTypeOK, vPortEnterCritical, vPortExitCritical, WholeCriticalSection, portVars

\* A critical section that may end in a yield.
LEMMA YieldThenExitStep ==
    ASSUME NEW t \in Task, NEW yields, NEW next \in Continuation, NEW top \in Priority,
           PortTypeOK, SwitchTypeOK, PriorityTypeOK', ControlTypeOK, ControlInv, Calls(t),
           arg' = arg, uxSchedulerSuspended' = uxSchedulerSuspended,
           next \in {"run", "take", "wait"},
           YieldThenExit(t, yields, next, top)
    PROVE  PortTypeOK' /\ SwitchTypeOK' /\ ControlTypeOK' /\ ControlInv'
<1>1. held[t] = 0 /\ pc[t] = "run"
  BY DEF Calls, At, ControlInv, SectionsByLabel
<1>2. PortTypeOK' /\ SwitchTypeOK' /\ (pxCurrentTCB' = pxCurrentTCB \/ uxSchedulerSuspended = 0)
  BY <1>1, PortStep, SwitchStep, PortAssumption DEF YieldThenExit
<1>3. ControlTypeOK'
  BY DEF YieldThenExit, Goto, ControlTypeOK, Label, SchedulerLabel, Continuation
<1>4. SectionsByLabel'
  BY <1>1 DEF YieldThenExit, Goto, ControlTypeOK, ControlInv, SectionsByLabel, PortTypeOK,
     vPortEnterCritical, WholeCriticalSection
<1>5. SuspensionByLabel' /\ ArgumentByLabel' /\ ContinuationByLabel'
  BY <1>1, <1>2, ApartFromObjects DEF YieldThenExit, Goto, ControlTypeOK, ControlInv, SuspensionByLabel,
     ArgumentByLabel, ContinuationByLabel
<1>. QED BY <1>2, <1>3, <1>4, <1>5 DEF ControlInv
---------------------------------------------------------------------------
(* The inductive invariant *)

IInv == TypeOK /\ ControlInv

\* What a step leaves alone keeps its type.
LEMMA UnchangedTypes ==
    ASSUME TypeOK
    PROVE  /\ UNCHANGED portVars => PortTypeOK'
           /\ UNCHANGED switchVars => SwitchTypeOK'
           /\ UNCHANGED suspendVars => SuspendTypeOK'
           /\ UNCHANGED timeVars => TimeTypeOK'
           /\ UNCHANGED listVars => ListTypeOK'
           /\ UNCHANGED priorityVars => PriorityTypeOK'
           /\ UNCHANGED notifyVars => NotifyTypeOK'
           /\ UNCHANGED controlVars => ControlTypeOK'
           /\ UNCHANGED appVars => AppTypeOK'
  BY DEF TypeOK, portVars, switchVars, suspendVars, timeVars, listVars, priorityVars,
     notifyVars, controlVars, appVars, PortTypeOK, SwitchTypeOK, SuspendTypeOK, TimeTypeOK,
     ListTypeOK, PriorityTypeOK, NotifyTypeOK, ControlTypeOK, AppTypeOK

\* ControlInv reads these variables only, and the threads that hold the lists keep them.
LEMMA UnchangedControl ==
    ASSUME ControlInv, UNCHANGED <<controlVars, held>>, UNCHANGED uxSchedulerSuspended,
           UNCHANGED pxCurrentTCB \/ uxSchedulerSuspended = 0
    PROVE  ControlInv'
  BY DEF ControlInv, SectionsByLabel, SuspensionByLabel, ArgumentByLabel, ContinuationByLabel,
     controlVars

\* The critical sections of one task change with its program point.
LEMMA GotoControl ==
    ASSUME TypeOK, ControlInv, NEW t \in Task, NEW label \in Label, Goto(t, label),
           \A u \in Task \ {t} : /\ held'[u] = held[u] /\ arg'[u] = arg[u]
                                /\ after'[u] = after[u],
           after'[t] = "yieldUnless" => label \in {"resumeAll", "replay"} \union ObjectLabels,
           \/ label \in {"exit", "replay"} /\ held'[t] = 1
           \/ label = "userCritical" /\ held'[t] > 0
           \/ label \notin {"exit", "replay", "userCritical"} /\ held'[t] = 0,
           label \in {"delay", "delayUntil", "resumeAll"} =>
               t = pxCurrentTCB' /\ uxSchedulerSuspended' > 0,
           label \in {"delay", "delayUntil"} => arg'[t] \in Tick \ {0},
           \/ UNCHANGED pxCurrentTCB /\ t = pxCurrentTCB
           \/ uxSchedulerSuspended = 0
    PROVE  ControlInv'
<1>1. pc \in [Task -> Label] /\ pc' = [pc EXCEPT ![t] = label]
  BY DEF TypeOK, ControlTypeOK, Goto
<1>2. SectionsByLabel'
  BY <1>1 DEF ControlInv, SectionsByLabel
<1>3. SuspensionByLabel' /\ ArgumentByLabel'
  BY <1>1 DEF ControlInv, SuspensionByLabel, ArgumentByLabel, TypeOK, SuspendTypeOK
<1>4. ContinuationByLabel'
  BY <1>1 DEF ControlInv, ContinuationByLabel
<1>. QED BY <1>2, <1>3, <1>4 DEF ControlInv

---------------------------------------------------------------------------
(* Every action keeps the invariant *)

\* The running task leaves the section it was switched out in.
LEMMA ExitCriticalStep ==
    ASSUME IInv, NEW t \in Task, ExitCritical(t)
    PROVE  IInv'
<1>. USE DEF IInv
<1>1. held[t] = 1 /\ pc[t] = "exit" /\ t = pxCurrentTCB /\ after[t] # "yieldUnless"
  BY ApartFromObjects DEF ExitCritical, At, ControlInv, SectionsByLabel, ContinuationByLabel
<1>2. PortTypeOK'
  BY <1>1, PortStep DEF TypeOK, ExitCritical
<1>3. /\ SwitchTypeOK' /\ SuspendTypeOK' /\ TimeTypeOK' /\ ListTypeOK'
      /\ PriorityTypeOK' /\ NotifyTypeOK' /\ AppTypeOK'
  BY UnchangedTypes DEF ExitCritical
<1>4. ControlTypeOK'
  BY <1>1, TasksAssumption DEF ExitCritical, Goto, TypeOK, ControlTypeOK, Label,
     SchedulerLabel, Continuation, ControlInv, ContinuationByLabel
<1>5. ControlInv'
  BY <1>1, TasksAssumption DEF ExitCritical, Goto, vPortExitCritical, suspendVars, switchVars,
     PortTypeOK, TypeOK, ControlTypeOK, Label, SchedulerLabel, Continuation, ControlInv,
     SectionsByLabel, SuspensionByLabel, ArgumentByLabel, ContinuationByLabel
<1>. QED BY <1>2, <1>3, <1>4, <1>5 DEF TypeOK

\* portYIELD outside a critical section.
LEMMA YieldStep ==
    ASSUME IInv, NEW t \in Task, Yield(t)
    PROVE  IInv'
<1>. USE DEF IInv
<1>1. held[t] = 0 /\ pc[t] \in {"run", "yield"} /\ t = pxCurrentTCB
  BY DEF Yield, At, Calls, ControlInv, SectionsByLabel
<1>2. /\ PortTypeOK' /\ SuspendTypeOK' /\ TimeTypeOK' /\ ListTypeOK'
      /\ PriorityTypeOK' /\ NotifyTypeOK' /\ AppTypeOK'
  BY UnchangedTypes DEF Yield
<1>3. SwitchTypeOK' /\ (pxCurrentTCB' = pxCurrentTCB \/ uxSchedulerSuspended = 0)
  BY <1>2, SwitchStep DEF Yield, TypeOK, SwitchTypeOK
<1>4. ControlTypeOK'
  BY <1>1 DEF Yield, Goto, TypeOK, ControlTypeOK, Label, SchedulerLabel, Continuation,
     ControlInv, ContinuationByLabel
<1>5. ControlInv'
  BY <1>1, <1>3, ApartFromObjects DEF Yield, Goto, PortTypeOK, portVars, suspendVars, TypeOK, ControlTypeOK,
     Label, SchedulerLabel, Continuation, ControlInv, SectionsByLabel, SuspensionByLabel,
     ArgumentByLabel, ContinuationByLabel
<1>. QED BY <1>2, <1>3, <1>4, <1>5 DEF TypeOK

\* The application enters a section.
LEMMA UserEnterCriticalStep ==
    ASSUME IInv, NEW t \in Task, UserEnterCritical(t)
    PROVE  IInv'
<1>. USE DEF IInv
<1>1. pc[t] \in {"run", "userCritical"} /\ t = pxCurrentTCB
  BY DEF UserEnterCritical, At, Calls
<1>2. PortTypeOK'
  BY PortStep DEF TypeOK, UserEnterCritical
<1>3. /\ SwitchTypeOK' /\ SuspendTypeOK' /\ TimeTypeOK' /\ ListTypeOK'
      /\ PriorityTypeOK' /\ NotifyTypeOK' /\ AppTypeOK'
  BY UnchangedTypes DEF UserEnterCritical
<1>4. ControlTypeOK'
  BY <1>1 DEF UserEnterCritical, Goto, TypeOK, ControlTypeOK, Label, SchedulerLabel,
     Continuation, ControlInv, ContinuationByLabel
<1>5. ControlInv'
  BY <1>1, ApartFromObjects DEF UserEnterCritical, Goto, PortTypeOK, vPortEnterCritical, switchVars,
     suspendVars, TypeOK, ControlTypeOK, Label, SchedulerLabel, Continuation, ControlInv,
     SectionsByLabel, SuspensionByLabel, ArgumentByLabel, ContinuationByLabel
<1>. QED BY <1>2, <1>3, <1>4, <1>5 DEF TypeOK

\* The application leaves a section.
LEMMA UserExitCriticalStep ==
    ASSUME IInv, NEW t \in Task, UserExitCritical(t)
    PROVE  IInv'
<1>. USE DEF IInv
<1>1. pc[t] = "userCritical" /\ held[t] > 0 /\ t = pxCurrentTCB
  BY DEF UserExitCritical, At, ControlInv, SectionsByLabel
<1>2. PortTypeOK'
  BY <1>1, PortStep DEF TypeOK, UserExitCritical
<1>3. /\ SwitchTypeOK' /\ SuspendTypeOK' /\ TimeTypeOK' /\ ListTypeOK'
      /\ PriorityTypeOK' /\ NotifyTypeOK' /\ AppTypeOK'
  BY UnchangedTypes DEF UserExitCritical
<1>4. ControlTypeOK'
  BY <1>1 DEF UserExitCritical, Goto, TypeOK, ControlTypeOK, Label, SchedulerLabel,
     Continuation, ControlInv, ContinuationByLabel
<1>5. ControlInv'
  BY <1>1, ApartFromObjects DEF UserExitCritical, Goto, PortTypeOK, vPortExitCritical, switchVars, suspendVars,
     TypeOK, ControlTypeOK, Label, SchedulerLabel, Continuation, ControlInv, SectionsByLabel,
     SuspensionByLabel, ArgumentByLabel, ContinuationByLabel
<1>. QED BY <1>2, <1>3, <1>4, <1>5 DEF TypeOK

\* The running task suspends the scheduler.
LEMMA vTaskSuspendAllStep ==
    ASSUME IInv, NEW t \in Task, vTaskSuspendAll(t)
    PROVE  IInv'
<1>. USE DEF IInv
<1>1. t = pxCurrentTCB /\ pc[t] = "run"
  BY DEF vTaskSuspendAll, At, Calls
<1>2. /\ PortTypeOK' /\ SwitchTypeOK' /\ TimeTypeOK' /\ ListTypeOK'
      /\ PriorityTypeOK' /\ NotifyTypeOK' /\ AppTypeOK' /\ ControlTypeOK'
  BY UnchangedTypes DEF vTaskSuspendAll
<1>3. SuspendTypeOK'
  BY DEF vTaskSuspendAll, TypeOK, SuspendTypeOK
<1>4. ControlInv'
  BY <1>1 DEF vTaskSuspendAll, Goto, PortTypeOK, SuspendTypeOK, portVars, switchVars,
     controlVars, TypeOK, ControlTypeOK, Label, SchedulerLabel, Continuation, ControlInv,
     SectionsByLabel, SuspensionByLabel, ArgumentByLabel, ContinuationByLabel
<1>. QED BY <1>2, <1>3, <1>4 DEF TypeOK

\* The application calls xTaskResumeAll.
LEMMA UserResumeAllStep ==
    ASSUME IInv, NEW t \in Task, UserResumeAll(t)
    PROVE  IInv'
<1>. USE DEF IInv
<1>1. t = pxCurrentTCB /\ pc[t] = "run" /\ held[t] = 0
  BY DEF UserResumeAll, At, Calls, ControlInv, SectionsByLabel
<1>2. /\ PortTypeOK' /\ SwitchTypeOK' /\ SuspendTypeOK' /\ TimeTypeOK'
      /\ ListTypeOK' /\ PriorityTypeOK' /\ NotifyTypeOK' /\ AppTypeOK'
  BY UnchangedTypes DEF UserResumeAll
<1>3. ControlTypeOK'
  BY <1>1 DEF UserResumeAll, Goto, TypeOK, ControlTypeOK, Label, SchedulerLabel, Continuation,
     ControlInv, ContinuationByLabel
<1>4. ControlInv'
  BY <1>1 DEF UserResumeAll, Goto, PortTypeOK, portVars, switchVars, suspendVars, TypeOK,
     ControlTypeOK, Label, SchedulerLabel, Continuation, ControlInv, SectionsByLabel,
     SuspensionByLabel, ArgumentByLabel, ContinuationByLabel
<1>. QED BY <1>2, <1>3, <1>4 DEF TypeOK

\* xTaskResumeAll empties xPendingReadyList.
LEMMA MovePendingReadyStep ==
    ASSUME IInv, NEW t \in Task, MovePendingReady(t)
    PROVE  IInv'
<1>. USE DEF IInv
<1>1. t = pxCurrentTCB /\ pc[t] = "resumeAll" /\ held[t] = 0 /\ uxSchedulerSuspended > 0
  BY DEF MovePendingReady, At, ControlInv, SectionsByLabel, SuspensionByLabel
<1>2. PortTypeOK'
  BY <1>1, PortStep, PortAssumption DEF TypeOK, MovePendingReady
<1>3. PriorityTypeOK' /\ NotifyTypeOK' /\ AppTypeOK'
  BY UnchangedTypes DEF MovePendingReady
<1>4. SuspendTypeOK'
  BY <1>1 DEF MovePendingReady, TypeOK, SuspendTypeOK
<1>5. PendingReady \in SUBSET Task /\ TopWith(PendingReady, uxPriority) \in Priority
  BY TopWithType DEF PendingReady, TypeOK, PriorityTypeOK, SwitchTypeOK
<1>6. SwitchTypeOK'
  BY <1>5 DEF MovePendingReady, TypeOK, SwitchTypeOK
<1>7. ListTypeOK'
  BY DEF MovePendingReady, TypeOK, ListTypeOK, StateList, EventList
<1>8. HeadValue({u \in Task : stateList'[u] = "delayed"}, xItemValue) \in Tick
  BY HeadValueIsLeast DEF TypeOK, ListTypeOK
<1>9. TimeTypeOK'
  BY <1>8 DEF MovePendingReady, prvResetNextTaskUnblockTime, TypeOK, TimeTypeOK
<1>10. /\ pxCurrentTCB' = pxCurrentTCB /\ arg' = arg /\ held' = [held EXCEPT ![t] = @ + 1]
       /\ \/ Goto(t, "replay") /\ after' = after
          \/ /\ Goto(t, "exit")
             /\ after' = [after EXCEPT ![t] = IF @ = "yieldUnless" THEN "yield" ELSE @]
  BY DEF MovePendingReady, vPortEnterCritical
<1>11. ControlTypeOK'
  BY <1>1 DEF MovePendingReady, Goto, TypeOK, ControlTypeOK, Label, SchedulerLabel,
     Continuation, ControlInv, ContinuationByLabel
<1>12. ControlInv'
  BY <1>1, <1>10, <1>11 DEF Goto, PortTypeOK, TypeOK, ControlTypeOK, Label, SchedulerLabel,
     Continuation, ControlInv, SectionsByLabel, SuspensionByLabel, ArgumentByLabel,
     ContinuationByLabel
<1>. QED BY <1>2, <1>3, <1>4, <1>6, <1>7, <1>9, <1>11, <1>12 DEF TypeOK

\* xTaskResumeAll replays a tick.
LEMMA ReplayTickStep ==
    ASSUME IInv, NEW t \in Task, ReplayTick(t)
    PROVE  IInv'
<1>. USE DEF IInv
<1>1. t = pxCurrentTCB
  BY DEF ReplayTick, At
<1>2. PortTypeOK' /\ PriorityTypeOK' /\ NotifyTypeOK' /\ AppTypeOK' /\ ControlTypeOK'
  BY UnchangedTypes DEF ReplayTick
<1>3. SuspendTypeOK'
  BY DEF ReplayTick, TypeOK, SuspendTypeOK
<1>4. TimeTypeOK' /\ ListTypeOK'
  BY IncrementTickStep DEF ReplayTick, TypeOK
<1>5. TopWith(WokenByTick, uxPriority) \in Priority
  BY TopWithType DEF WokenByTick, TypeOK, PriorityTypeOK, SwitchTypeOK
<1>6. TickNeedsSwitch \in BOOLEAN
  BY DEF TickNeedsSwitch, TypeOK, SwitchTypeOK
<1>7. SwitchTypeOK'
  BY <1>5, <1>6 DEF ReplayTick, TypeOK, SwitchTypeOK
<1>8. ControlInv'
  BY UnchangedControl DEF ReplayTick, portVars
<1>. QED BY <1>2, <1>3, <1>4, <1>7, <1>8 DEF TypeOK

\* xTaskResumeAll ends, with a yield if one is pending.
LEMMA FinishResumeAllStep ==
    ASSUME IInv, NEW t \in Task, FinishResumeAll(t)
    PROVE  IInv'
<1>. USE DEF IInv
<1>1. t = pxCurrentTCB /\ pc[t] = "replay" /\ held[t] = 1
  BY DEF FinishResumeAll, At, ControlInv, SectionsByLabel
<1>2. /\ PortTypeOK' /\ SuspendTypeOK' /\ TimeTypeOK' /\ ListTypeOK'
      /\ PriorityTypeOK' /\ NotifyTypeOK' /\ AppTypeOK'
  BY UnchangedTypes DEF FinishResumeAll
<1>3. SwitchTypeOK' /\ (pxCurrentTCB' = pxCurrentTCB \/ uxSchedulerSuspended = 0)
  BY <1>2, SwitchStep DEF FinishResumeAll, TypeOK, SwitchTypeOK
<1>4. ControlTypeOK'
  BY <1>1 DEF FinishResumeAll, Goto, TypeOK, ControlTypeOK, Label, SchedulerLabel,
     Continuation, ControlInv, ContinuationByLabel
<1>5. ControlInv'
  BY <1>1, <1>3 DEF FinishResumeAll, Goto, PortTypeOK, portVars, suspendVars, TypeOK,
     ControlTypeOK, Label, SchedulerLabel, Continuation, ControlInv, SectionsByLabel,
     SuspensionByLabel, ArgumentByLabel, ContinuationByLabel
<1>. QED BY <1>2, <1>3, <1>4, <1>5 DEF TypeOK

\* vTaskDelay suspends the scheduler.
LEMMA vTaskDelayStep ==
    ASSUME IInv, NEW t \in Task, vTaskDelay(t)
    PROVE  IInv'
<1>. USE DEF IInv
<1>1. t = pxCurrentTCB /\ pc[t] = "run" /\ held[t] = 0
  BY DEF vTaskDelay, At, Calls, ControlInv, SectionsByLabel
<1>2. /\ PortTypeOK' /\ SwitchTypeOK' /\ TimeTypeOK' /\ ListTypeOK'
      /\ PriorityTypeOK' /\ NotifyTypeOK' /\ AppTypeOK'
  BY UnchangedTypes DEF vTaskDelay
<1>3. SuspendTypeOK'
  BY DEF vTaskDelay, TypeOK, SuspendTypeOK
<1>4. ControlTypeOK'
  BY <1>1, TasksAssumption DEF vTaskDelay, Goto, PortTypeOK, TypeOK, ControlTypeOK, Label,
     SchedulerLabel, Continuation, ControlInv, SectionsByLabel, SuspensionByLabel,
     ArgumentByLabel, ContinuationByLabel
<1>5. ControlInv'
  BY <1>1, TasksAssumption DEF vTaskDelay, Goto, PortTypeOK, portVars, switchVars,
     suspendVars, TypeOK, ControlTypeOK, Label, SchedulerLabel, Continuation, ControlInv,
     SectionsByLabel, SuspensionByLabel, ArgumentByLabel, ContinuationByLabel
<1>. QED BY <1>2, <1>3, <1>4, <1>5 DEF TypeOK

\* vTaskDelayUntil suspends the scheduler.
LEMMA vTaskDelayUntilStep ==
    ASSUME IInv, NEW t \in Task, vTaskDelayUntil(t)
    PROVE  IInv'
<1>. USE DEF IInv
<1>1. t = pxCurrentTCB /\ pc[t] = "run" /\ held[t] = 0
  BY DEF vTaskDelayUntil, At, Calls, ControlInv, SectionsByLabel
<1>2. /\ PortTypeOK' /\ SwitchTypeOK' /\ TimeTypeOK' /\ ListTypeOK'
      /\ PriorityTypeOK' /\ NotifyTypeOK' /\ AppTypeOK'
  BY UnchangedTypes DEF vTaskDelayUntil
<1>3. SuspendTypeOK'
  BY DEF vTaskDelayUntil, TypeOK, SuspendTypeOK
<1>4. ControlTypeOK'
  BY <1>1, TasksAssumption DEF vTaskDelayUntil, Goto, PortTypeOK, TypeOK, ControlTypeOK,
     Label, SchedulerLabel, Continuation, ControlInv, SectionsByLabel, SuspensionByLabel,
     ArgumentByLabel, ContinuationByLabel
<1>5. ControlInv'
  BY <1>1, TasksAssumption DEF vTaskDelayUntil, Goto, PortTypeOK, portVars, switchVars,
     suspendVars, TypeOK, ControlTypeOK, Label, SchedulerLabel, Continuation, ControlInv,
     SectionsByLabel, SuspensionByLabel, ArgumentByLabel, ContinuationByLabel
<1>. QED BY <1>2, <1>3, <1>4, <1>5 DEF TypeOK

\* vTaskDelay moves the task to a delayed list.
LEMMA DelayCurrentStep ==
    ASSUME IInv, NEW t \in Task, DelayCurrent(t)
    PROVE  IInv'
<1>. USE DEF IInv
<1>1. /\ t = pxCurrentTCB /\ pc[t] = "delay" /\ held[t] = 0
      /\ uxSchedulerSuspended > 0 /\ arg[t] \in Tick \ {0}
  BY DEF DelayCurrent, At, ControlInv, SectionsByLabel, SuspensionByLabel, ArgumentByLabel
<1>2. /\ PortTypeOK' /\ SwitchTypeOK' /\ SuspendTypeOK'
      /\ PriorityTypeOK' /\ NotifyTypeOK' /\ AppTypeOK'
  BY UnchangedTypes DEF DelayCurrent
<1>3. /\ xNextTaskUnblockTime' \in Tick /\ stateList' \in [Task -> StateList]
      /\ xItemValue' \in [Task -> Tick]
  BY <1>1, DelayedListStep DEF DelayCurrent, TypeOK
<1>4. TimeTypeOK' /\ ListTypeOK'
  BY <1>3 DEF DelayCurrent, TypeOK, TimeTypeOK, ListTypeOK
<1>5. ControlTypeOK'
  BY <1>1, TasksAssumption DEF Tick, DelayCurrent, Goto, PortTypeOK, TypeOK, ControlTypeOK,
     Label, SchedulerLabel, Continuation, ControlInv, SectionsByLabel, SuspensionByLabel,
     ArgumentByLabel, ContinuationByLabel
<1>6. ControlInv'
  BY <1>1 DEF DelayCurrent, Goto, PortTypeOK, portVars, switchVars, suspendVars, TypeOK,
     ControlTypeOK, Label, SchedulerLabel, Continuation, ControlInv, SectionsByLabel,
     SuspensionByLabel, ArgumentByLabel, ContinuationByLabel
<1>. QED BY <1>2, <1>4, <1>5, <1>6 DEF TypeOK

\* vTaskDelayUntil moves the task to a delayed list, unless its time has passed.
LEMMA DelayCurrentUntilStep ==
    ASSUME IInv, NEW t \in Task, DelayCurrentUntil(t)
    PROVE  IInv'
<1>. USE DEF IInv
<1>1. /\ t = pxCurrentTCB /\ pc[t] = "delayUntil" /\ held[t] = 0 /\ uxSchedulerSuspended > 0
      /\ arg[t] \in Tick \ {0}
  BY DEF DelayCurrentUntil, At, ControlInv, SectionsByLabel, SuspensionByLabel,
     ArgumentByLabel
<1>2. PortTypeOK' /\ SwitchTypeOK' /\ SuspendTypeOK' /\ PriorityTypeOK' /\ NotifyTypeOK'
  BY UnchangedTypes DEF DelayCurrentUntil
<1>3. Wrap(pxPreviousWakeTime[t] + arg[t]) \in Tick
  BY <1>1, WrapType, TasksAssumption DEF Tick, TypeOK, AppTypeOK
<1>4. Wrap(Wrap(pxPreviousWakeTime[t] + arg[t]) + TickMod - xTickCount) \in Tick
  BY <1>3, WrapType, TasksAssumption DEF Tick, TypeOK, TimeTypeOK
<1>5. AppTypeOK'
  BY <1>3 DEF DelayCurrentUntil, TypeOK, AppTypeOK
<1>6. /\ xNextTaskUnblockTime' \in Tick /\ stateList' \in [Task -> StateList]
      /\ xItemValue' \in [Task -> Tick]
  BY <1>4, DelayedListStep DEF DelayCurrentUntil, TypeOK, TimeTypeOK, ListTypeOK
<1>7. TimeTypeOK' /\ ListTypeOK'
  BY <1>6 DEF DelayCurrentUntil, TypeOK, TimeTypeOK, ListTypeOK
<1>8. ControlTypeOK'
  BY <1>1, TasksAssumption DEF Tick, DelayCurrentUntil, Goto, PortTypeOK, TypeOK,
     ControlTypeOK, Label, SchedulerLabel, Continuation, ControlInv, SectionsByLabel,
     SuspensionByLabel, ArgumentByLabel, ContinuationByLabel
<1>9. ControlInv'
  BY <1>1 DEF DelayCurrentUntil, Goto, PortTypeOK, portVars, switchVars, suspendVars, TypeOK,
     ControlTypeOK, Label, SchedulerLabel, Continuation, ControlInv, SectionsByLabel,
     SuspensionByLabel, ArgumentByLabel, ContinuationByLabel
<1>. QED BY <1>2, <1>5, <1>7, <1>8, <1>9 DEF TypeOK

\* vTaskSuspend puts a task aside.
LEMMA vTaskSuspendStep ==
    ASSUME IInv, NEW t \in Task, NEW x \in Task, vTaskSuspend(t, x)
    PROVE  IInv'
<1>. USE DEF IInv
<1>1. t = pxCurrentTCB /\ pc[t] = "run" /\ held[t] = 0
  BY DEF vTaskSuspend, At, Calls, ControlInv, SectionsByLabel
<1>2. PortTypeOK'
  BY <1>1, PortStep DEF TypeOK, vTaskSuspend
<1>3. SwitchTypeOK' /\ SuspendTypeOK' /\ TimeTypeOK' /\ PriorityTypeOK' /\ NotifyTypeOK'
  BY UnchangedTypes DEF vTaskSuspend
<1>4. ListTypeOK'
  BY DEF vTaskSuspend, TypeOK, ListTypeOK, StateList, EventList
<1>5. AppTypeOK'
  BY DEF vTaskSuspend, TypeOK, AppTypeOK
<1>6. ControlTypeOK'
  BY <1>1 DEF vTaskSuspend, Goto, TypeOK, ControlTypeOK, Label, SchedulerLabel, Continuation,
     ControlInv, ContinuationByLabel
<1>7. ControlInv'
  BY <1>1 DEF vTaskSuspend, Goto, PortTypeOK, WholeCriticalSection, switchVars, suspendVars,
     TypeOK, ControlTypeOK, Label, SchedulerLabel, Continuation, ControlInv, SectionsByLabel,
     SuspensionByLabel, ArgumentByLabel, ContinuationByLabel
<1>. QED BY <1>2, <1>3, <1>4, <1>5, <1>6, <1>7 DEF TypeOK

\* The second section of vTaskSuspend.
LEMMA ResetUnblockTimeStep ==
    ASSUME IInv, NEW t \in Task, ResetUnblockTime(t)
    PROVE  IInv'
<1>. USE DEF IInv
<1>1. t = pxCurrentTCB /\ pc[t] = "reset" /\ held[t] = 0
  BY DEF ResetUnblockTime, At, ControlInv, SectionsByLabel
<1>2. PortTypeOK'
  BY <1>1, PortStep DEF TypeOK, ResetUnblockTime
<1>3. /\ SwitchTypeOK' /\ SuspendTypeOK' /\ ListTypeOK'
      /\ PriorityTypeOK' /\ NotifyTypeOK' /\ AppTypeOK'
  BY UnchangedTypes DEF ResetUnblockTime
<1>4. HeadValue(In("delayed"), xItemValue) \in Tick
  BY HeadValueIsLeast DEF In, TypeOK, ListTypeOK
<1>5. TimeTypeOK'
  BY <1>4 DEF ResetUnblockTime, TypeOK, TimeTypeOK
<1>6. ControlTypeOK'
  BY <1>1, TasksAssumption DEF ResetUnblockTime, Goto, TypeOK, ControlTypeOK, Label,
     SchedulerLabel, Continuation, ControlInv, ContinuationByLabel
<1>7. ControlInv'
  BY <1>1, TasksAssumption DEF ResetUnblockTime, Goto, PortTypeOK, WholeCriticalSection,
     switchVars, suspendVars, TypeOK, ControlTypeOK, Label, SchedulerLabel, Continuation,
     ControlInv, SectionsByLabel, SuspensionByLabel, ArgumentByLabel, ContinuationByLabel
<1>. QED BY <1>2, <1>3, <1>5, <1>6, <1>7 DEF TypeOK

\* vTaskResume makes a suspended task ready.
LEMMA vTaskResumeStep ==
    ASSUME IInv, NEW t \in Task, NEW x \in Task, vTaskResume(t, x)
    PROVE  IInv'
<1>. USE DEF IInv
<1>1. SuspendTypeOK' /\ TimeTypeOK' /\ PriorityTypeOK' /\ NotifyTypeOK'
  BY UnchangedTypes DEF vTaskResume
<1>2. ListTypeOK' /\ AppTypeOK'
  BY DEF vTaskResume, TypeOK, ListTypeOK, AppTypeOK, StateList
<1>3. TopWith({x}, uxPriority) \in Priority /\ uxTopReadyPriority \in Priority
  BY TopWithType DEF TypeOK, SwitchTypeOK, PriorityTypeOK
<1>4. PortTypeOK' /\ SwitchTypeOK' /\ ControlTypeOK' /\ ControlInv'
  BY <1>1, <1>3, YieldThenExitStep DEF vTaskResume, suspendVars, TypeOK, Continuation
<1>. QED BY <1>1, <1>2, <1>4 DEF TypeOK

\* An interrupt resumes a task.
LEMMA xTaskResumeFromISRStep ==
    ASSUME IInv, NEW x \in Task, xTaskResumeFromISR(x)
    PROVE  IInv'
<1>. USE DEF IInv
<1>1. UNCHANGED <<portVars, controlVars, uxSchedulerSuspended>>
  BY DEF xTaskResumeFromISR, InterruptMaskSection, suspendVars
<1>2. PortTypeOK'
  BY <1>1, UnchangedTypes
<1>3. SuspendTypeOK' /\ TimeTypeOK' /\ PriorityTypeOK' /\ NotifyTypeOK' /\ ControlTypeOK'
  BY UnchangedTypes DEF xTaskResumeFromISR
<1>4. ListTypeOK' /\ AppTypeOK'
  BY DEF xTaskResumeFromISR, TypeOK, ListTypeOK, AppTypeOK, StateList, EventList
<1>5. TopWith({x}, uxPriority) \in Priority
  BY TopWithType DEF TypeOK, SwitchTypeOK, PriorityTypeOK
<1>6. SwitchTypeOK' /\ (pxCurrentTCB' = pxCurrentTCB \/ uxSchedulerSuspended = 0)
  BY <1>3, <1>5, SwitchStep, UnchangedTypes DEF xTaskResumeFromISR, switchVars, TypeOK
<1>7. ControlInv'
  BY <1>1, <1>6, UnchangedControl DEF portVars
<1>. QED BY <1>2, <1>3, <1>4, <1>6, <1>7 DEF TypeOK

\* vTaskPrioritySet changes a base priority and, without inheritance, the priority.
LEMMA vTaskPrioritySetStep ==
    ASSUME IInv, NEW t \in Task, NEW x \in Task, NEW p \in NewPriorities,
           vTaskPrioritySet(t, x, p)
    PROVE  IInv'
<1>. USE DEF IInv
<1>1. UNCHANGED uxSchedulerSuspended /\ arg' = arg /\ Calls(t)
  BY DEF vTaskPrioritySet, suspendVars
<1>2. SuspendTypeOK' /\ TimeTypeOK' /\ NotifyTypeOK' /\ AppTypeOK'
  BY UnchangedTypes DEF vTaskPrioritySet
<1>3. ListTypeOK'
  BY DEF vTaskPrioritySet, TypeOK, ListTypeOK
<1>4. PriorityTypeOK'
  BY TasksAssumption DEF vTaskPrioritySet, TypeOK, PriorityTypeOK
<1>5. TopWith({x} \intersect Ready, uxPriority') \in Priority
  BY <1>4, TopWithType DEF TypeOK, SwitchTypeOK, PriorityTypeOK
<1>6. PortTypeOK' /\ SwitchTypeOK' /\ ControlTypeOK' /\ ControlInv'
  BY <1>1, <1>4, <1>5, YieldThenExitStep DEF vTaskPrioritySet, TypeOK, Continuation
<1>. QED BY <1>2, <1>3, <1>4, <1>6 DEF TypeOK

\* xTaskCreate makes a new task ready.
LEMMA xTaskCreateStep ==
    ASSUME IInv, NEW t \in Task, NEW x \in Task, xTaskCreate(t, x)
    PROVE  IInv'
<1>. USE DEF IInv
<1>1. t = pxCurrentTCB /\ pc[t] = "run" /\ held[t] = 0
  BY DEF xTaskCreate, At, Calls, ControlInv, SectionsByLabel
<1>2. PortTypeOK'
  BY <1>1, PortStep DEF TypeOK, xTaskCreate
<1>3. SuspendTypeOK' /\ TimeTypeOK' /\ PriorityTypeOK' /\ NotifyTypeOK' /\ AppTypeOK'
  BY UnchangedTypes DEF xTaskCreate
<1>4. ListTypeOK'
  BY DEF xTaskCreate, TypeOK, ListTypeOK, StateList
<1>5. TopWith({x}, uxPriority) \in Priority
  BY TopWithType DEF TypeOK, SwitchTypeOK, PriorityTypeOK
<1>6. SwitchTypeOK'
  BY <1>3, <1>5, SwitchStep DEF xTaskCreate, TypeOK
<1>7. ControlTypeOK'
  BY <1>1 DEF xTaskCreate, Goto, TypeOK, ControlTypeOK, Label, SchedulerLabel, Continuation,
     ControlInv, ContinuationByLabel
<1>8. ControlInv'
  BY <1>1, ApartFromObjects DEF xTaskCreate, Goto, PortTypeOK, WholeCriticalSection, NoSwitch, suspendVars,
     TypeOK, ControlTypeOK, Label, SchedulerLabel, Continuation, ControlInv, SectionsByLabel,
     SuspensionByLabel, ArgumentByLabel, ContinuationByLabel
<1>. QED BY <1>2, <1>3, <1>4, <1>6, <1>7, <1>8 DEF TypeOK

\* xTaskCreate yields to a more urgent new task.
LEMMA CreateYieldStep ==
    ASSUME IInv, NEW t \in Task, CreateYield(t)
    PROVE  IInv'
<1>. USE DEF IInv
<1>1. t = pxCurrentTCB /\ pc[t] = "createYield" /\ held[t] = 0
  BY DEF CreateYield, At, ControlInv, SectionsByLabel
<1>2. /\ PortTypeOK' /\ SuspendTypeOK' /\ TimeTypeOK' /\ ListTypeOK'
      /\ PriorityTypeOK' /\ NotifyTypeOK' /\ AppTypeOK'
  BY UnchangedTypes DEF CreateYield
<1>3. SwitchTypeOK' /\ (pxCurrentTCB' = pxCurrentTCB \/ uxSchedulerSuspended = 0)
  BY <1>2, SwitchStep DEF CreateYield, TypeOK, SwitchTypeOK
<1>4. ControlTypeOK'
  BY <1>1, TasksAssumption DEF Tick, CreateYield, Goto, PortTypeOK, TypeOK, ControlTypeOK,
     Label, SchedulerLabel, Continuation, ControlInv, SectionsByLabel, SuspensionByLabel,
     ArgumentByLabel, ContinuationByLabel
<1>5. ControlInv'
  BY <1>1, <1>3, ApartFromObjects DEF CreateYield, Goto, PortTypeOK, portVars, suspendVars, TypeOK,
     ControlTypeOK, Label, SchedulerLabel, Continuation, ControlInv, SectionsByLabel,
     SuspensionByLabel, ArgumentByLabel, ContinuationByLabel
<1>. QED BY <1>2, <1>3, <1>4, <1>5 DEF TypeOK

\* vTaskDelete takes a task out of the lists.
LEMMA vTaskDeleteStep ==
    ASSUME IInv, NEW t \in Task, NEW x \in Task, vTaskDelete(t, x)
    PROVE  IInv'
<1>. USE DEF IInv
<1>1. t = pxCurrentTCB /\ pc[t] = "run" /\ held[t] = 0
  BY DEF vTaskDelete, At, Calls, ControlInv, SectionsByLabel
<1>2. PortTypeOK'
  BY <1>1, PortStep DEF TypeOK, vTaskDelete
<1>3. SwitchTypeOK' /\ SuspendTypeOK' /\ PriorityTypeOK' /\ NotifyTypeOK'
  BY UnchangedTypes DEF vTaskDelete
<1>4. ListTypeOK' /\ AppTypeOK'
  BY DEF vTaskDelete, TypeOK, ListTypeOK, AppTypeOK, StateList, EventList
<1>5. HeadValue({u \in Task : stateList'[u] = "delayed"}, xItemValue) \in Tick
  BY HeadValueIsLeast DEF TypeOK, ListTypeOK
<1>6. TimeTypeOK'
  BY <1>5 DEF vTaskDelete, prvResetNextTaskUnblockTime, TypeOK, TimeTypeOK
<1>7. ControlTypeOK'
  BY <1>1 DEF vTaskDelete, Goto, TypeOK, ControlTypeOK, Label, SchedulerLabel, Continuation,
     ControlInv, ContinuationByLabel
<1>8. ControlInv'
  BY <1>1, ApartFromObjects DEF vTaskDelete, Goto, PortTypeOK, WholeCriticalSection, switchVars, suspendVars,
     TypeOK, ControlTypeOK, Label, SchedulerLabel, Continuation, ControlInv, SectionsByLabel,
     SuspensionByLabel, ArgumentByLabel, ContinuationByLabel
<1>. QED BY <1>2, <1>3, <1>4, <1>6, <1>7, <1>8 DEF TypeOK

\* The idle task looks at the termination list.
LEMMA IdleCheckTerminationStep ==
    ASSUME IInv, NEW t \in Task, IdleCheckTermination(t)
    PROVE  IInv'
<1>. USE DEF IInv
<1>1. t = pxCurrentTCB /\ pc[t] = "run" /\ held[t] = 0
  BY DEF IdleCheckTermination, At, ControlInv, SectionsByLabel
<1>2. /\ PortTypeOK' /\ SwitchTypeOK' /\ TimeTypeOK' /\ ListTypeOK'
      /\ PriorityTypeOK' /\ NotifyTypeOK' /\ AppTypeOK'
  BY UnchangedTypes DEF IdleCheckTermination
<1>3. SuspendTypeOK'
  BY DEF IdleCheckTermination, TypeOK, SuspendTypeOK
<1>4. ControlTypeOK'
  BY <1>1 DEF IdleCheckTermination, Goto, TypeOK, ControlTypeOK, Label, SchedulerLabel,
     Continuation, ControlInv, ContinuationByLabel
<1>5. ControlInv'
  BY <1>1 DEF IdleCheckTermination, Goto, PortTypeOK, SuspendTypeOK, portVars, switchVars,
     TypeOK, ControlTypeOK, Label, SchedulerLabel, Continuation, ControlInv, SectionsByLabel,
     SuspensionByLabel, ArgumentByLabel, ContinuationByLabel
<1>. QED BY <1>2, <1>3, <1>4, <1>5 DEF TypeOK

\* The idle task frees a deleted task.
LEMMA IdleReapStep ==
    ASSUME IInv, NEW t \in Task, IdleReap(t)
    PROVE  IInv'
<1>. USE DEF IInv
<1>1. t = pxCurrentTCB /\ pc[t] = "reap" /\ held[t] = 0
  BY DEF IdleReap, At, ControlInv, SectionsByLabel
<1>2. PortTypeOK'
  BY <1>1, PortStep DEF TypeOK, IdleReap
<1>3. /\ SwitchTypeOK' /\ SuspendTypeOK' /\ TimeTypeOK'
      /\ PriorityTypeOK' /\ NotifyTypeOK' /\ AppTypeOK'
  BY UnchangedTypes DEF IdleReap
<1>4. ListTypeOK'
  BY DEF IdleReap, TypeOK, ListTypeOK, StateList
<1>5. ControlTypeOK'
  BY <1>1 DEF IdleReap, Goto, TypeOK, ControlTypeOK, Label, SchedulerLabel, Continuation,
     ControlInv, ContinuationByLabel
<1>6. ControlInv'
  BY <1>1, ApartFromObjects DEF IdleReap, Goto, PortTypeOK, WholeCriticalSection, switchVars, suspendVars,
     TypeOK, ControlTypeOK, Label, SchedulerLabel, Continuation, ControlInv, SectionsByLabel,
     SuspensionByLabel, ArgumentByLabel, ContinuationByLabel
<1>. QED BY <1>2, <1>3, <1>4, <1>5, <1>6 DEF TypeOK

\* The first half of ulTaskNotifyTake.
LEMMA ulTaskNotifyTakeStep ==
    ASSUME IInv, NEW t \in Task, NEW n \in NotifyWaits, ulTaskNotifyTake(t, n)
    PROVE  IInv'
<1>. USE DEF IInv
<1>1. SuspendTypeOK' /\ PriorityTypeOK' /\ AppTypeOK'
  BY UnchangedTypes DEF ulTaskNotifyTake
<1>2. NotifyTypeOK'
  BY DEF ulTaskNotifyTake, notifyVars, TypeOK, NotifyTypeOK, NotifyState
<1>3. n \in Tick
  BY TasksAssumption
<1>4. /\ xNextTaskUnblockTime' \in Tick /\ stateList' \in [Task -> StateList]
      /\ xItemValue' \in [Task -> Tick]
  BY <1>3, DelayedListStep DEF ulTaskNotifyTake, TypeOK, TimeTypeOK, ListTypeOK
<1>5. TimeTypeOK' /\ ListTypeOK'
  BY <1>4 DEF ulTaskNotifyTake, TypeOK, TimeTypeOK, ListTypeOK
<1>6. uxTopReadyPriority \in Priority
  BY DEF TypeOK, SwitchTypeOK
<1>7. PortTypeOK' /\ SwitchTypeOK' /\ ControlTypeOK' /\ ControlInv'
  BY <1>1, <1>6, YieldThenExitStep DEF ulTaskNotifyTake, suspendVars, TypeOK, Continuation
<1>. QED BY <1>1, <1>2, <1>5, <1>7 DEF TypeOK

\* The first half of xTaskNotifyWait.
LEMMA xTaskNotifyWaitStep ==
    ASSUME IInv, NEW t \in Task, NEW n \in NotifyWaits, xTaskNotifyWait(t, n)
    PROVE  IInv'
<1>. USE DEF IInv
<1>1. SuspendTypeOK' /\ PriorityTypeOK' /\ AppTypeOK'
  BY UnchangedTypes DEF xTaskNotifyWait
<1>2. NotifyTypeOK'
  BY DEF xTaskNotifyWait, notifyVars, TypeOK, NotifyTypeOK, NotifyState
<1>3. n \in Tick
  BY TasksAssumption
<1>4. /\ xNextTaskUnblockTime' \in Tick /\ stateList' \in [Task -> StateList]
      /\ xItemValue' \in [Task -> Tick]
  BY <1>3, DelayedListStep DEF xTaskNotifyWait, TypeOK, TimeTypeOK, ListTypeOK
<1>5. TimeTypeOK' /\ ListTypeOK'
  BY <1>4 DEF xTaskNotifyWait, TypeOK, TimeTypeOK, ListTypeOK
<1>6. uxTopReadyPriority \in Priority
  BY DEF TypeOK, SwitchTypeOK
<1>7. PortTypeOK' /\ SwitchTypeOK' /\ ControlTypeOK' /\ ControlInv'
  BY <1>1, <1>6, YieldThenExitStep DEF xTaskNotifyWait, suspendVars, TypeOK, Continuation
<1>. QED BY <1>1, <1>2, <1>5, <1>7 DEF TypeOK

\* The second half of ulTaskNotifyTake.
LEMMA TakeNotificationStep ==
    ASSUME IInv, NEW t \in Task, TakeNotification(t)
    PROVE  IInv'
<1>. USE DEF IInv
<1>1. t = pxCurrentTCB /\ pc[t] = "take" /\ held[t] = 0
  BY DEF TakeNotification, At, ControlInv, SectionsByLabel
<1>2. PortTypeOK'
  BY <1>1, PortStep DEF TypeOK, TakeNotification
<1>3. /\ SwitchTypeOK' /\ SuspendTypeOK' /\ TimeTypeOK'
      /\ ListTypeOK' /\ PriorityTypeOK' /\ AppTypeOK'
  BY UnchangedTypes DEF TakeNotification
<1>4. NotifyTypeOK'
  BY DEF TakeNotification, TypeOK, NotifyTypeOK, NotifyState
<1>5. ControlTypeOK'
  BY <1>1 DEF TakeNotification, Goto, TypeOK, ControlTypeOK, Label, SchedulerLabel,
     Continuation, ControlInv, ContinuationByLabel
<1>6. ControlInv'
  BY <1>1, ApartFromObjects DEF TakeNotification, Goto, PortTypeOK, WholeCriticalSection, switchVars,
     suspendVars, TypeOK, ControlTypeOK, Label, SchedulerLabel, Continuation, ControlInv,
     SectionsByLabel, SuspensionByLabel, ArgumentByLabel, ContinuationByLabel
<1>. QED BY <1>2, <1>3, <1>4, <1>5, <1>6 DEF TypeOK

\* The second half of xTaskNotifyWait.
LEMMA FinishNotifyWaitStep ==
    ASSUME IInv, NEW t \in Task, FinishNotifyWait(t)
    PROVE  IInv'
<1>. USE DEF IInv
<1>1. t = pxCurrentTCB /\ pc[t] = "wait" /\ held[t] = 0
  BY DEF FinishNotifyWait, At, ControlInv, SectionsByLabel
<1>2. PortTypeOK'
  BY <1>1, PortStep DEF TypeOK, FinishNotifyWait
<1>3. /\ SwitchTypeOK' /\ SuspendTypeOK' /\ TimeTypeOK'
      /\ ListTypeOK' /\ PriorityTypeOK' /\ AppTypeOK'
  BY UnchangedTypes DEF FinishNotifyWait
<1>4. NotifyTypeOK'
  BY DEF FinishNotifyWait, TypeOK, NotifyTypeOK, NotifyState
<1>5. ControlTypeOK'
  BY <1>1 DEF FinishNotifyWait, Goto, TypeOK, ControlTypeOK, Label, SchedulerLabel,
     Continuation, ControlInv, ContinuationByLabel
<1>6. ControlInv'
  BY <1>1, ApartFromObjects DEF FinishNotifyWait, Goto, PortTypeOK, WholeCriticalSection, switchVars,
     suspendVars, TypeOK, ControlTypeOK, Label, SchedulerLabel, Continuation, ControlInv,
     SectionsByLabel, SuspensionByLabel, ArgumentByLabel, ContinuationByLabel
<1>. QED BY <1>2, <1>3, <1>4, <1>5, <1>6 DEF TypeOK

\* A notification changes the value and the state of its task.
LEMMA RecordStep ==
    ASSUME NotifyTypeOK, NEW x \in Task, NEW action, RecordNotification(x, action)
    PROVE  NotifyTypeOK'
<1>1. Updated(action, ulNotifiedValue[x], ucNotifyState[x]) \in Nat
  BY DEF NotifyTypeOK, Updated
<1>. QED BY <1>1 DEF RecordNotification, NotifyTypeOK, NotifyState

\* A task notifies another one.
LEMMA xTaskGenericNotifyStep ==
    ASSUME IInv, NEW t \in Task, NEW x \in Task, NEW action,
           xTaskGenericNotify(t, x, action)
    PROVE  IInv'
<1>. USE DEF IInv
<1>1. SuspendTypeOK' /\ TimeTypeOK' /\ PriorityTypeOK' /\ AppTypeOK'
  BY UnchangedTypes DEF xTaskGenericNotify
<1>2. NotifyTypeOK'
  BY RecordStep DEF xTaskGenericNotify, TypeOK
<1>3. ListTypeOK'
  BY DEF xTaskGenericNotify, TypeOK, ListTypeOK, StateList
<1>4. TopWith({x}, uxPriority) \in Priority /\ uxTopReadyPriority \in Priority
  BY TopWithType DEF TypeOK, SwitchTypeOK, PriorityTypeOK
<1>5. PortTypeOK' /\ SwitchTypeOK' /\ ControlTypeOK' /\ ControlInv'
  BY <1>1, <1>4, YieldThenExitStep DEF xTaskGenericNotify, suspendVars, TypeOK, Continuation
<1>. QED BY <1>1, <1>2, <1>3, <1>5 DEF TypeOK

\* An interrupt notifies a task.
LEMMA NotifyFromISRStep ==
    ASSUME IInv, NEW x \in Task, NEW action, NotifyFromISR(x, action)
    PROVE  IInv'
<1>. USE DEF IInv
<1>1. UNCHANGED <<portVars, controlVars, uxSchedulerSuspended>>
  BY DEF NotifyFromISR, InterruptMaskSection, suspendVars
<1>2. PortTypeOK'
  BY <1>1, UnchangedTypes
<1>3. SuspendTypeOK' /\ TimeTypeOK' /\ PriorityTypeOK' /\ AppTypeOK' /\ ControlTypeOK'
  BY UnchangedTypes DEF NotifyFromISR
<1>4. NotifyTypeOK'
  BY RecordStep DEF NotifyFromISR, TypeOK
<1>5. ListTypeOK'
  BY DEF NotifyFromISR, TypeOK, ListTypeOK, StateList, EventList
<1>6. TopWith({x}, uxPriority) \in Priority /\ uxTopReadyPriority \in Priority
  BY TopWithType DEF TypeOK, SwitchTypeOK, PriorityTypeOK
<1>7. SwitchTypeOK' /\ (pxCurrentTCB' = pxCurrentTCB \/ uxSchedulerSuspended = 0)
  BY <1>3, <1>6, SwitchStep DEF NotifyFromISR, TypeOK, SwitchTypeOK
<1>8. ControlInv'
  BY <1>1, <1>7, UnchangedControl DEF portVars
<1>. QED BY <1>2, <1>3, <1>4, <1>5, <1>7, <1>8 DEF TypeOK

\* xTaskNotifyStateClear forgets a notification.
LEMMA xTaskNotifyStateClearStep ==
    ASSUME IInv, NEW t \in Task, NEW x \in Task, xTaskNotifyStateClear(t, x)
    PROVE  IInv'
<1>. USE DEF IInv
<1>1. t = pxCurrentTCB /\ pc[t] = "run" /\ held[t] = 0
  BY DEF xTaskNotifyStateClear, At, Calls, ControlInv, SectionsByLabel
<1>2. PortTypeOK'
  BY <1>1, PortStep DEF TypeOK, xTaskNotifyStateClear
<1>3. /\ SwitchTypeOK' /\ SuspendTypeOK' /\ TimeTypeOK' /\ ListTypeOK'
      /\ PriorityTypeOK' /\ AppTypeOK' /\ ControlTypeOK'
  BY UnchangedTypes DEF xTaskNotifyStateClear
<1>4. NotifyTypeOK'
  BY DEF xTaskNotifyStateClear, TypeOK, NotifyTypeOK, NotifyState
<1>5. ControlInv'
  BY UnchangedControl DEF xTaskNotifyStateClear, WholeCriticalSection, switchVars,
     suspendVars
<1>. QED BY <1>2, <1>3, <1>4, <1>5 DEF TypeOK

\* A tick with the scheduler running.
LEMMA TimerTickStep ==
    ASSUME IInv, TimerTick
    PROVE  IInv'
<1>. USE DEF IInv
<1>1. /\ UNCHANGED <<portVars, controlVars>> /\ uxSchedulerSuspended = 0
      /\ uxSchedulerSuspended' = 0
  BY DEF TimerTick, suspendVars
<1>2. PortTypeOK'
  BY <1>1, UnchangedTypes
<1>3. SuspendTypeOK' /\ PriorityTypeOK' /\ NotifyTypeOK' /\ AppTypeOK' /\ ControlTypeOK'
  BY UnchangedTypes DEF TimerTick
<1>4. TimeTypeOK' /\ ListTypeOK'
  BY IncrementTickStep DEF TimerTick, TypeOK
<1>5. TopWith(WokenByTick, uxPriority) \in Priority
  BY TopWithType DEF WokenByTick, TypeOK, PriorityTypeOK, SwitchTypeOK
<1>6. SwitchTypeOK'
  BY <1>3, <1>5, SwitchStep DEF TimerTick, TypeOK
<1>7. ControlInv'
  BY <1>1, UnchangedControl DEF portVars
<1>. QED BY <1>2, <1>3, <1>4, <1>6, <1>7 DEF TypeOK

\* A tick with the scheduler suspended.
LEMMA TimerTickPendedStep ==
    ASSUME IInv, TimerTickPended
    PROVE  IInv'
<1>. USE DEF IInv
<1>1. UNCHANGED <<portVars, controlVars, switchVars, uxSchedulerSuspended>>
  BY DEF TimerTickPended, suspendVars
<1>2. /\ PortTypeOK' /\ SwitchTypeOK' /\ TimeTypeOK' /\ ListTypeOK'
      /\ PriorityTypeOK' /\ NotifyTypeOK' /\ AppTypeOK' /\ ControlTypeOK'
  BY UnchangedTypes DEF TimerTickPended
<1>3. SuspendTypeOK'
  BY DEF TimerTickPended, TypeOK, SuspendTypeOK
<1>4. ControlInv'
  BY <1>1, UnchangedControl DEF portVars, switchVars
<1>. QED BY <1>2, <1>3, <1>4 DEF TypeOK

---------------------------------------------------------------------------
(* The theorem *)

\* The initial states satisfy the invariant.
LEMMA InitIInv == Init => IInv
<1>. SUFFICES ASSUME Init PROVE IInv
  OBVIOUS
<1>. USE TasksAssumption, PortAssumption DEF Init, vPortSetup
<1>1. PortTypeOK /\ SuspendTypeOK
  BY SyscallMaskType DEF PortTypeOK, SuspendTypeOK
<1>2. PriorityTypeOK /\ NotifyTypeOK
  BY DEF PriorityTypeOK, NotifyTypeOK, NotifyState
<1>3. SwitchTypeOK
  BY DEF SwitchTypeOK, Ready, In
<1>4. TimeTypeOK /\ ListTypeOK /\ AppTypeOK
  BY DEF TimeTypeOK, ListTypeOK, AppTypeOK, Tick, portMAX_DELAY, StateList, EventList
<1>5. ControlTypeOK
  BY DEF ControlTypeOK, Label, SchedulerLabel, Continuation, Tick
<1>6. ControlInv
  BY DEF ControlInv, SectionsByLabel, SuspensionByLabel, ArgumentByLabel, ContinuationByLabel
<1>. QED BY <1>1, <1>2, <1>3, <1>4, <1>5, <1>6 DEF IInv, TypeOK

\* Every step keeps it.
LEMMA NextIInv == IInv /\ [Next]_vars => IInv'
<1>. SUFFICES ASSUME IInv, [Next]_vars PROVE IInv'
  OBVIOUS
<1>1. CASE UNCHANGED vars
  BY <1>1, UnchangedTypes, UnchangedControl
  DEF IInv, TypeOK, vars, portVars, suspendVars, switchVars
<1>2. CASE Interrupt
  <2>1. \A x \in Task : \A action : NotifyFromISR(x, action) => IInv'
    BY NotifyFromISRStep
  <2>. QED BY <1>2, <2>1, TasksAssumption, TimerTickStep, TimerTickPendedStep,
           xTaskResumeFromISRStep DEF Interrupt
<1>3. ASSUME NEW t \in Task, Continue(t) PROVE IInv'
  BY <1>3, ExitCriticalStep, MovePendingReadyStep, ReplayTickStep, FinishResumeAllStep,
     DelayCurrentStep, DelayCurrentUntilStep, ResetUnblockTimeStep, CreateYieldStep,
     IdleReapStep, TakeNotificationStep, FinishNotifyWaitStep DEF Continue
<1>4. ASSUME NEW t \in Task, Call(t) PROVE IInv'
  <2>1. ASSUME NEW x \in Task PROVE /\ vTaskSuspend(t, x) \/ vTaskResume(t, x) => IInv'
                                    /\ xTaskCreate(t, x) \/ vTaskDelete(t, x) => IInv'
    BY vTaskSuspendStep, vTaskResumeStep, xTaskCreateStep, vTaskDeleteStep
  <2>2. ASSUME NEW x \in Task, NEW p \in NewPriorities, vTaskPrioritySet(t, x, p) PROVE IInv'
    BY <2>2, vTaskPrioritySetStep
  <2>3. ASSUME NEW n \in NotifyWaits, ulTaskNotifyTake(t, n) \/ xTaskNotifyWait(t, n) PROVE IInv'
    BY <2>3, ulTaskNotifyTakeStep, xTaskNotifyWaitStep
  <2>4. ASSUME NEW x \in Task, NEW action,
               xTaskGenericNotify(t, x, action) \/ xTaskNotifyStateClear(t, x) PROVE IInv'
    BY <2>4, xTaskGenericNotifyStep, xTaskNotifyStateClearStep
  <2>5. Unborn \subseteq Task /\ Suspendable \subseteq Task /\ Deletable \subseteq Task
        /\ Notifiable \subseteq Task
    BY TasksAssumption
  <2>. QED BY <1>4, <2>1, <2>2, <2>3, <2>4, <2>5,
           UserEnterCriticalStep, UserExitCriticalStep, vTaskSuspendAllStep,
           UserResumeAllStep, vTaskDelayStep, vTaskDelayUntilStep,
           IdleCheckTerminationStep DEF Call
<1>. QED BY <1>1, <1>2, <1>3, <1>4, YieldStep DEF Next

\* The invariant holds in every reachable state.
LEMMA AlwaysIInv == Spec => []IInv
  BY InitIInv, NextIInv, PTL DEF Spec

(***************************************************************************)
(* Every variable of the scheduler and the port keeps its type: no delay,  *)
(* wrap or replay leaves the tick range, no priority change leaves the     *)
(* ready lists there are, no section nests deeper than MaxNesting.         *)
(***************************************************************************)
THEOREM TypeCorrect == Spec => []TypeOK
  BY AlwaysIInv, PTL DEF IInv

\* At every program point a task has the sections open and the suspension in force that the
\* code there relies on.
THEOREM ControlCorrect == Spec => []ControlInv
  BY AlwaysIInv, PTL DEF IInv
---------------------------------------------------------------------------
(* The critical sections of the port, for any number of tasks and any      *)
(* nesting: the one counter is the sum of what the tasks hold, although    *)
(* they are switched out and in inside their sections, and no interrupt    *)
(* that calls the kernel comes in while any of them is in a section.  From *)
(* this follows what vTaskSuspendAll and xTaskResumeAll promise.           *)

\* The counter and the threshold agree.
MaskFollowsNesting == uxCriticalNesting > 0 => mth = SyscallMask

\* The inductive invariant; with it goes IInv, which says who may leave a section.
SInv == NestingIsSum /\ MaskFollowsNesting

\* The open sections are a finite set.
LEMMA OpenSectionsFinite == IsFiniteSet(OpenSections) /\ Cardinality(OpenSections) \in Nat
<1>1. IsFiniteSet(1 .. MaxNesting)
  BY FS_Interval, PortAssumption
<1>2. IsFiniteSet(Task \X (1 .. MaxNesting))
  BY <1>1, FS_Product, PortAssumption
<1>3. IsFiniteSet(OpenSections)
  BY <1>2, FS_Subset DEF OpenSections
<1>. QED BY <1>3, FS_CardinalityType

\* Entering a section opens one more.
LEMMA EnterOpens ==
    ASSUME PortTypeOK, NEW t \in Task, held[t] < MaxNesting, vPortEnterCritical(t)
    PROVE  Cardinality(OpenSections') = Cardinality(OpenSections) + 1
<1>. DEFINE s == <<t, held[t] + 1>>
<1>1. s \in Task \X (1 .. MaxNesting) /\ s \notin OpenSections
  BY PortAssumption DEF PortTypeOK, OpenSections
<1>2. held' = [held EXCEPT ![t] = @ + 1] /\ held \in [Task -> 0 .. MaxNesting]
  BY DEF vPortEnterCritical, PortTypeOK
<1>3. \A u \in Task, n \in 1 .. MaxNesting :
          n <= held'[u] <=> n <= held[u] \/ (u = t /\ n = held[t] + 1)
  BY <1>2, PortAssumption
<1>4. OpenSections' = OpenSections \union {s}
  BY <1>1, <1>3 DEF OpenSections
<1>. QED BY <1>1, <1>4, OpenSectionsFinite, FS_AddElement

\* Leaving a section closes one.
LEMMA ExitCloses ==
    ASSUME PortTypeOK, NEW t \in Task, held[t] > 0, vPortExitCritical(t)
    PROVE  Cardinality(OpenSections') = Cardinality(OpenSections) - 1
<1>. DEFINE s == <<t, held[t]>>
<1>1. s \in Task \X (1 .. MaxNesting) /\ s \in OpenSections
  BY PortAssumption DEF PortTypeOK, OpenSections
<1>2. held' = [held EXCEPT ![t] = @ - 1] /\ held \in [Task -> 0 .. MaxNesting]
  BY DEF vPortExitCritical, PortTypeOK
<1>3. \A u \in Task, n \in 1 .. MaxNesting :
          n <= held'[u] <=> n <= held[u] /\ ~ (u = t /\ n = held[t])
  BY <1>2, PortAssumption
<1>4. OpenSections' = OpenSections \ {s}
  BY <1>1, <1>3 DEF OpenSections
<1>. QED BY <1>1, <1>4, OpenSectionsFinite, FS_RemoveElement

\* What a step does to the port: one task enters or leaves a section, or nothing is left open.
LEMMA PortMoves ==
    ASSUME IInv, [Next]_vars
    PROVE  \/ \E t \in Task : vPortEnterCritical(t) /\ held[t] < MaxNesting
           \/ \E t \in Task : vPortExitCritical(t) /\ held[t] > 0
           \/ WholeCriticalSection
           \/ UNCHANGED portVars
<1>. DEFINE Move == \/ \E t \in Task : vPortEnterCritical(t) /\ held[t] < MaxNesting
                    \/ \E t \in Task : vPortExitCritical(t) /\ held[t] > 0
                    \/ WholeCriticalSection
                    \/ UNCHANGED portVars
<1>1. CASE UNCHANGED vars
  BY <1>1 DEF vars
<1>2. CASE Interrupt
  BY <1>2 DEF Interrupt, TimerTick, TimerTickPended, NotifyFromISR, xTaskResumeFromISR,
     InterruptMaskSection
<1>3. ASSUME NEW t \in Task, NEW yields, NEW next, NEW top, Calls(t),
             YieldThenExit(t, yields, next, top)
      PROVE  Move
  <2>1. held[t] < MaxNesting
    BY <1>3, PortAssumption DEF Calls, At, IInv, ControlInv, SectionsByLabel
  <2>. QED BY <1>3, <2>1 DEF YieldThenExit
<1>4. ASSUME NEW t \in Task, Continue(t) PROVE Move
  <2>1. CASE ExitCritical(t)
    BY <2>1 DEF ExitCritical, At, IInv, ControlInv, SectionsByLabel
  <2>2. CASE MovePendingReady(t)
    BY <2>2, PortAssumption DEF MovePendingReady, At, IInv, ControlInv, SectionsByLabel
  <2>. QED
    BY <1>4, <2>1, <2>2 DEF Continue, ReplayTick, FinishResumeAll, DelayCurrent,
       DelayCurrentUntil, ResetUnblockTime, CreateYield, IdleReap, TakeNotification,
       FinishNotifyWait
<1>5. ASSUME NEW t \in Task, Call(t) PROVE Move
  <2>1. CASE UserEnterCritical(t)
    BY <2>1 DEF UserEnterCritical
  <2>2. CASE UserExitCritical(t)
    BY <2>2 DEF UserExitCritical, At, IInv, ControlInv, SectionsByLabel
  <2>3. CASE \/ vTaskSuspendAll(t) \/ UserResumeAll(t) \/ vTaskDelay(t) \/ vTaskDelayUntil(t)
             \/ IdleCheckTermination(t)
    BY <2>3 DEF vTaskSuspendAll, UserResumeAll, vTaskDelay, vTaskDelayUntil,
       IdleCheckTermination
  <2>4. ASSUME NEW x \in Task, vTaskSuspend(t, x) \/ vTaskResume(t, x) PROVE Move
    BY <1>3, <2>4 DEF vTaskSuspend, vTaskResume
  <2>5. ASSUME NEW x \in Task, NEW p, vTaskPrioritySet(t, x, p) PROVE Move
    BY <1>3, <2>5 DEF vTaskPrioritySet
  <2>6. ASSUME NEW x \in Task, xTaskCreate(t, x) \/ vTaskDelete(t, x) PROVE Move
    BY <2>6 DEF xTaskCreate, vTaskDelete
  <2>7. ASSUME NEW n, ulTaskNotifyTake(t, n) \/ xTaskNotifyWait(t, n) PROVE Move
    BY <1>3, <2>7 DEF ulTaskNotifyTake, xTaskNotifyWait
  <2>8. ASSUME NEW x, NEW action, xTaskGenericNotify(t, x, action) PROVE Move
    BY <1>3, <2>8 DEF xTaskGenericNotify
  <2>9. ASSUME NEW x, xTaskNotifyStateClear(t, x) PROVE Move
    BY <2>9 DEF xTaskNotifyStateClear
  <2>10. Unborn \subseteq Task /\ Suspendable \subseteq Task /\ Deletable \subseteq Task
    BY TasksAssumption
  <2>. QED
    BY <1>5, <2>1, <2>2, <2>3, <2>4, <2>5, <2>6, <2>7, <2>8, <2>9, <2>10 DEF Call
<1>6. ASSUME NEW t \in Task, Yield(t) PROVE Move
  BY <1>6 DEF Yield
<1>. QED BY <1>1, <1>2, <1>4, <1>5, <1>6 DEF Next

\* No section is open at the start, and the counter is 0.
LEMMA InitSInv == Init => SInv
<1>. SUFFICES ASSUME Init PROVE SInv
  OBVIOUS
<1>1. OpenSections = {}
  BY PortAssumption DEF Init, vPortSetup, OpenSections
<1>. QED BY <1>1, FS_EmptySet DEF SInv, NestingIsSum, MaskFollowsNesting, Init, vPortSetup

\* Every step keeps the counter and the sections together.
LEMMA NextSInv == IInv /\ SInv /\ [Next]_vars => SInv'
<1>. SUFFICES ASSUME IInv, SInv, [Next]_vars PROVE SInv'
  OBVIOUS
<1>. USE DEF SInv, NestingIsSum, MaskFollowsNesting
<1>1. PortTypeOK /\ Cardinality(OpenSections) \in Nat
  BY OpenSectionsFinite DEF IInv, TypeOK
<1>2. ASSUME NEW t \in Task, vPortEnterCritical(t), held[t] < MaxNesting PROVE SInv'
  BY <1>1, <1>2, EnterOpens DEF vPortEnterCritical
<1>3. ASSUME NEW t \in Task, vPortExitCritical(t), held[t] > 0 PROVE SInv'
  <2>1. Cardinality(OpenSections') = Cardinality(OpenSections) - 1
    BY <1>1, <1>3, ExitCloses
  <2>2. NestingIsSum'
    BY <1>1, <1>3, <2>1 DEF vPortExitCritical
  <2>3. MaskFollowsNesting'
    BY <1>1, <1>3 DEF vPortExitCritical, PortTypeOK
  <2>. QED BY <2>2, <2>3
<1>4. CASE UNCHANGED held /\ UNCHANGED uxCriticalNesting /\ (WholeCriticalSection \/ UNCHANGED mth)
  <2>1. OpenSections' = OpenSections
    BY <1>4 DEF OpenSections
  <2>. QED BY <1>1, <1>4, <2>1 DEF WholeCriticalSection
<1>5. WholeCriticalSection \/ UNCHANGED portVars =>
          /\ UNCHANGED held /\ UNCHANGED uxCriticalNesting
          /\ WholeCriticalSection \/ UNCHANGED mth
  BY DEF WholeCriticalSection, portVars
<1>. QED
  <2>. HIDE DEF SInv
  <2>. QED BY <1>2, <1>3, <1>4, <1>5, PortMoves

(***************************************************************************)
(* The global uxCriticalNesting is the number of sections that all tasks   *)
(* together have open (vPortEnterCritical, vPortExitCritical of port.c).   *)
(***************************************************************************)
THEOREM NestingCorrect == Spec => []NestingIsSum
<1>1. IInv /\ SInv => NestingIsSum
  BY DEF SInv
<1>. QED BY <1>1, InitSInv, NextSInv, AlwaysIInv, PTL DEF Spec

(***************************************************************************)
(* While any task is inside a critical section, running or switched out,   *)
(* no interrupt that calls the kernel is let in.                           *)
(***************************************************************************)
THEOREM SectionsAreMasked == Spec => []SectionsMaskInterrupts
<1>1. IInv /\ SInv => SectionsMaskInterrupts
  <2>. SUFFICES ASSUME IInv, SInv, NEW t \in Task, held[t] > 0 PROVE mth # 0
    BY DEF SectionsMaskInterrupts, InterruptsEnabled
  <2>1. <<t, 1>> \in OpenSections
    BY PortAssumption DEF OpenSections, IInv, TypeOK, PortTypeOK
  <2>2. Cardinality(OpenSections) # 0
    BY <2>1, OpenSectionsFinite, FS_EmptySet
  <2>. QED
    BY <2>2, OpenSectionsFinite, SyscallMaskType DEF SInv, NestingIsSum, MaskFollowsNesting
<1>. QED BY <1>1, InitSInv, NextSInv, AlwaysIInv, PTL DEF Spec
---------------------------------------------------------------------------
(* What vTaskSuspendAll protects, and what xTaskResumeAll leaves *)

\* While the loop of xTaskResumeAll has ticks to replay, nothing else can happen: its section
\* keeps the interrupts out, and the task makes no other call.
LEMMA OnlyReplay ==
    ASSUME IInv, SectionsMaskInterrupts, pc[pxCurrentTCB] = "replay", uxPendedTicks > 0, Next
    PROVE  ReplayTick(pxCurrentTCB)
<1>1. held[pxCurrentTCB] > 0
  BY DEF IInv, TypeOK, SwitchTypeOK, ControlInv, SectionsByLabel
<1>2. ~InterruptsEnabled
  BY <1>1 DEF SectionsMaskInterrupts, IInv, TypeOK, SwitchTypeOK
<1>3. ~Interrupt
  BY <1>2 DEF Interrupt, TimerTick, TimerTickPended, NotifyFromISR, xTaskResumeFromISR,
     InterruptMaskSection
<1>4. ASSUME NEW t \in Task, Call(t) \/ Yield(t) PROVE FALSE
  BY <1>4 DEF Call, Yield, Calls, At, UserEnterCritical, UserExitCritical, vTaskSuspendAll,
     UserResumeAll, vTaskDelay, vTaskDelayUntil, vTaskSuspend, vTaskResume, vTaskPrioritySet,
     xTaskCreate, vTaskDelete, IdleCheckTermination, ulTaskNotifyTake, xTaskNotifyWait,
     xTaskGenericNotify, xTaskNotifyStateClear
<1>5. ASSUME NEW t \in Task, Continue(t) PROVE t = pxCurrentTCB /\ ReplayTick(t)
  <2>1. ~FinishResumeAll(t)
    BY DEF FinishResumeAll
  <2>2. ~ (\/ ExitCritical(t) \/ MovePendingReady(t) \/ DelayCurrent(t)
           \/ DelayCurrentUntil(t) \/ ResetUnblockTime(t) \/ CreateYield(t) \/ IdleReap(t)
           \/ TakeNotification(t) \/ FinishNotifyWait(t))
    BY DEF At, ExitCritical, MovePendingReady, DelayCurrent, DelayCurrentUntil,
       ResetUnblockTime, CreateYield, IdleReap, TakeNotification, FinishNotifyWait
  <2>3. ReplayTick(t)
    BY <1>5, <2>1, <2>2 DEF Continue
  <2>. QED BY <2>3 DEF ReplayTick, At
<1>. QED BY <1>3, <1>4, <1>5 DEF Next

\* How a step may change the pending work while the scheduler is not left suspended.
LEMMA PendingMoves ==
    ASSUME IInv, Next
    PROVE  \/ uxSchedulerSuspended' # 0
           \/ MovePendingReady(pxCurrentTCB) /\ uxSchedulerSuspended = 1
           \/ ReplayTick(pxCurrentTCB)
           \/ /\ UNCHANGED suspendVars
              /\ \A u \in Task : eventList'[u] = "pending" => eventList[u] = "pending"
<1>. DEFINE Keeps == /\ UNCHANGED suspendVars
                     /\ \A u \in Task : eventList'[u] = "pending" => eventList[u] = "pending"
<1>1. eventList \in [Task -> EventList] /\ uxSchedulerSuspended \in Nat
  BY DEF IInv, TypeOK, ListTypeOK, SuspendTypeOK
<1>2. CASE Interrupt
  <2>1. CASE TimerTick
    <3>1. \A u \in Task : eventList'[u] = "pending" => eventList[u] = "pending"
      BY <2>1 DEF TimerTick, xTaskIncrementTick
    <3>. QED BY <2>1, <3>1 DEF TimerTick
  <2>2. CASE TimerTickPended
    BY <2>2 DEF TimerTickPended
  <2>3. ASSUME NEW x, NEW action, NotifyFromISR(x, action)
        PROVE  Keeps \/ uxSchedulerSuspended' # 0
    BY <1>1, <2>3 DEF NotifyFromISR, suspendVars
  <2>4. ASSUME NEW x, xTaskResumeFromISR(x) PROVE Keeps \/ uxSchedulerSuspended' # 0
    BY <1>1, <2>4 DEF xTaskResumeFromISR, suspendVars
  <2>. QED BY <1>2, <2>1, <2>2, <2>3, <2>4 DEF Interrupt
<1>3. ASSUME NEW t \in Task, Continue(t)
      PROVE  \/ Keeps
             \/ t = pxCurrentTCB /\ ReplayTick(t)
             \/ t = pxCurrentTCB /\ MovePendingReady(t) /\ uxSchedulerSuspended = 1
             \/ uxSchedulerSuspended' # 0
  <2>1. CASE MovePendingReady(t)
    <3>1. t = pxCurrentTCB /\ uxSchedulerSuspended > 0
      BY <2>1 DEF MovePendingReady, At, IInv, ControlInv, SuspensionByLabel
    <3>2. uxSchedulerSuspended' = uxSchedulerSuspended - 1
      BY <2>1 DEF MovePendingReady
    <3>. QED BY <1>1, <2>1, <3>1, <3>2
  <2>2. CASE ReplayTick(t)
    BY <2>2 DEF ReplayTick, At
  <2>3. CASE \/ ExitCritical(t) \/ FinishResumeAll(t) \/ DelayCurrent(t)
             \/ DelayCurrentUntil(t) \/ ResetUnblockTime(t) \/ CreateYield(t) \/ IdleReap(t)
             \/ TakeNotification(t) \/ FinishNotifyWait(t)
    BY <2>3 DEF ExitCritical, FinishResumeAll, DelayCurrent, DelayCurrentUntil,
       ResetUnblockTime, CreateYield, IdleReap, TakeNotification, FinishNotifyWait, listVars
  <2>. QED BY <1>3, <2>1, <2>2, <2>3 DEF Continue
<1>4. ASSUME NEW t \in Task, Call(t) \/ Yield(t) PROVE Keeps \/ uxSchedulerSuspended' # 0
  <2>1. CASE \/ UserEnterCritical(t) \/ UserExitCritical(t) \/ vTaskSuspendAll(t)
             \/ UserResumeAll(t) \/ vTaskDelay(t) \/ vTaskDelayUntil(t)
             \/ IdleCheckTermination(t) \/ Yield(t)
    BY <1>1, <2>1 DEF UserEnterCritical, UserExitCritical, vTaskSuspendAll, UserResumeAll,
       vTaskDelay, vTaskDelayUntil, IdleCheckTermination, Yield, listVars
  <2>2. ASSUME NEW x, \/ vTaskSuspend(t, x) \/ vTaskResume(t, x) \/ xTaskCreate(t, x)
                      \/ vTaskDelete(t, x) \/ xTaskNotifyStateClear(t, x)
        PROVE  Keeps
    BY <1>1, <2>2 DEF vTaskSuspend, vTaskResume, xTaskCreate, vTaskDelete,
       xTaskNotifyStateClear, listVars
  <2>3. ASSUME NEW x, NEW p, vTaskPrioritySet(t, x, p) \/ xTaskGenericNotify(t, x, p)
        PROVE  Keeps
    BY <2>3 DEF vTaskPrioritySet, xTaskGenericNotify
  <2>4. ASSUME NEW n, ulTaskNotifyTake(t, n) \/ xTaskNotifyWait(t, n) PROVE Keeps
    BY <2>4 DEF ulTaskNotifyTake, xTaskNotifyWait
  <2>. QED BY <1>4, <2>1, <2>2, <2>3, <2>4 DEF Call
<1>. QED BY <1>2, <1>3, <1>4 DEF Next

\* Every step leaves nothing pending once the scheduler runs.
LEMMA StepLeavesNothing ==
    ASSUME IInv, IInv', SectionsMaskInterrupts, NothingLeftPending, [Next]_vars
    PROVE  NothingLeftPending'
<1>. SUFFICES ASSUME uxSchedulerSuspended' = 0
              PROVE  /\ PendingReady' = {}
                     /\ uxPendedTicks' > 0 => pc'[pxCurrentTCB'] = "replay"
  BY DEF NothingLeftPending
<1>1. /\ eventList \in [Task -> EventList] /\ pc \in [Task -> Label]
      /\ pxCurrentTCB \in Task /\ uxPendedTicks \in Nat /\ uxPendedTicks' \in Nat
  BY DEF IInv, TypeOK, ListTypeOK, ControlTypeOK, SwitchTypeOK, SuspendTypeOK
<1>2. CASE UNCHANGED vars
  BY <1>2 DEF vars, suspendVars, listVars, controlVars, switchVars, NothingLeftPending,
     PendingReady
<1>3. CASE Next
  <2>1. CASE MovePendingReady(pxCurrentTCB) /\ uxSchedulerSuspended = 1
    BY <1>1, <2>1 DEF MovePendingReady, Goto, PendingReady
  <2>2. CASE ReplayTick(pxCurrentTCB)
    <3>1. /\ \A u \in Task : eventList'[u] = "pending" => eventList[u] = "pending"
          /\ pc'[pxCurrentTCB'] = "replay" /\ uxSchedulerSuspended = 0
      BY <2>2 DEF ReplayTick, At, xTaskIncrementTick, controlVars
    <3>. QED BY <3>1 DEF NothingLeftPending, PendingReady
  <2>3. CASE /\ UNCHANGED suspendVars
             /\ \A u \in Task : eventList'[u] = "pending" => eventList[u] = "pending"
    <3>1. PendingReady = {} /\ (uxPendedTicks > 0 => pc[pxCurrentTCB] = "replay")
      BY <2>3 DEF suspendVars, NothingLeftPending
    <3>2. PendingReady' = {}
      BY <2>3, <3>1 DEF PendingReady
    <3>3. CASE uxPendedTicks > 0
      BY <1>3, <2>2, <3>1, <3>3, OnlyReplay
    <3>4. CASE ~(uxPendedTicks > 0)
      BY <2>3, <3>2, <3>4 DEF suspendVars
    <3>. QED BY <3>3, <3>4
  <2>. QED BY <1>3, <2>1, <2>2, <2>3, PendingMoves
<1>. QED BY <1>2, <1>3

(***************************************************************************)
(* What interrupts put off while the scheduler was suspended is done when  *)
(* xTaskResumeAll is over: xPendingReadyList is empty and every pended     *)
(* tick is replayed before anything else happens.                          *)
(***************************************************************************)
THEOREM PendingWorkIsDone == Spec => []NothingLeftPending
<1>1. Init => NothingLeftPending
  BY DEF Init, NothingLeftPending, PendingReady
<1>. QED BY <1>1, StepLeavesNothing, SectionsAreMasked, AlwaysIInv, PTL DEF Spec

(***************************************************************************)
(* vTaskSuspendAll gives the lists to the running task: it is not switched *)
(* out, and no interrupt touches the ready and delayed lists or the time.  *)
(***************************************************************************)
THEOREM SuspensionIsolates == Spec => SuspendedSchedulerIsolates
<1>. DEFINE Isolates ==
        uxSchedulerSuspended > 0 =>
          /\ pxCurrentTCB' # pxCurrentTCB => uxSchedulerSuspended' = 0
          /\ Interrupt => UNCHANGED <<stateList, xItemValue, xTickCount, xNextTaskUnblockTime>>
<1>1. ASSUME IInv, Next, uxSchedulerSuspended > 0 PROVE Isolates
  <2>. DEFINE Stays == pxCurrentTCB' = pxCurrentTCB
  <2>1. uxSchedulerSuspended # 0
    BY <1>1 DEF IInv, TypeOK, SuspendTypeOK
  <2>2. \A top : vTaskSwitchContext(top) \/ NoSwitch(top) => Stays
    BY <2>1 DEF vTaskSwitchContext, NoSwitch
  <2>3. CASE Interrupt
    BY <2>1, <2>2, <2>3 DEF Interrupt, TimerTick, TimerTickPended, NotifyFromISR,
       xTaskResumeFromISR, listVars, timeVars, switchVars
  <2>4. ASSUME NEW t \in Task, Continue(t) \/ Yield(t) PROVE Stays
    BY <2>2, <2>4 DEF Continue, Yield, ExitCritical, MovePendingReady, ReplayTick,
       FinishResumeAll, DelayCurrent, DelayCurrentUntil, ResetUnblockTime, CreateYield,
       IdleReap, TakeNotification, FinishNotifyWait, switchVars
  <2>5. ASSUME NEW t \in Task, Call(t) PROVE Stays
    <3>1. \A yields, next, top : YieldThenExit(t, yields, next, top) => Stays
      BY <2>2 DEF YieldThenExit
    <3>. QED BY <2>2, <2>5, <3>1 DEF Call, UserEnterCritical, UserExitCritical,
         vTaskSuspendAll, UserResumeAll, vTaskDelay, vTaskDelayUntil, vTaskSuspend,
         vTaskResume, vTaskPrioritySet, xTaskCreate, vTaskDelete, IdleCheckTermination,
         ulTaskNotifyTake, xTaskNotifyWait, xTaskGenericNotify, xTaskNotifyStateClear,
         switchVars
  <2>6. Stays
    BY <1>1, <2>3, <2>4, <2>5, <2>2 DEF Next, Interrupt, TimerTick, TimerTickPended,
       NotifyFromISR, xTaskResumeFromISR, switchVars
  <2>. QED BY <2>3, <2>6
<1>2. IInv /\ [Next]_vars => [Isolates]_vars
  BY <1>1
<1>. QED BY <1>2, AlwaysIInv, PTL DEF Spec, SuspendedSchedulerIsolates
---------------------------------------------------------------------------
(* The delayed lists and the tick, for every width of TickType_t: nobody   *)
(* sleeps past his wake time, also across the wrap of the count and the    *)
(* exchange of the lists, and a tick wakes a task at its wake time.        *)

\* A step that takes tasks out of the delayed lists at most, and that keeps
\* xNextTaskUnblockTime or sets it to the head of the list.
LeavesLists ==
    /\ UNCHANGED <<xItemValue, xTickCount>>
    /\ \A u \in Task : stateList'[u] \in {"delayed", "overflow"} => stateList'[u] = stateList[u]
    /\ \/ UNCHANGED xNextTaskUnblockTime
       \/ xNextTaskUnblockTime' = HeadValue({u \in Task : stateList'[u] = "delayed"}, xItemValue)

\* A step that puts one task into a delayed list, for a delay that is not zero.
Delays1(t, n, b) ==
    /\ prvAddCurrentTaskToDelayedList(t, n, b)
    /\ UNCHANGED xTickCount

\* Leaving the lists keeps the others not due.
LEMMA LeavesListsKeeps ==
    ASSUME IInv, DelayedAreNotDue, LeavesLists
    PROVE  DelayedAreNotDue'
<1>1. HeadValue({u \in Task : stateList'[u] = "delayed"}, xItemValue) \in Tick
      /\ \A u \in Task : stateList'[u] = "delayed" =>
             HeadValue({v \in Task : stateList'[v] = "delayed"}, xItemValue) <= xItemValue[u]
  BY HeadValueIsLeast DEF IInv, TypeOK, ListTypeOK
<1>. QED BY <1>1 DEF LeavesLists, DelayedAreNotDue

\* A task that is delayed wakes after the present tick, or after the wrap.
LEMMA DelaysKeeps ==
    ASSUME IInv, DelayedAreNotDue, NEW t \in Task, NEW n \in Tick \ {0}, NEW b \in BOOLEAN,
           Delays1(t, n, b)
    PROVE  DelayedAreNotDue'
<1>. DEFINE w == Wrap(xTickCount + n)
<1>1. xTickCount \in Nat /\ xTickCount < TickMod /\ n \in Nat /\ n > 0 /\ n < TickMod
  BY TasksAssumption DEF IInv, TypeOK, TimeTypeOK, Tick
<1>2. w \in Nat /\ w # xTickCount
  BY <1>1, TasksAssumption DEF Wrap
<1>3. /\ xItemValue \in [Task -> Nat] /\ xNextTaskUnblockTime \in Nat
      /\ stateList \in [Task -> StateList]
  BY TasksAssumption DEF IInv, TypeOK, ListTypeOK, TimeTypeOK, Tick
<1>4. CASE n = portMAX_DELAY /\ b
  BY <1>3, <1>4 DEF Delays1, prvAddCurrentTaskToDelayedList, DelayedAreNotDue
<1>5. CASE ~ (n = portMAX_DELAY /\ b)
  <2>1. xItemValue' = [xItemValue EXCEPT ![t] = w] /\ xTickCount' = xTickCount
    BY <1>5 DEF Delays1, prvAddCurrentTaskToDelayedList
  <2>2. \/ /\ w < xTickCount
           /\ stateList' = [stateList EXCEPT ![t] = "overflow"]
           /\ UNCHANGED xNextTaskUnblockTime
        \/ /\ w >= xTickCount
           /\ stateList' = [stateList EXCEPT ![t] = "delayed"]
           /\ xNextTaskUnblockTime' = IF w < xNextTaskUnblockTime THEN w
                                      ELSE xNextTaskUnblockTime
    BY <1>5 DEF Delays1, prvAddCurrentTaskToDelayedList
  <2>. HIDE DEF w
  <2>. QED BY <1>1, <1>2, <1>3, <2>1, <2>2 DEF DelayedAreNotDue
<1>. QED BY <1>4, <1>5

\* A tick makes ready exactly the tasks whose time it is, and leaves nobody due.
LEMMA TickKeeps ==
    ASSUME IInv, DelayedAreNotDue, xTaskIncrementTick
    PROVE  /\ DelayedAreNotDue'
           /\ \A t \in Task :
                  stateList[t] \in {"delayed", "overflow"} /\ stateList'[t] = "ready"
                  => xItemValue[t] = xTickCount'
<1>. DEFINE now == Wrap(xTickCount + 1)
            lists == IF now = 0 THEN [t \in Task |-> Switched(stateList[t])] ELSE stateList
            delayed == {t \in Task : lists[t] = "delayed"}
            unblockTime == IF now = 0 THEN HeadValue(delayed, xItemValue)
                           ELSE xNextTaskUnblockTime
            woken == IF now >= unblockTime THEN {t \in delayed : xItemValue[t] <= now} ELSE {}
            head == HeadValue(delayed \ woken, xItemValue)
<1>1. xTickCount \in Nat /\ xTickCount < TickMod /\ TickMod \in Nat
  BY TasksAssumption DEF IInv, TypeOK, TimeTypeOK, Tick
<1>2. \A t \in Task : xItemValue[t] \in Nat /\ xItemValue[t] < TickMod
  BY TasksAssumption DEF IInv, TypeOK, ListTypeOK, Tick
<1>3. \/ now = 0 /\ xTickCount = TickMod - 1
      \/ now = xTickCount + 1 /\ now # 0
  BY <1>1 DEF Wrap
<1>4. \A t \in Task : /\ lists[t] = "delayed" => xItemValue[t] >= now
                      /\ lists[t] = "overflow" => xItemValue[t] < now
                      /\ lists[t] \in {"delayed", "overflow"} \/ lists[t] = stateList[t]
                      /\ lists[t] = "ready" <=> stateList[t] = "ready"
  <2>1. CASE now = 0
    <3>1. \A t \in Task : stateList[t] # "delayed"
      BY <1>1, <1>2, <1>3, <2>1 DEF DelayedAreNotDue
    <3>. QED BY <1>2, <2>1, <3>1 DEF Switched
  <2>2. CASE now # 0
    BY <1>1, <1>2, <1>3, <2>2 DEF DelayedAreNotDue
  <2>. QED BY <2>1, <2>2
<1>5. delayed \in SUBSET Task /\ woken \in SUBSET Task /\ delayed \ woken \in SUBSET Task
  OBVIOUS
<1>6. /\ \A t \in delayed : HeadValue(delayed, xItemValue) <= xItemValue[t]
      /\ HeadValue(delayed, xItemValue) \in Tick
      /\ \A t \in delayed \ woken : head <= xItemValue[t]
      /\ head \in Tick
  <2>. HIDE DEF delayed, woken
  <2>. QED BY <1>5, HeadValueIsLeast DEF IInv, TypeOK, ListTypeOK
<1>7. \A t \in delayed : unblockTime <= xItemValue[t]
  BY <1>6 DEF DelayedAreNotDue
<1>8. unblockTime \in Nat /\ head \in Nat /\ now \in Nat
  <2>1. HeadValue(delayed, xItemValue) \in Nat /\ head \in Nat /\ xNextTaskUnblockTime \in Nat
    <3>. HIDE DEF delayed, head
    <3>. QED BY <1>6, TasksAssumption DEF IInv, TypeOK, TimeTypeOK, Tick
  <2>2. now \in Nat
    BY <1>1, <1>3
  <2>. QED BY <2>1, <2>2
<1>9. \A t \in delayed \ woken : xItemValue[t] > now
  <2>1. CASE now >= unblockTime
    BY <1>2, <1>8, <2>1
  <2>2. CASE ~ (now >= unblockTime)
    <3>. HIDE DEF now, delayed, unblockTime, woken
    <3>. QED BY <1>2, <1>5, <1>7, <1>8, <2>2
  <2>. QED BY <2>1, <2>2
<1>10. \A t \in woken : t \in delayed /\ xItemValue[t] = now
  BY <1>2, <1>4, <1>8
<1>11. /\ xTickCount' = now
       /\ stateList' = [t \in Task |-> IF t \in woken THEN "ready" ELSE lists[t]]
       /\ xNextTaskUnblockTime' = IF now >= unblockTime THEN head ELSE unblockTime
       /\ xItemValue' = xItemValue
  BY DEF xTaskIncrementTick
<1>12. \A t \in Task : t \in delayed <=> lists[t] = "delayed"
  OBVIOUS
<1>. HIDE DEF now, lists, delayed, unblockTime, woken, head
<1>13. DelayedAreNotDue'
  BY <1>4, <1>6, <1>7, <1>9, <1>11, <1>12 DEF DelayedAreNotDue
<1>14. \A t \in Task : stateList[t] \in {"delayed", "overflow"} /\ stateList'[t] = "ready"
                       => t \in woken
  BY <1>4, <1>11
<1>. QED BY <1>10, <1>11, <1>13, <1>14
---------------------------------------------------------------------------
(* The steps *)

\* What a step does to the delayed lists and the time.
ListMove ==
    \/ LeavesLists
    \/ \E t \in Task, n \in Tick \ {0}, b \in BOOLEAN : Delays1(t, n, b)
    \/ xTaskIncrementTick

\* xShouldDelay holds only of a wake time that is not the present tick.
LEMMA UntilIsNotNow ==
    ASSUME NEW wake \in Tick, NEW previous \in Tick, xTickCount \in Tick,
           ShouldDelay(wake, previous)
    PROVE  Wrap(wake + TickMod - xTickCount) \in Tick \ {0}
  BY TasksAssumption DEF ShouldDelay, Wrap, Tick

\* Every step is one of these moves.
LEMMA ListMoves ==
    ASSUME IInv, [Next]_vars
    PROVE  ListMove
<1>. DEFINE Same == UNCHANGED <<stateList, xItemValue, xTickCount, xNextTaskUnblockTime>>
<1>1. Same => LeavesLists
  BY DEF LeavesLists
<1>2. CASE UNCHANGED vars
  BY <1>1, <1>2 DEF vars, listVars, timeVars, ListMove
<1>3. CASE Interrupt
  <2>1. CASE TimerTick
    BY <2>1 DEF TimerTick, ListMove
  <2>2. CASE TimerTickPended
    BY <1>1, <2>2 DEF TimerTickPended, listVars, timeVars, ListMove
  <2>3. ASSUME NEW x, NEW action, NotifyFromISR(x, action) PROVE ListMove
    BY <2>3 DEF NotifyFromISR, timeVars, ListMove, LeavesLists, IInv, TypeOK, ListTypeOK
  <2>4. ASSUME NEW x, xTaskResumeFromISR(x) PROVE ListMove
    BY <2>4 DEF xTaskResumeFromISR, timeVars, ListMove, LeavesLists, IInv, TypeOK, ListTypeOK
  <2>. QED BY <1>3, <2>1, <2>2, <2>3, <2>4 DEF Interrupt
<1>4. ASSUME NEW t \in Task, Continue(t) PROVE ListMove
  <2>1. CASE MovePendingReady(t)
    BY <2>1 DEF MovePendingReady, prvResetNextTaskUnblockTime, ListMove, LeavesLists
  <2>2. CASE ReplayTick(t)
    BY <2>2 DEF ReplayTick, ListMove
  <2>3. CASE DelayCurrent(t)
    <3>1. arg[t] \in Tick \ {0}
      BY <2>3 DEF DelayCurrent, At, IInv, ControlInv, ArgumentByLabel
    <3>. QED BY <2>3, <3>1 DEF DelayCurrent, ListMove, Delays1
  <2>4. CASE DelayCurrentUntil(t)
    <3>. DEFINE wake == Wrap(pxPreviousWakeTime[t] + arg[t])
    <3>1. wake \in Tick /\ pxPreviousWakeTime[t] \in Tick /\ xTickCount \in Tick
      <4>1. arg[t] \in Tick \ {0}
        BY <2>4 DEF DelayCurrentUntil, At, IInv, ControlInv, ArgumentByLabel
      <4>2. pxPreviousWakeTime[t] \in Tick /\ xTickCount \in Tick
        BY DEF IInv, TypeOK, AppTypeOK, TimeTypeOK
      <4>. QED BY <4>1, <4>2, WrapType, TasksAssumption DEF Tick
    <3>2. CASE ShouldDelay(wake, pxPreviousWakeTime[t])
      <4>1. Wrap(wake + TickMod - xTickCount) \in Tick \ {0}
        BY <3>1, <3>2, UntilIsNotNow
      <4>2. Delays1(t, Wrap(wake + TickMod - xTickCount), FALSE)
        BY <2>4, <3>2 DEF DelayCurrentUntil, Delays1
      <4>. QED BY <4>1, <4>2 DEF ListMove
    <3>3. CASE ~ShouldDelay(wake, pxPreviousWakeTime[t])
      BY <1>1, <2>4, <3>3 DEF DelayCurrentUntil, ListMove
    <3>. QED BY <3>2, <3>3
  <2>5. CASE ResetUnblockTime(t)
    BY <2>5 DEF ResetUnblockTime, listVars, In, ListMove, LeavesLists
  <2>6. CASE IdleReap(t)
    BY <2>6 DEF IdleReap, timeVars, ListMove, LeavesLists, IInv, TypeOK, ListTypeOK
  <2>7. CASE \/ ExitCritical(t) \/ FinishResumeAll(t) \/ CreateYield(t)
             \/ TakeNotification(t) \/ FinishNotifyWait(t)
    BY <1>1, <2>7 DEF ExitCritical, FinishResumeAll, CreateYield, TakeNotification,
       FinishNotifyWait, listVars, timeVars, ListMove
  <2>. QED BY <1>4, <2>1, <2>2, <2>3, <2>4, <2>5, <2>6, <2>7 DEF Continue
<1>5. ASSUME NEW t \in Task, Call(t) PROVE ListMove
  <2>1. CASE \/ UserEnterCritical(t) \/ UserExitCritical(t) \/ vTaskSuspendAll(t)
             \/ UserResumeAll(t) \/ vTaskDelay(t) \/ vTaskDelayUntil(t)
             \/ IdleCheckTermination(t)
    BY <1>1, <2>1 DEF UserEnterCritical, UserExitCritical, vTaskSuspendAll, UserResumeAll,
       vTaskDelay, vTaskDelayUntil, IdleCheckTermination, listVars, timeVars, ListMove
  <2>2. ASSUME NEW x, \/ vTaskSuspend(t, x) \/ vTaskResume(t, x) \/ xTaskCreate(t, x)
                      \/ vTaskDelete(t, x)
        PROVE  ListMove
    <3>1. CASE vTaskSuspend(t, x)
      BY <3>1 DEF vTaskSuspend, timeVars, ListMove, LeavesLists, IInv, TypeOK, ListTypeOK
    <3>2. CASE vTaskResume(t, x)
      BY <3>2 DEF vTaskResume, timeVars, ListMove, LeavesLists, IInv, TypeOK, ListTypeOK
    <3>3. CASE xTaskCreate(t, x)
      BY <3>3 DEF xTaskCreate, timeVars, ListMove, LeavesLists, IInv, TypeOK, ListTypeOK
    <3>4. CASE vTaskDelete(t, x)
      BY <3>4 DEF vTaskDelete, prvResetNextTaskUnblockTime, ListMove, LeavesLists, IInv,
         TypeOK, ListTypeOK
    <3>. QED BY <2>2, <3>1, <3>2, <3>3, <3>4
  <2>3. ASSUME NEW x, NEW p, vTaskPrioritySet(t, x, p) PROVE ListMove
    BY <1>1, <2>3 DEF vTaskPrioritySet, timeVars, ListMove
  <2>4. ASSUME NEW n \in NotifyWaits, ulTaskNotifyTake(t, n) \/ xTaskNotifyWait(t, n)
        PROVE  ListMove
    <3>1. n \in Tick /\ (n > 0 => n \in Tick \ {0})
      BY TasksAssumption
    <3>2. \/ n > 0 /\ Delays1(t, n, TRUE)
          \/ Same
      BY <2>4 DEF ulTaskNotifyTake, xTaskNotifyWait, Delays1
    <3>. QED BY <1>1, <3>1, <3>2 DEF ListMove
  <2>5. ASSUME NEW x, NEW action, xTaskGenericNotify(t, x, action) PROVE ListMove
    BY <2>5 DEF xTaskGenericNotify, timeVars, ListMove, LeavesLists, IInv, TypeOK, ListTypeOK
  <2>6. ASSUME NEW x, xTaskNotifyStateClear(t, x) PROVE ListMove
    BY <1>1, <2>6 DEF xTaskNotifyStateClear, listVars, timeVars, ListMove
  <2>. QED BY <1>5, <2>1, <2>2, <2>3, <2>4, <2>5, <2>6 DEF Call
<1>6. ASSUME NEW t \in Task, Yield(t) PROVE ListMove
  BY <1>1, <1>6 DEF Yield, listVars, timeVars, ListMove
<1>. QED BY <1>2, <1>3, <1>4, <1>5, <1>6 DEF Next

\* Nobody is in a delayed list at the start, and every step keeps the others not due.
LEMMA StepNotDue == IInv /\ DelayedAreNotDue /\ [Next]_vars => DelayedAreNotDue'
  BY ListMoves, LeavesListsKeeps, DelaysKeeps, TickKeeps DEF ListMove

(***************************************************************************)
(* No oversleeping across the wrap: a task of the delayed list has its     *)
(* wake time ahead and not before xNextTaskUnblockTime, one of the         *)
(* overflow list wakes after the wrap (xTaskIncrementTick and every call   *)
(* that moves a task between the lists).                                   *)
(***************************************************************************)
THEOREM NeverOverdue == Spec => []DelayedAreNotDue
<1>1. Init => DelayedAreNotDue
  BY DEF Init, DelayedAreNotDue
<1>. QED BY <1>1, StepNotDue, AlwaysIInv, PTL DEF Spec

(***************************************************************************)
(* A tick makes a delayed task ready at its wake time exactly, also a tick *)
(* that xTaskResumeAll replays late.                                       *)
(***************************************************************************)
THEOREM WakesAtItsTime == Spec => WakesOnTheTick
<1>. DEFINE Wakes == \A t \in Task :
                        /\ xTickCount' # xTickCount
                        /\ stateList[t] \in {"delayed", "overflow"} /\ stateList'[t] = "ready"
                        => xItemValue[t] = xTickCount'
<1>1. IInv /\ DelayedAreNotDue /\ [Next]_vars => [Wakes]_vars
  BY ListMoves, TickKeeps DEF ListMove, LeavesLists, Delays1
<1>. QED BY <1>1, NeverOverdue, AlwaysIInv, PTL DEF Spec, WakesOnTheTick
---------------------------------------------------------------------------
(* The choice of the running task, for every number of tasks and           *)
(* priorities: no ready task that is more urgent than the running one goes *)
(* unnoticed, and the selection of the next task always finds one.         *)

\* uxTopReadyPriority bounds the priority of every ready task: the loop of
\* taskSELECT_HIGHEST_PRIORITY_TASK does not start below one.
TopBound == \A u \in Ready : uxPriority[u] <= uxTopReadyPriority

\* The types, the bound and preemption are inductive together.
PInv == IInv /\ TopBound /\ HighestPriorityRuns

\* The highest of the recorded priorities bounds the old one and those of the tasks added.
LEMMA TopWithBounds ==
    ASSUME NEW S \in SUBSET Task, NEW priority \in [Task -> Priority],
           uxTopReadyPriority \in Priority
    PROVE  /\ TopWith(S, priority) \in Priority
           /\ TopWith(S, priority) >= uxTopReadyPriority
           /\ \A t \in S : TopWith(S, priority) >= priority[t]
<1>. DEFINE P == {uxTopReadyPriority} \union {priority[t] : t \in S}
<1>1. P \in SUBSET (0 .. MaxPriority) /\ P # {} /\ MaxPriority \in Nat
  BY TasksAssumption DEF Priority
<1>2. PICK m \in P : \A k \in P : k <= m
  <2>. HIDE DEF P
  <2>. QED BY <1>1, GreatestElement
<1>3. m >= uxTopReadyPriority /\ \A t \in S : m >= priority[t]
  <2>1. \A k \in P : k \in Nat
    BY <1>1
  <2>. QED BY <1>1, <1>2, <2>1
<1>4. /\ TopWith(S, priority) >= uxTopReadyPriority
      /\ \A t \in S : TopWith(S, priority) >= priority[t]
  BY <1>2, <1>3 DEF TopWith
<1>. QED BY <1>4, TopWithType

\* A context switch from a bound on the ready tasks runs one of the highest priority, or is
\* noted as pending.
LEMMA SwitchChooses ==
    ASSUME IInv', NEW top \in Priority, \A u \in Ready' : uxPriority'[u] <= top,
           vTaskSwitchContext(top)
    PROVE  TopBound' /\ HighestPriorityRuns'
<1>1. uxPriority' \in [Task -> Nat]
  BY TasksAssumption DEF IInv, TypeOK, PriorityTypeOK, Priority
<1>2. Ready' = {u \in Task : stateList'[u] = "ready"}
  BY DEF Ready, In
<1>3. CASE uxSchedulerSuspended # 0
  BY <1>3 DEF vTaskSwitchContext, TopBound, HighestPriorityRuns
<1>4. CASE uxSchedulerSuspended = 0
  <2>1. PICK t \in Selectable(top, Ready', uxPriority') :
            pxCurrentTCB' = t /\ uxTopReadyPriority' = uxPriority'[t]
    BY <1>2, <1>4 DEF vTaskSwitchContext
  <2>2. \A u \in Ready' : uxPriority'[u] <= uxPriority'[t]
    BY <2>1 DEF Selectable
  <2>. QED BY <2>1, <2>2 DEF TopBound, HighestPriorityRuns
<1>. QED BY <1>3, <1>4

\* A step that makes no task ready and none less urgent leaves everything as it was.
Quiet ==
    /\ UNCHANGED <<switchVars, uxPriority>>
    /\ \A u \in Task : stateList'[u] = "ready" => stateList[u] = "ready"
    /\ pc[pxCurrentTCB] = "createYield" => UNCHANGED <<pc, arg>>

LEMMA QuietKeeps ==
    ASSUME PInv, Quiet
    PROVE  TopBound' /\ HighestPriorityRuns'
  BY DEF PInv, Quiet, switchVars, TopBound, HighestPriorityRuns, Ready, In

\* A critical section that makes the tasks of S ready and yields if one of them is more
\* urgent than the running task, or if that is no longer ready or less urgent than before.
LEMMA SectionKeeps ==
    ASSUME PInv, IInv', NEW t \in Task, t = pxCurrentTCB, pc[t] # "createYield",
           NEW yields \in BOOLEAN, NEW next, NEW top \in Priority,
           YieldThenExit(t, yields, next, top),
           \A u \in Ready' : uxPriority'[u] <= top,
           ~yields => \A u \in Ready' : \/ uxPriority'[u] <= uxPriority'[t]
                                        \/ u \in Ready /\ uxPriority'[u] <= uxPriority[u]
                                           /\ uxPriority[t] <= uxPriority'[t]
    PROVE  TopBound' /\ HighestPriorityRuns'
<1>1. CASE yields
  BY <1>1, SwitchChooses DEF YieldThenExit
<1>2. CASE ~yields
  <2>1. NoSwitch(top)
    BY <1>2 DEF YieldThenExit
  <2>2. TopBound'
    BY <2>1 DEF NoSwitch, TopBound
  <2>3. /\ uxPriority \in [Task -> Nat] /\ uxPriority' \in [Task -> Nat]
        /\ Ready \subseteq Task /\ Ready' \subseteq Task
    BY TasksAssumption DEF PInv, IInv, TypeOK, PriorityTypeOK, Priority, Ready, In
  <2>4. HighestPriorityRuns'
    <3>1. SUFFICES ASSUME ~xYieldPending, NEW u \in Ready'
                   PROVE  uxPriority'[u] <= uxPriority'[t]
      BY <2>1 DEF NoSwitch, HighestPriorityRuns
    <3>2. u \in Ready => uxPriority[u] <= uxPriority[t]
      BY <3>1 DEF PInv, HighestPriorityRuns
    <3>. QED BY <1>2, <2>3, <3>1, <3>2
  <2>. QED BY <2>2, <2>4
<1>. QED BY <1>1, <1>2
---------------------------------------------------------------------------
(* The steps *)

\* The types that the steps below rely on.
LEMMA PriorityTypes ==
    ASSUME IInv
    PROVE  /\ uxPriority \in [Task -> Priority] /\ uxPriority \in [Task -> Nat]
           /\ uxTopReadyPriority \in Priority /\ uxTopReadyPriority \in Nat
           /\ pxCurrentTCB \in Task /\ stateList \in [Task -> StateList]
           /\ Ready = {u \in Task : stateList[u] = "ready"}
           /\ Priority \subseteq Nat
  BY TasksAssumption DEF IInv, TypeOK, SwitchTypeOK, PriorityTypeOK, ListTypeOK, Priority,
     Ready, In

\* Making one task ready, with a switch if it is at least as urgent as the running one.
LEMMA MakesOneReady ==
    ASSUME PInv, NEW x \in Task, UNCHANGED uxPriority,
           Ready' \subseteq Ready \union {x}
    PROVE  /\ TopWith({x}, uxPriority) \in Priority
           /\ \A u \in Ready' : uxPriority'[u] <= TopWith({x}, uxPriority)
<1>1. /\ TopWith({x}, uxPriority) \in Priority
      /\ TopWith({x}, uxPriority) >= uxTopReadyPriority
      /\ TopWith({x}, uxPriority) >= uxPriority[x]
  BY TopWithBounds, PriorityTypes DEF PInv
<1>2. TopWith({x}, uxPriority) \in Nat
  BY <1>1, PriorityTypes DEF PInv
<1>3. \A u \in Ready : uxPriority[u] <= TopWith({x}, uxPriority)
  BY <1>1, <1>2, PriorityTypes DEF PInv, TopBound
<1>. QED BY <1>1, <1>2, <1>3, PriorityTypes DEF PInv

\* A tick that makes tasks ready asks for a switch if one is as urgent as the running task.
LEMMA TickWakes ==
    ASSUME PInv, UNCHANGED uxPriority
    PROVE  /\ TopWith(WokenByTick, uxPriority) \in Priority
           /\ \A u \in Ready' : uxPriority'[u] <= TopWith(WokenByTick, uxPriority)
           /\ ~TickNeedsSwitch =>
                  \A u \in Ready' : u \in Ready \/ uxPriority'[u] <= uxPriority[pxCurrentTCB]
<1>. DEFINE top == TopWith(WokenByTick, uxPriority)
<1>1. /\ top \in Priority /\ top >= uxTopReadyPriority
      /\ \A u \in WokenByTick : top >= uxPriority[u]
  <2>1. WokenByTick \in SUBSET Task
    BY DEF WokenByTick
  <2>. QED BY <2>1, TopWithBounds, PriorityTypes DEF PInv
<1>2. \A u \in Ready' : u \in Ready \/ u \in WokenByTick
  BY DEF Ready, In, WokenByTick
<1>3. top \in Nat /\ Ready \subseteq Task /\ WokenByTick \subseteq Task
  BY <1>1, PriorityTypes DEF PInv, WokenByTick
<1>. HIDE DEF top
<1>4. \A u \in Ready : uxPriority[u] <= top
  BY <1>1, <1>3, PriorityTypes DEF PInv, TopBound
<1>5. \A u \in Ready' : uxPriority'[u] <= top
  BY <1>1, <1>2, <1>3, <1>4, PriorityTypes DEF PInv
<1>6. ~TickNeedsSwitch => \A u \in WokenByTick : uxPriority[u] <= uxPriority[pxCurrentTCB]
  BY <1>3, PriorityTypes DEF PInv, TickNeedsSwitch
<1>. QED BY <1>1, <1>2, <1>5, <1>6 DEF top

\* Without a switch the running task stays the most urgent one, but for one just created.
LEMMA NoSwitchKeeps ==
    ASSUME PInv, NEW top, UNCHANGED <<uxPriority, pc, arg>>,
           NoSwitch(top), \A u \in Ready' : uxPriority'[u] <= top,
           \A u \in Ready' : u \in Ready \/ uxPriority'[u] <= uxPriority[pxCurrentTCB]
    PROVE  TopBound' /\ HighestPriorityRuns'
  BY DEF PInv, NoSwitch, TopBound, HighestPriorityRuns

\* The machine timer interrupt.
LEMMA TimerTickSchedules ==
    ASSUME PInv, IInv', TimerTick
    PROVE  TopBound' /\ HighestPriorityRuns'
<1>1. UNCHANGED <<uxPriority, pc, arg>>
  BY DEF TimerTick, priorityVars, controlVars
<1>2. /\ TopWith(WokenByTick, uxPriority) \in Priority
      /\ \A u \in Ready' : uxPriority'[u] <= TopWith(WokenByTick, uxPriority)
      /\ ~TickNeedsSwitch =>
             \A u \in Ready' : u \in Ready \/ uxPriority'[u] <= uxPriority[pxCurrentTCB]
  BY <1>1, TickWakes
<1>3. CASE TickNeedsSwitch
  BY <1>2, <1>3, SwitchChooses DEF TimerTick
<1>4. CASE ~TickNeedsSwitch
  BY <1>1, <1>2, <1>4, NoSwitchKeeps DEF TimerTick
<1>. QED BY <1>3, <1>4

\* A tick that xTaskResumeAll replays: the switch it asks for is left pending.
LEMMA ReplayTickSchedules ==
    ASSUME PInv, NEW t \in Task, ReplayTick(t)
    PROVE  TopBound' /\ HighestPriorityRuns'
<1>1. UNCHANGED <<uxPriority, pxCurrentTCB, pc, arg>> /\ xYieldPending' = TickNeedsSwitch
      /\ uxTopReadyPriority' = TopWith(WokenByTick, uxPriority)
  BY DEF ReplayTick, priorityVars, controlVars
<1>2. /\ \A u \in Ready' : uxPriority'[u] <= TopWith(WokenByTick, uxPriority)
      /\ ~TickNeedsSwitch =>
             \A u \in Ready' : u \in Ready \/ uxPriority'[u] <= uxPriority[pxCurrentTCB]
  BY <1>1, TickWakes
<1>3. ~TickNeedsSwitch => ~xYieldPending
  BY DEF TickNeedsSwitch
<1>. QED BY <1>1, <1>2, <1>3 DEF PInv, TopBound, HighestPriorityRuns

\* xTaskResumeAll makes the tasks of xPendingReadyList ready and notes a more urgent one.
LEMMA MovePendingReadySchedules ==
    ASSUME PInv, NEW t \in Task, MovePendingReady(t)
    PROVE  TopBound' /\ HighestPriorityRuns'
<1>1. /\ t = pxCurrentTCB /\ pc[t] = "resumeAll"
      /\ UNCHANGED <<uxPriority, pxCurrentTCB>>
  BY DEF MovePendingReady, At, priorityVars
<1>2. CASE uxSchedulerSuspended = 1
  <2>. DEFINE top == TopWith(PendingReady, uxPriority)
  <2>1. /\ Ready' = Ready \union PendingReady
        /\ uxTopReadyPriority' = top
        /\ xYieldPending' = \/ xYieldPending
                            \/ \E u \in PendingReady : uxPriority[u] >= uxPriority[t]
    BY <1>2 DEF MovePendingReady, Ready, In, PendingReady
  <2>2. /\ top \in Nat /\ top >= uxTopReadyPriority
        /\ \A u \in PendingReady : u \in Task /\ top >= uxPriority[u]
    <3>1. PendingReady \in SUBSET Task
      BY DEF PendingReady
    <3>. QED BY <3>1, TopWithBounds, PriorityTypes DEF PInv
  <2>. HIDE DEF top
  <2>3. TopBound'
    BY <1>1, <2>1, <2>2, PriorityTypes DEF PInv, TopBound
  <2>4. HighestPriorityRuns'
    BY <1>1, <2>1, <2>2, PriorityTypes DEF PInv, HighestPriorityRuns
  <2>. QED BY <2>3, <2>4
<1>3. CASE uxSchedulerSuspended # 1
  BY <1>1, <1>3 DEF MovePendingReady, PInv, TopBound, HighestPriorityRuns, Ready, In
<1>. QED BY <1>2, <1>3

\* A task that an interrupt resumes.
LEMMA ResumeFromISRSchedules ==
    ASSUME PInv, IInv', NEW x \in Task, xTaskResumeFromISR(x)
    PROVE  TopBound' /\ HighestPriorityRuns'
<1>. DEFINE top == TopWith({x}, uxPriority)
<1>1. UNCHANGED <<uxPriority, pc, arg>>
  BY DEF xTaskResumeFromISR, priorityVars, controlVars
<1>2. CASE uxSchedulerSuspended = 0
  <2>1. stateList' = [stateList EXCEPT ![x] = "ready"]
        /\ IF uxPriority[x] >= uxPriority[pxCurrentTCB] THEN vTaskSwitchContext(top)
                                                        ELSE NoSwitch(top)
    BY <1>2 DEF xTaskResumeFromISR
  <2>2. Ready' \subseteq Ready \union {x}
    BY <2>1 DEF Ready, In
  <2>3. top \in Priority /\ \A u \in Ready' : uxPriority'[u] <= top
    BY <1>1, <2>2, MakesOneReady
  <2>. HIDE DEF top
  <2>4. CASE uxPriority[x] >= uxPriority[pxCurrentTCB]
    BY <2>1, <2>3, <2>4, SwitchChooses
  <2>5. CASE ~(uxPriority[x] >= uxPriority[pxCurrentTCB])
    BY <1>1, <2>1, <2>2, <2>3, <2>5, NoSwitchKeeps, PriorityTypes DEF PInv
  <2>. QED BY <2>4, <2>5
<1>3. CASE uxSchedulerSuspended # 0
  BY <1>1, <1>3, QuietKeeps DEF xTaskResumeFromISR, Quiet
<1>. QED BY <1>2, <1>3

\* A task that an interrupt notifies: the interrupt yields, or leaves xYieldPending set.
LEMMA NotifyFromISRSchedules ==
    ASSUME PInv, IInv', NEW x \in Task, NEW action, NotifyFromISR(x, action)
    PROVE  TopBound' /\ HighestPriorityRuns'
<1>. DEFINE makes == ucNotifyState[x] = "WAITING" /\ uxSchedulerSuspended = 0
            top == IF makes THEN TopWith({x}, uxPriority) ELSE uxTopReadyPriority
<1>1. /\ UNCHANGED <<uxPriority, pc, arg>>
      /\ stateList' = IF makes THEN [stateList EXCEPT ![x] = "ready"] ELSE stateList
  BY DEF NotifyFromISR, priorityVars, controlVars
<1>2. IF ucNotifyState[x] = "WAITING" /\ uxPriority[x] > uxPriority[pxCurrentTCB]
      THEN \/ vTaskSwitchContext(top)
           \/ xYieldPending' = TRUE /\ uxTopReadyPriority' = top
      ELSE NoSwitch(top)
  BY DEF NotifyFromISR
<1>3. Ready' \subseteq Ready \union {x} /\ (~makes => Ready' = Ready)
  BY <1>1 DEF Ready, In
<1>4. top \in Priority /\ \A u \in Ready' : uxPriority'[u] <= top
  BY <1>1, <1>3, MakesOneReady, PriorityTypes DEF PInv, TopBound
<1>. HIDE DEF top
<1>5. CASE ucNotifyState[x] = "WAITING" /\ uxPriority[x] > uxPriority[pxCurrentTCB]
  <2>1. CASE vTaskSwitchContext(top)
    BY <1>4, <2>1, SwitchChooses
  <2>2. CASE xYieldPending' = TRUE /\ uxTopReadyPriority' = top
    BY <1>4, <2>2 DEF TopBound, HighestPriorityRuns
  <2>. QED BY <1>2, <1>5, <2>1, <2>2
<1>6. CASE ~(ucNotifyState[x] = "WAITING" /\ uxPriority[x] > uxPriority[pxCurrentTCB])
  BY <1>1, <1>2, <1>3, <1>4, <1>6, NoSwitchKeeps, PriorityTypes DEF PInv
<1>. QED BY <1>5, <1>6
---------------------------------------------------------------------------
(* The calls of a task *)

\* The running task yields outside a section.
LEMMA YieldSchedules ==
    ASSUME PInv, IInv', NEW t \in Task, Yield(t)
    PROVE  TopBound' /\ HighestPriorityRuns'
<1>1. UNCHANGED <<uxPriority, stateList>> /\ vTaskSwitchContext(uxTopReadyPriority)
  BY DEF Yield, priorityVars, listVars
<1>2. uxTopReadyPriority \in Priority /\ \A u \in Ready' : uxPriority'[u] <= uxTopReadyPriority
  BY <1>1, PriorityTypes DEF PInv, TopBound, Ready, In
<1>. QED BY <1>1, <1>2, SwitchChooses

\* xTaskResumeAll makes the switch that is pending, or there is none.
LEMMA FinishResumeAllSchedules ==
    ASSUME PInv, IInv', NEW t \in Task, FinishResumeAll(t)
    PROVE  TopBound' /\ HighestPriorityRuns'
<1>1. /\ UNCHANGED <<uxPriority, stateList>> /\ t = pxCurrentTCB /\ pc[t] = "replay"
      /\ \/ vTaskSwitchContext(uxTopReadyPriority)
         \/ NoSwitch(uxTopReadyPriority)
  BY DEF FinishResumeAll, At, priorityVars, listVars
<1>2. uxTopReadyPriority \in Priority /\ \A u \in Ready' : uxPriority'[u] <= uxTopReadyPriority
  BY <1>1, PriorityTypes DEF PInv, TopBound, Ready, In
<1>3. CASE vTaskSwitchContext(uxTopReadyPriority)
  BY <1>2, <1>3, SwitchChooses
<1>4. CASE NoSwitch(uxTopReadyPriority)
  BY <1>1, <1>4, QuietKeeps DEF NoSwitch, switchVars, Quiet
<1>. QED BY <1>1, <1>3, <1>4

\* xTaskCreate makes a task ready and is about to compare its priority with its own ...
LEMMA xTaskCreateSchedules ==
    ASSUME PInv, NEW t \in Task, NEW x \in Task, xTaskCreate(t, x)
    PROVE  TopBound' /\ HighestPriorityRuns'
<1>1. /\ t = pxCurrentTCB /\ pc[t] = "run" /\ UNCHANGED uxPriority
      /\ stateList' = [stateList EXCEPT ![x] = "ready"]
      /\ NoSwitch(TopWith({x}, uxPriority))
      /\ pc' = [pc EXCEPT ![t] = "createYield"] /\ arg' = [arg EXCEPT ![t] = x]
  BY DEF xTaskCreate, Calls, At, Goto, priorityVars
<1>2. Ready' \subseteq Ready \union {x}
  BY <1>1 DEF Ready, In
<1>3. \A u \in Ready' : uxPriority'[u] <= TopWith({x}, uxPriority)
  BY <1>1, <1>2, MakesOneReady
<1>4. TopBound'
  BY <1>1, <1>3 DEF NoSwitch, TopBound
<1>5. pc'[t] = "createYield" /\ arg'[t] = x
  BY <1>1 DEF PInv, IInv, TypeOK, ControlTypeOK
<1>6. HighestPriorityRuns'
  BY <1>1, <1>2, <1>5 DEF NoSwitch, PInv, HighestPriorityRuns
<1>. QED BY <1>4, <1>6

\* ... and yields to it if it is more urgent.
LEMMA CreateYieldSchedules ==
    ASSUME PInv, IInv', NEW t \in Task, CreateYield(t)
    PROVE  TopBound' /\ HighestPriorityRuns'
<1>1. /\ UNCHANGED <<uxPriority, stateList>> /\ t = pxCurrentTCB
      /\ IF uxPriority[t] < uxPriority[arg[t]] THEN vTaskSwitchContext(uxTopReadyPriority)
                                               ELSE NoSwitch(uxTopReadyPriority)
  BY DEF CreateYield, At, priorityVars, listVars
<1>2. uxTopReadyPriority \in Priority /\ \A u \in Ready' : uxPriority'[u] <= uxTopReadyPriority
  BY <1>1, PriorityTypes DEF PInv, TopBound, Ready, In
<1>3. CASE uxPriority[t] < uxPriority[arg[t]]
  BY <1>1, <1>2, <1>3, SwitchChooses
<1>4. CASE ~(uxPriority[t] < uxPriority[arg[t]])
  <2>1. /\ UNCHANGED <<pxCurrentTCB, xYieldPending, uxTopReadyPriority>>
        /\ Ready' = Ready
    BY <1>1, <1>4 DEF NoSwitch, Ready, In
  <2>2. SUFFICES ASSUME ~xYieldPending, NEW u \in Ready
                 PROVE  uxPriority[u] <= uxPriority[t]
    BY <1>1, <1>2, <2>1 DEF TopBound, HighestPriorityRuns
  <2>3. uxPriority[u] <= uxPriority[t] \/ u = arg[t]
    BY <1>1, <2>2 DEF PInv, HighestPriorityRuns
  <2>4. CASE u = arg[t]
    <3>1. u \in Task
      BY PriorityTypes DEF PInv
    <3>. QED BY <1>1, <1>4, <2>4, <3>1, PriorityTypes DEF PInv
  <2>. QED BY <2>3, <2>4
<1>. QED BY <1>3, <1>4

\* vTaskResume makes a task ready and yields to one that is as urgent.
LEMMA vTaskResumeSchedules ==
    ASSUME PInv, IInv', NEW t \in Task, NEW x \in Task, vTaskResume(t, x)
    PROVE  TopBound' /\ HighestPriorityRuns'
<1>1. t = pxCurrentTCB /\ pc[t] = "run" /\ UNCHANGED uxPriority
  BY DEF vTaskResume, Calls, At, priorityVars
<1>2. CASE prvTaskIsTaskSuspended(x)
  <2>1. /\ stateList' = [stateList EXCEPT ![x] = "ready"]
        /\ YieldThenExit(t, uxPriority[x] >= uxPriority[t], "run", TopWith({x}, uxPriority))
    BY <1>2 DEF vTaskResume
  <2>2. Ready' \subseteq Ready \union {x}
    BY <2>1 DEF Ready, In
  <2>3. /\ TopWith({x}, uxPriority) \in Priority
        /\ \A u \in Ready' : uxPriority'[u] <= TopWith({x}, uxPriority)
    BY <1>1, <2>2, MakesOneReady
  <2>. DEFINE yields == uxPriority[x] >= uxPriority[t]
  <2>4. /\ yields \in BOOLEAN
        /\ ~yields => uxPriority[x] <= uxPriority[t]
    BY PriorityTypes DEF PInv
  <2>5. uxPriority[t] <= uxPriority[t] /\ \A u \in Ready : uxPriority[u] <= uxPriority[u]
    BY PriorityTypes DEF PInv
  <2>6. ~yields => \A u \in Ready' : \/ uxPriority'[u] <= uxPriority'[t]
                                     \/ u \in Ready /\ uxPriority'[u] <= uxPriority[u]
                                        /\ uxPriority[t] <= uxPriority'[t]
    BY <1>1, <2>2, <2>4, <2>5
  <2>7. YieldThenExit(t, yields, "run", TopWith({x}, uxPriority))
    BY <2>1
  <2>. HIDE DEF yields
  <2>. QED BY <1>1, <2>3, <2>4, <2>6, <2>7, SectionKeeps
<1>3. CASE ~prvTaskIsTaskSuspended(x)
  <2>1. UNCHANGED stateList /\ YieldThenExit(t, FALSE, "run", uxTopReadyPriority)
    BY <1>3 DEF vTaskResume
  <2>2. UNCHANGED switchVars
    BY <2>1 DEF YieldThenExit, NoSwitch, switchVars
  <2>. QED BY <1>1, <2>1, <2>2, QuietKeeps DEF Quiet
<1>. QED BY <1>2, <1>3

\* A notification makes a waiting task ready and yields to a more urgent one.
LEMMA xTaskGenericNotifySchedules ==
    ASSUME PInv, IInv', NEW t \in Task, NEW x \in Task, NEW action,
           xTaskGenericNotify(t, x, action)
    PROVE  TopBound' /\ HighestPriorityRuns'
<1>1. t = pxCurrentTCB /\ pc[t] = "run" /\ UNCHANGED uxPriority
  BY DEF xTaskGenericNotify, Calls, At, priorityVars
<1>2. CASE ucNotifyState[x] = "WAITING"
  <2>1. /\ stateList' = [stateList EXCEPT ![x] = "ready"]
        /\ YieldThenExit(t, uxPriority[x] > uxPriority[t], "run", TopWith({x}, uxPriority))
    BY <1>2 DEF xTaskGenericNotify
  <2>2. Ready' \subseteq Ready \union {x}
    BY <2>1 DEF Ready, In
  <2>3. /\ TopWith({x}, uxPriority) \in Priority
        /\ \A u \in Ready' : uxPriority'[u] <= TopWith({x}, uxPriority)
    BY <1>1, <2>2, MakesOneReady
  <2>. DEFINE yields == uxPriority[x] > uxPriority[t]
  <2>4. /\ yields \in BOOLEAN
        /\ ~yields => uxPriority[x] <= uxPriority[t]
    BY PriorityTypes DEF PInv
  <2>5. uxPriority[t] <= uxPriority[t] /\ \A u \in Ready : uxPriority[u] <= uxPriority[u]
    BY PriorityTypes DEF PInv
  <2>6. ~yields => \A u \in Ready' : \/ uxPriority'[u] <= uxPriority'[t]
                                     \/ u \in Ready /\ uxPriority'[u] <= uxPriority[u]
                                        /\ uxPriority[t] <= uxPriority'[t]
    BY <1>1, <2>2, <2>4, <2>5
  <2>7. YieldThenExit(t, yields, "run", TopWith({x}, uxPriority))
    BY <2>1
  <2>. HIDE DEF yields
  <2>. QED BY <1>1, <2>3, <2>4, <2>6, <2>7, SectionKeeps
<1>3. CASE ucNotifyState[x] # "WAITING"
  <2>1. UNCHANGED stateList /\ YieldThenExit(t, FALSE, "run", uxTopReadyPriority)
    BY <1>3 DEF xTaskGenericNotify
  <2>2. UNCHANGED switchVars
    BY <2>1 DEF YieldThenExit, NoSwitch, switchVars
  <2>. QED BY <1>1, <2>1, <2>2, QuietKeeps DEF Quiet
<1>. QED BY <1>2, <1>3

\* vTaskPrioritySet yields when it raises another task to the running one's priority or lowers
\* the running one.
LEMMA vTaskPrioritySetSchedules ==
    ASSUME PInv, IInv', NEW t \in Task, NEW x \in Task, NEW p \in Priority,
           vTaskPrioritySet(t, x, p)
    PROVE  TopBound' /\ HighestPriorityRuns'
<1>. DEFINE priority == IF uxBasePriority[x] = uxPriority[x]
                        THEN [uxPriority EXCEPT ![x] = p] ELSE uxPriority
            yields == IF p > uxBasePriority[x] THEN x # t /\ p >= uxPriority[t] ELSE x = t
            top == TopWith({x} \intersect Ready, priority)
<1>1. /\ t = pxCurrentTCB /\ pc[t] = "run" /\ p # uxBasePriority[x]
      /\ UNCHANGED stateList /\ uxPriority' = priority
      /\ YieldThenExit(t, yields, "run", top)
  BY DEF vTaskPrioritySet, Calls, At
<1>2. Ready' = Ready
  BY <1>1 DEF Ready, In
<1>3. priority \in [Task -> Priority] /\ priority \in [Task -> Nat]
  BY PriorityTypes DEF PInv
<1>4. \A u \in Task \ {x} : priority[u] = uxPriority[u]
  BY PriorityTypes DEF PInv
<1>5. \/ priority[x] = uxPriority[x]
      \/ /\ priority[x] = p
         /\ uxBasePriority[x] = uxPriority[x]
  BY PriorityTypes DEF PInv
<1>6. yields \in BOOLEAN
  OBVIOUS
<1>. HIDE DEF priority
<1>7. /\ top \in Priority /\ top >= uxTopReadyPriority
      /\ \A u \in {x} \intersect Ready : top >= priority[u]
  BY <1>3, TopWithBounds, PriorityTypes DEF PInv
<1>. HIDE DEF top
<1>8. \A u \in Ready' : uxPriority'[u] <= top
  <2>1. SUFFICES ASSUME NEW u \in Ready PROVE priority[u] <= top
    BY <1>1, <1>2
  <2>2. u \in Task /\ uxPriority[u] <= uxTopReadyPriority /\ top \in Nat
    BY <1>7, PriorityTypes DEF PInv, TopBound
  <2>3. CASE u = x
    BY <1>3, <1>7, <2>2, <2>3
  <2>4. CASE u # x
    BY <1>4, <1>7, <2>2, <2>4, PriorityTypes DEF PInv
  <2>. QED BY <2>3, <2>4
<1>9. ~yields => \A u \in Ready' : \/ uxPriority'[u] <= uxPriority'[t]
                                   \/ u \in Ready /\ uxPriority'[u] <= uxPriority[u]
                                      /\ uxPriority[t] <= uxPriority'[t]
  <2>1. SUFFICES ASSUME ~yields, NEW u \in Ready
                 PROVE  \/ priority[u] <= priority[t]
                        \/ priority[u] <= uxPriority[u] /\ uxPriority[t] <= priority[t]
    BY <1>1, <1>2
  <2>2. u \in Task /\ p \in Nat /\ uxBasePriority[x] \in Nat
    BY PriorityTypes, TasksAssumption DEF PInv, IInv, TypeOK, PriorityTypeOK, Priority
  <2>3. CASE x = t
    <3>1. p > uxBasePriority[x]
      BY <2>1, <2>3
    <3>. QED BY <1>3, <1>4, <1>5, <2>2, <2>3, <3>1, PriorityTypes DEF PInv
  <2>4. CASE x # t
    <3>1. p < uxBasePriority[x] \/ p < uxPriority[t]
      BY <1>1, <2>1, <2>2, <2>4, PriorityTypes DEF PInv
    <3>. QED BY <1>3, <1>4, <1>5, <2>2, <2>4, <3>1, PriorityTypes DEF PInv
  <2>. QED BY <2>3, <2>4
<1>. HIDE DEF yields
<1>. QED BY <1>1, <1>6, <1>7, <1>8, <1>9, SectionKeeps

\* ulTaskNotifyTake and xTaskNotifyWait yield when they block.
LEMMA WaitSchedules ==
    ASSUME PInv, IInv', NEW t \in Task, NEW n \in NotifyWaits,
           ulTaskNotifyTake(t, n) \/ xTaskNotifyWait(t, n)
    PROVE  TopBound' /\ HighestPriorityRuns'
<1>1. PICK blocks \in BOOLEAN, next \in {"take", "wait"} :
          /\ t = pxCurrentTCB /\ pc[t] = "run" /\ UNCHANGED uxPriority
          /\ YieldThenExit(t, blocks, next, uxTopReadyPriority)
          /\ \A u \in Task : stateList'[u] = "ready" => stateList[u] = "ready"
  <2>1. CASE ulTaskNotifyTake(t, n)
    <3>1. /\ t = pxCurrentTCB /\ pc[t] = "run" /\ UNCHANGED uxPriority
          /\ YieldThenExit(t, ulNotifiedValue[t] = 0 /\ n > 0, "take", uxTopReadyPriority)
      BY <2>1 DEF ulTaskNotifyTake, Calls, At, priorityVars
    <3>2. UNCHANGED stateList \/ prvAddCurrentTaskToDelayedList(t, n, TRUE)
      BY <2>1 DEF ulTaskNotifyTake
    <3>3. \A u \in Task : stateList'[u] = "ready" => stateList[u] = "ready"
      BY <3>2, PriorityTypes DEF prvAddCurrentTaskToDelayedList, PInv
    <3>. QED BY <3>1, <3>3
  <2>2. CASE xTaskNotifyWait(t, n)
    <3>1. /\ t = pxCurrentTCB /\ pc[t] = "run" /\ UNCHANGED uxPriority
          /\ YieldThenExit(t, ucNotifyState[t] # "RECEIVED" /\ n > 0, "wait",
                           uxTopReadyPriority)
      BY <2>2 DEF xTaskNotifyWait, Calls, At, priorityVars
    <3>2. UNCHANGED stateList \/ prvAddCurrentTaskToDelayedList(t, n, TRUE)
      BY <2>2 DEF xTaskNotifyWait
    <3>3. \A u \in Task : stateList'[u] = "ready" => stateList[u] = "ready"
      BY <3>2, PriorityTypes DEF prvAddCurrentTaskToDelayedList, PInv
    <3>. QED BY <3>1, <3>3
  <2>. QED BY <2>1, <2>2
<1>2. Ready' \subseteq Ready
  BY <1>1 DEF Ready, In
<1>3. CASE blocks
  <2>1. \A u \in Ready' : uxPriority'[u] <= uxTopReadyPriority
    BY <1>1, <1>2 DEF PInv, TopBound
  <2>2. vTaskSwitchContext(uxTopReadyPriority)
    BY <1>1, <1>3 DEF YieldThenExit
  <2>. QED BY <2>1, <2>2, SwitchChooses, PriorityTypes DEF PInv
<1>4. CASE ~blocks
  <2>1. UNCHANGED switchVars
    BY <1>1, <1>4 DEF YieldThenExit, NoSwitch, switchVars
  <2>. QED BY <1>1, <2>1, QuietKeeps DEF Quiet
<1>. QED BY <1>3, <1>4
---------------------------------------------------------------------------
(* The theorem *)

\* The actions that make nobody ready.
LEMMA QuietSteps ==
    ASSUME IInv, NEW t \in Task,
           \/ ExitCritical(t) \/ UserEnterCritical(t) \/ UserExitCritical(t)
           \/ vTaskSuspendAll(t) \/ UserResumeAll(t) \/ vTaskDelay(t) \/ vTaskDelayUntil(t)
           \/ DelayCurrent(t) \/ DelayCurrentUntil(t) \/ ResetUnblockTime(t)
           \/ IdleCheckTermination(t) \/ IdleReap(t) \/ TakeNotification(t)
           \/ FinishNotifyWait(t)
           \/ \E x \in Task : vTaskSuspend(t, x) \/ vTaskDelete(t, x)
                              \/ xTaskNotifyStateClear(t, x)
    PROVE  Quiet
<1>1. stateList \in [Task -> StateList]
  BY PriorityTypes
<1>2. CASE \/ ExitCritical(t) \/ UserEnterCritical(t) \/ UserExitCritical(t)
           \/ vTaskSuspendAll(t) \/ UserResumeAll(t) \/ vTaskDelay(t) \/ vTaskDelayUntil(t)
  BY <1>2 DEF ExitCritical, UserEnterCritical, UserExitCritical, vTaskSuspendAll,
     UserResumeAll, vTaskDelay, vTaskDelayUntil, At, Calls, listVars, priorityVars, Quiet
<1>3. CASE \/ ResetUnblockTime(t) \/ IdleCheckTermination(t) \/ TakeNotification(t)
           \/ FinishNotifyWait(t)
  BY <1>3 DEF ResetUnblockTime, IdleCheckTermination, TakeNotification, FinishNotifyWait, At,
     listVars, priorityVars, Quiet
<1>4. CASE DelayCurrent(t)
  BY <1>1, <1>4 DEF DelayCurrent, prvAddCurrentTaskToDelayedList, At, priorityVars, Quiet
<1>5. CASE DelayCurrentUntil(t)
  <2>1. \/ UNCHANGED stateList
        \/ \E n : prvAddCurrentTaskToDelayedList(t, n, FALSE)
    BY <1>5 DEF DelayCurrentUntil
  <2>2. \A u \in Task : stateList'[u] = "ready" => stateList[u] = "ready"
    BY <1>1, <2>1 DEF prvAddCurrentTaskToDelayedList
  <2>. QED BY <1>5, <2>2 DEF DelayCurrentUntil, At, priorityVars, Quiet
<1>6. CASE IdleReap(t)
  BY <1>1, <1>6 DEF IdleReap, At, priorityVars, Quiet
<1>7. ASSUME NEW x \in Task,
             vTaskSuspend(t, x) \/ vTaskDelete(t, x) \/ xTaskNotifyStateClear(t, x)
      PROVE  Quiet
  BY <1>1, <1>7 DEF vTaskSuspend, vTaskDelete, xTaskNotifyStateClear, Calls, At, listVars,
     priorityVars, Quiet
<1>. QED BY <1>2, <1>3, <1>4, <1>5, <1>6, <1>7

\* Every step keeps the bound and preemption.
LEMMA StepSchedules == PInv /\ [Next]_vars => PInv'
<1>. SUFFICES ASSUME PInv, [Next]_vars PROVE TopBound' /\ HighestPriorityRuns'
  BY NextIInv DEF PInv
<1>1. IInv /\ IInv'
  BY NextIInv DEF PInv
<1>2. CASE UNCHANGED vars
  BY <1>2, QuietKeeps DEF vars, listVars, priorityVars, controlVars, Quiet
<1>3. CASE Interrupt
  <2>1. CASE TimerTick
    BY <1>1, <2>1, TimerTickSchedules
  <2>2. CASE TimerTickPended
    BY <2>2, QuietKeeps DEF TimerTickPended, listVars, priorityVars, controlVars, Quiet
  <2>3. ASSUME NEW x \in IsrNotifiable, NEW action, NotifyFromISR(x, action)
        PROVE  TopBound' /\ HighestPriorityRuns'
    BY <1>1, <2>3, NotifyFromISRSchedules, TasksAssumption
  <2>4. ASSUME NEW x \in IsrResumable, xTaskResumeFromISR(x)
        PROVE  TopBound' /\ HighestPriorityRuns'
    BY <1>1, <2>4, ResumeFromISRSchedules, TasksAssumption
  <2>. QED BY <1>3, <2>1, <2>2, <2>3, <2>4 DEF Interrupt
<1>4. ASSUME NEW t \in Task, Continue(t)
      PROVE  TopBound' /\ HighestPriorityRuns'
  <2>1. CASE MovePendingReady(t)
    BY <2>1, MovePendingReadySchedules
  <2>2. CASE ReplayTick(t)
    BY <2>2, ReplayTickSchedules
  <2>3. CASE FinishResumeAll(t)
    BY <1>1, <2>3, FinishResumeAllSchedules
  <2>4. CASE CreateYield(t)
    BY <1>1, <2>4, CreateYieldSchedules
  <2>5. CASE \/ ExitCritical(t) \/ DelayCurrent(t) \/ DelayCurrentUntil(t)
             \/ ResetUnblockTime(t) \/ IdleReap(t) \/ TakeNotification(t) \/ FinishNotifyWait(t)
    BY <1>1, <2>5, QuietSteps, QuietKeeps
  <2>. QED BY <1>4, <2>1, <2>2, <2>3, <2>4, <2>5 DEF Continue
<1>5. ASSUME NEW t \in Task, Call(t)
      PROVE  TopBound' /\ HighestPriorityRuns'
  <2>1. CASE \/ UserEnterCritical(t) \/ UserExitCritical(t) \/ vTaskSuspendAll(t)
             \/ UserResumeAll(t) \/ vTaskDelay(t) \/ vTaskDelayUntil(t)
             \/ IdleCheckTermination(t)
    BY <1>1, <2>1, QuietSteps, QuietKeeps
  <2>2. ASSUME NEW x \in Task, \/ vTaskSuspend(t, x) \/ vTaskDelete(t, x)
                               \/ xTaskNotifyStateClear(t, x)
        PROVE  TopBound' /\ HighestPriorityRuns'
    BY <1>1, <2>2, QuietSteps, QuietKeeps
  <2>3. ASSUME NEW x \in Task, vTaskResume(t, x) \/ xTaskCreate(t, x)
        PROVE  TopBound' /\ HighestPriorityRuns'
    BY <1>1, <2>3, vTaskResumeSchedules, xTaskCreateSchedules
  <2>4. ASSUME NEW x \in Task, NEW p \in NewPriorities, vTaskPrioritySet(t, x, p)
        PROVE  TopBound' /\ HighestPriorityRuns'
    BY <1>1, <2>4, vTaskPrioritySetSchedules, TasksAssumption
  <2>5. ASSUME NEW n \in NotifyWaits, ulTaskNotifyTake(t, n) \/ xTaskNotifyWait(t, n)
        PROVE  TopBound' /\ HighestPriorityRuns'
    BY <1>1, <2>5, WaitSchedules
  <2>6. ASSUME NEW x \in Task, NEW action, xTaskGenericNotify(t, x, action)
        PROVE  TopBound' /\ HighestPriorityRuns'
    BY <1>1, <2>6, xTaskGenericNotifySchedules
  <2>7. Unborn \subseteq Task /\ Suspendable \subseteq Task /\ Deletable \subseteq Task
        /\ Notifiable \subseteq Task
    BY TasksAssumption
  <2>. QED BY <1>5, <2>1, <2>2, <2>3, <2>4, <2>5, <2>6, <2>7 DEF Call
<1>6. ASSUME NEW t \in Task, Yield(t)
      PROVE  TopBound' /\ HighestPriorityRuns'
  BY <1>1, <1>6, YieldSchedules
<1>. QED BY <1>2, <1>3, <1>4, <1>5, <1>6 DEF Next

\* vTaskStartScheduler enters a task of the highest priority.
LEMMA StartSchedules == Init => PInv
  BY InitIInv DEF Init, PInv, TopBound, HighestPriorityRuns

LEMMA AlwaysPInv == Spec => []PInv
  BY StartSchedules, StepSchedules, PTL DEF Spec

(***************************************************************************)
(* Preemption: whatever tasks and interrupts do, a ready task that is more *)
(* urgent than the running one has a switch pending or is the task that    *)
(* xTaskCreate is about to yield to.                                       *)
(***************************************************************************)
THEOREM PreemptionCorrect == Spec => []HighestPriorityRuns
  BY AlwaysPInv, PTL DEF PInv
---------------------------------------------------------------------------
(* The idle task *)

\* The idle task is always ready: it makes no call but the clean-up of deleted tasks, and no
\* other task may suspend or delete it.
IdleInv ==
    /\ stateList[Idle] = "ready"
    /\ pc[Idle] \in {"run", "resumeAll", "replay", "exit", "reap"}
    /\ after[Idle] \in {"run", "reap"}

\* A tick makes a task ready or leaves it so.
LEMMA TickKeepsReady ==
    ASSUME NEW x \in Task, stateList[x] = "ready", xTaskIncrementTick
    PROVE  stateList'[x] = "ready"
<1>1. Switched(stateList[x]) = "ready"
  BY DEF Switched
<1>. QED BY <1>1 DEF xTaskIncrementTick

\* The control of a task moves only with its own steps.
MovesControl(t) ==
    /\ \/ UNCHANGED pc
       \/ \E l : pc' = [pc EXCEPT ![t] = l]
    /\ \/ UNCHANGED after
       \/ \E c : after' = [after EXCEPT ![t] = c]

\* No step takes the idle task out of the ready list.
LEMMA IdleStaysReady ==
    ASSUME IInv, IdleInv, Next
    PROVE  stateList'[Idle] = "ready"
<1>1. stateList \in [Task -> StateList] /\ Idle \in Task
  BY PriorityTypes, TasksAssumption
<1>2. ASSUME NEW t \in Task, Calls(t) \/ At(t, "delay") \/ At(t, "delayUntil")
      PROVE  t # Idle
  BY <1>2 DEF Calls, At, IdleInv
<1>3. ASSUME NEW t \in Task \ {Idle}, NEW n, NEW b, prvAddCurrentTaskToDelayedList(t, n, b)
      PROVE  stateList'[Idle] = "ready"
  BY <1>1, <1>3 DEF prvAddCurrentTaskToDelayedList, IdleInv
<1>4. CASE Interrupt
  BY <1>1, <1>4, TickKeepsReady
  DEF Interrupt, TimerTick, TimerTickPended, NotifyFromISR, xTaskResumeFromISR, listVars,
      IdleInv
<1>5. ASSUME NEW t \in Task, Continue(t) PROVE stateList'[Idle] = "ready"
  <2>1. CASE MovePendingReady(t)
    BY <1>1, <2>1 DEF MovePendingReady, IdleInv
  <2>2. CASE ReplayTick(t)
    BY <1>1, <2>2, TickKeepsReady DEF ReplayTick, IdleInv
  <2>3. CASE DelayCurrent(t)
    BY <1>2, <1>3, <2>3 DEF DelayCurrent
  <2>4. CASE DelayCurrentUntil(t)
    BY <1>2, <1>3, <2>4 DEF DelayCurrentUntil, IdleInv
  <2>5. CASE IdleReap(t)
    BY <1>1, <2>5 DEF IdleReap, In, IdleInv
  <2>6. CASE \/ ExitCritical(t) \/ FinishResumeAll(t) \/ ResetUnblockTime(t)
             \/ CreateYield(t) \/ TakeNotification(t) \/ FinishNotifyWait(t)
    BY <2>6 DEF ExitCritical, FinishResumeAll, ResetUnblockTime, CreateYield,
       TakeNotification, FinishNotifyWait, listVars, IdleInv
  <2>. QED BY <1>5, <2>1, <2>2, <2>3, <2>4, <2>5, <2>6 DEF Continue
<1>6. ASSUME NEW t \in Task, Call(t) PROVE stateList'[Idle] = "ready"
  <2>1. CASE \/ UserEnterCritical(t) \/ UserExitCritical(t) \/ vTaskSuspendAll(t)
             \/ UserResumeAll(t) \/ vTaskDelay(t) \/ vTaskDelayUntil(t)
             \/ IdleCheckTermination(t)
    BY <2>1 DEF UserEnterCritical, UserExitCritical, vTaskSuspendAll, UserResumeAll,
       vTaskDelay, vTaskDelayUntil, IdleCheckTermination, listVars, IdleInv
  <2>2. ASSUME NEW x \in Task \ {Idle}, \/ vTaskSuspend(t, x) \/ vTaskDelete(t, x)
        PROVE  stateList'[Idle] = "ready"
    BY <1>1, <2>2 DEF vTaskSuspend, vTaskDelete, IdleInv
  <2>3. ASSUME NEW x, \/ vTaskResume(t, x) \/ xTaskCreate(t, x)
                      \/ xTaskNotifyStateClear(t, x)
        PROVE  stateList'[Idle] = "ready"
    BY <1>1, <2>3 DEF vTaskResume, xTaskCreate, xTaskNotifyStateClear, listVars, IdleInv
  <2>4. ASSUME NEW x, NEW p, vTaskPrioritySet(t, x, p) \/ xTaskGenericNotify(t, x, p)
        PROVE  stateList'[Idle] = "ready"
    BY <1>1, <2>4 DEF vTaskPrioritySet, xTaskGenericNotify, IdleInv
  <2>5. ASSUME NEW n, ulTaskNotifyTake(t, n) \/ xTaskNotifyWait(t, n)
        PROVE  stateList'[Idle] = "ready"
    BY <1>2, <1>3, <2>5 DEF ulTaskNotifyTake, xTaskNotifyWait, IdleInv
  <2>6. Suspendable \subseteq Task \ {Idle} /\ Deletable \subseteq Task \ {Idle}
    BY TasksAssumption
  <2>. QED BY <1>6, <2>1, <2>2, <2>3, <2>4, <2>5, <2>6 DEF Call
<1>7. ASSUME NEW t \in Task, Yield(t) PROVE stateList'[Idle] = "ready"
  BY <1>7 DEF Yield, listVars, IdleInv
<1>. QED BY <1>4, <1>5, <1>6, <1>7 DEF Next

\* What the idle task does next.
LEMMA IdleStep ==
    ASSUME IInv, IdleInv, Continue(Idle) \/ Yield(Idle) \/ Call(Idle)
    PROVE  /\ pc'[Idle] \in {"run", "resumeAll", "replay", "exit", "reap"}
           /\ after'[Idle] \in {"run", "reap"}
<1>1. /\ pc \in [Task -> Label] /\ after \in [Task -> Continuation] /\ Idle \in Task
      /\ ~Calls(Idle)
  BY TasksAssumption DEF IInv, TypeOK, ControlTypeOK, Calls
<1>2. CASE \/ ExitCritical(Idle) \/ MovePendingReady(Idle) \/ ReplayTick(Idle)
           \/ FinishResumeAll(Idle) \/ IdleReap(Idle) \/ IdleCheckTermination(Idle)
  BY <1>1, <1>2 DEF ExitCritical, MovePendingReady, ReplayTick, FinishResumeAll, IdleReap,
     IdleCheckTermination, Goto, controlVars, IdleInv
<1>3. CASE \/ DelayCurrent(Idle) \/ DelayCurrentUntil(Idle) \/ ResetUnblockTime(Idle)
           \/ CreateYield(Idle) \/ TakeNotification(Idle) \/ FinishNotifyWait(Idle)
           \/ Yield(Idle) \/ UserEnterCritical(Idle) \/ UserExitCritical(Idle)
  BY <1>1, <1>3 DEF DelayCurrent, DelayCurrentUntil, ResetUnblockTime, CreateYield,
     TakeNotification, FinishNotifyWait, Yield, UserEnterCritical, UserExitCritical, At,
     IdleInv
<1>4. Call(Idle) => \/ UserEnterCritical(Idle) \/ UserExitCritical(Idle)
                    \/ IdleCheckTermination(Idle)
  BY <1>1 DEF Call, vTaskSuspendAll, UserResumeAll, vTaskDelay, vTaskDelayUntil,
     vTaskSuspend, vTaskResume, vTaskPrioritySet, xTaskCreate, vTaskDelete, ulTaskNotifyTake,
     xTaskNotifyWait, xTaskGenericNotify, xTaskNotifyStateClear
<1>. QED BY <1>2, <1>3, <1>4 DEF Continue

\* A step of a task leaves the control of the others alone.
LEMMA OwnControl ==
    ASSUME NEW t \in Task, Continue(t) \/ Yield(t) \/ Call(t)
    PROVE  MovesControl(t)
<1>1. CASE Continue(t) \/ Yield(t)
  BY <1>1 DEF Continue, ExitCritical, MovePendingReady, ReplayTick, FinishResumeAll,
     DelayCurrent, DelayCurrentUntil, ResetUnblockTime, CreateYield, IdleReap,
     TakeNotification, FinishNotifyWait, Yield, Goto, controlVars, MovesControl
<1>2. CASE Call(t)
  BY <1>2 DEF Call, UserEnterCritical, UserExitCritical, vTaskSuspendAll, UserResumeAll,
     vTaskDelay, vTaskDelayUntil, vTaskSuspend, vTaskResume, vTaskPrioritySet, xTaskCreate,
     vTaskDelete, IdleCheckTermination, ulTaskNotifyTake, xTaskNotifyWait,
     xTaskGenericNotify, xTaskNotifyStateClear, YieldThenExit, Goto, controlVars,
     MovesControl
<1>. QED BY <1>1, <1>2

\* Every step keeps the idle task ready.
LEMMA StepKeepsIdle == IInv /\ IdleInv /\ [Next]_vars => IdleInv'
<1>. SUFFICES ASSUME IInv, IdleInv, [Next]_vars PROVE IdleInv'
  OBVIOUS
<1>1. CASE UNCHANGED vars
  BY <1>1 DEF vars, listVars, controlVars, IdleInv
<1>2. CASE Interrupt
  <2>1. UNCHANGED <<pc, after>>
    BY <1>2 DEF Interrupt, TimerTick, TimerTickPended, NotifyFromISR, xTaskResumeFromISR,
       controlVars
  <2>. QED BY <1>2, <2>1, IdleStaysReady DEF Next, IdleInv
<1>3. ASSUME NEW t \in Task, Continue(t) \/ Yield(t) \/ Call(t) PROVE IdleInv'
  <2>1. stateList'[Idle] = "ready"
    BY <1>3, IdleStaysReady DEF Next
  <2>2. CASE t = Idle
    BY <1>3, <2>1, <2>2, IdleStep DEF IdleInv
  <2>3. CASE t # Idle
    <3>1. pc'[Idle] = pc[Idle] /\ after'[Idle] = after[Idle]
      BY <1>3, <2>3, OwnControl, TasksAssumption DEF MovesControl, IInv, TypeOK, ControlTypeOK
    <3>. QED BY <2>1, <3>1 DEF IdleInv
  <2>. QED BY <2>2, <2>3
<1>. QED BY <1>1, <1>2, <1>3 DEF Next

(***************************************************************************)
(* The selection loop finds a task: the idle task is ready whenever a task *)
(* is selected, and the loop starts at or above the highest ready one, so  *)
(* its assertion that it does not run past priority 0 holds.               *)
(***************************************************************************)
THEOREM SelectionCorrect == Spec => []SelectionFindsTask
<1>1. Init => IdleInv
  BY TasksAssumption DEF Init, IdleInv
<1>2. PInv /\ IdleInv => SelectionFindsTask
  BY TasksAssumption DEF PInv, TopBound, IdleInv, SelectionFindsTask, Ready, In
<1>3. Spec => []IdleInv
  BY <1>1, StepKeepsIdle, AlwaysIInv, PTL DEF Spec
<1>. QED BY <1>2, <1>3, AlwaysPInv, PTL
---------------------------------------------------------------------------
(* Task notifications: a task that blocks for one and is not suspended is  *)
(* WAITING, so that the next notification finds it.                        *)

Blocked == {"delayed", "overflow", "suspended"}

\* Task t is in a list it leaves when it is notified, or when its time is over.
Asleep(t) == stateList[t] \in Blocked /\ t \notin PendingReady \union userSuspended

\* A task has a wait to finish only inside the critical section it blocks in.
WaitsInSection == \A t \in Task : after[t] \in {"take", "wait"} => pc[t] = "exit"

NInv == WaitsInSection /\ BlockedWaitersAreNotified

\* A task that is still asleep after a step was so before, and was not notified.
SleepsOn(t) ==
    Asleep(t)' => Asleep(t) /\ ucNotifyState'[t] = ucNotifyState[t]
                            /\ ulNotifiedValue'[t] = ulNotifiedValue[t]

\* Tasks outside of W begin no wait.
LEMMA NothingNew ==
    ASSUME NInv, NEW W \in SUBSET Task,
           \A u \in Task \ W : \/ after'[u] \notin {"take", "wait"}
                               \/ pc'[u] = pc[u] /\ after'[u] = after[u] /\ SleepsOn(u),
           \A u \in W : after'[u] \in {"take", "wait"} =>
               pc'[u] = "exit" /\ (Asleep(u)' => /\ ucNotifyState'[u] = "WAITING"
                                                 /\ after'[u] = "take" => ulNotifiedValue'[u] = 0)
    PROVE  NInv'
<1>1. WaitsInSection'
  BY DEF NInv, WaitsInSection
<1>2. ASSUME NEW u \in Task, pc'[u] = "exit", after'[u] \in {"take", "wait"}, Asleep(u)'
      PROVE  ucNotifyState'[u] = "WAITING" /\ (after'[u] = "take" => ulNotifiedValue'[u] = 0)
  <2>1. CASE u \in W
    BY <1>2, <2>1
  <2>2. CASE u \notin W
    BY <1>2, <2>2 DEF NInv, BlockedWaitersAreNotified, SleepsOn, Asleep, Blocked
  <2>. QED BY <2>1, <2>2
<1>. QED BY <1>1, <1>2 DEF NInv, BlockedWaitersAreNotified, Asleep, Blocked

\* A step that makes tasks ready at most leaves the others as they were.
LEMMA SleepOn ==
    ASSUME NEW u \in Task,
           stateList'[u] \in Blocked => stateList[u] \in Blocked,
           stateList'[u] \in Blocked /\ eventList[u] = "pending" => eventList'[u] = "pending",
           stateList'[u] \in Blocked /\ u \in userSuspended =>
               u \in userSuspended' \/ eventList'[u] = "pending",
           UNCHANGED notifyVars
    PROVE  SleepsOn(u)
  BY DEF SleepsOn, Asleep, PendingReady, notifyVars

\* What the running task does to the others, but for notifications
LEMMA OthersSleepOn ==
    ASSUME IInv, NEW t \in Task, NEW u \in Task, u # t, Continue(t) \/ Yield(t) \/ Call(t),
           \A x \in Task, action \in NotifyAction :
              ~xTaskGenericNotify(t, x, action) /\ ~xTaskNotifyStateClear(t, x)
    PROVE  SleepsOn(u)
<1>. USE DEF IInv, TypeOK, ListTypeOK, NotifyTypeOK, AppTypeOK, Blocked
<1>1. CASE TakeNotification(t) \/ FinishNotifyWait(t)
  BY <1>1 DEF TakeNotification, FinishNotifyWait, SleepsOn, Asleep, listVars, appVars, PendingReady
<1>2. ASSUME NEW n \in NotifyWaits, ulTaskNotifyTake(t, n) \/ xTaskNotifyWait(t, n)
      PROVE  SleepsOn(u)
  <2>1. stateList'[u] = stateList[u] /\ UNCHANGED <<eventList, appVars>>
    BY <1>2 DEF ulTaskNotifyTake, xTaskNotifyWait, prvAddCurrentTaskToDelayedList
  <2>2. ucNotifyState'[u] = ucNotifyState[u] /\ ulNotifiedValue'[u] = ulNotifiedValue[u]
    BY <1>2 DEF ulTaskNotifyTake, xTaskNotifyWait, notifyVars
  <2>. QED BY <2>1, <2>2 DEF SleepsOn, Asleep, PendingReady, appVars
<1>3. CASE ReplayTick(t)
  <2>1. /\ stateList'[u] \in Blocked => stateList[u] \in Blocked
        /\ stateList'[u] \in Blocked => eventList'[u] = eventList[u]
    BY <1>3 DEF ReplayTick, xTaskIncrementTick, Switched
  <2>. QED BY <1>3, <2>1, SleepOn DEF ReplayTick, appVars
<1>4. CASE MovePendingReady(t)
  BY <1>4, SleepOn DEF MovePendingReady, PendingReady, appVars
<1>5. CASE \/ ExitCritical(t) \/ FinishResumeAll(t) \/ CreateYield(t) \/ Yield(t)
           \/ UserEnterCritical(t) \/ UserExitCritical(t) \/ vTaskSuspendAll(t)
           \/ UserResumeAll(t) \/ vTaskDelay(t) \/ vTaskDelayUntil(t) \/ ResetUnblockTime(t)
           \/ IdleCheckTermination(t)
  BY <1>5, SleepOn
  DEF ExitCritical, FinishResumeAll, CreateYield, Yield, UserEnterCritical, UserExitCritical,
      vTaskSuspendAll, UserResumeAll, vTaskDelay, vTaskDelayUntil, ResetUnblockTime,
      IdleCheckTermination, listVars, appVars
<1>6. CASE DelayCurrent(t) \/ DelayCurrentUntil(t)
  BY <1>6, SleepOn DEF DelayCurrent, DelayCurrentUntil, prvAddCurrentTaskToDelayedList, appVars
<1>7. ASSUME NEW x \in Task, vTaskSuspend(t, x) \/ vTaskDelete(t, x)
      PROVE  SleepsOn(u)
  BY <1>7, SleepOn DEF vTaskSuspend, vTaskDelete, SleepsOn, Asleep, notifyVars, PendingReady
<1>8. ASSUME NEW x \in Task, vTaskResume(t, x)
      PROVE  SleepsOn(u)
  BY <1>8, SleepOn DEF vTaskResume
<1>9. ASSUME NEW x \in Task, NEW p, vTaskPrioritySet(t, x, p)
      PROVE  SleepsOn(u)
  BY <1>9, SleepOn DEF vTaskPrioritySet, appVars
<1>10. ASSUME NEW x \in Task, xTaskCreate(t, x)
       PROVE  SleepsOn(u)
  BY <1>10, SleepOn DEF xTaskCreate, appVars
<1>11. CASE IdleReap(t)
  BY <1>11, SleepOn DEF IdleReap, appVars
<1>12. CASE Continue(t) \/ Yield(t)
  BY <1>12, <1>1, <1>3, <1>4, <1>5, <1>6, <1>11 DEF Continue
<1>13. CASE Call(t)
  <2>1. /\ \A x \in Suspendable : x \in Task
        /\ \A x \in Unborn \union Deletable \union Notifiable : x \in Task
        /\ \A action \in NotifyActions : action \in NotifyAction
    BY TasksAssumption
  <2>2. ~\E x \in Notifiable : \/ \E action \in NotifyActions : xTaskGenericNotify(t, x, action)
                               \/ xTaskNotifyStateClear(t, x)
    BY <2>1 DEF NotifyAction
  <2>. QED BY <1>13, <1>2, <1>5, <1>7, <1>8, <1>9, <1>10, <2>1, <2>2 DEF Call
<1>. QED BY <1>12, <1>13

\* What a step of task t makes of its own wait, but for the two calls that begin one
LEMMA OwnWait ==
    ASSUME IInv, NInv, NEW t \in Task, Continue(t) \/ Yield(t) \/ Call(t),
           \A n \in NotifyWaits : ~ulTaskNotifyTake(t, n) /\ ~xTaskNotifyWait(t, n)
    PROVE  after'[t] \notin {"take", "wait"}
<1>. USE DEF IInv, TypeOK, ControlTypeOK, Continuation
<1>1. pc[t] # "exit" => after[t] \notin {"take", "wait"}
  BY DEF NInv, WaitsInSection
<1>2. CASE Continue(t) \/ Yield(t)
  BY <1>1, <1>2
  DEF Continue, ExitCritical, MovePendingReady, ReplayTick, FinishResumeAll,
      DelayCurrent, DelayCurrentUntil, ResetUnblockTime, CreateYield, IdleReap,
      TakeNotification, FinishNotifyWait, Yield, controlVars, At, Calls
<1>3. ASSUME NEW yields, NEW top, YieldThenExit(t, yields, "run", top), Calls(t)
      PROVE  after'[t] \notin {"take", "wait"}
  BY <1>1, <1>3 DEF YieldThenExit, Calls, At
<1>4. CASE Call(t)
  BY <1>1, <1>3, <1>4
  DEF Call, UserEnterCritical, UserExitCritical, vTaskSuspendAll, UserResumeAll,
      vTaskDelay, vTaskDelayUntil, vTaskSuspend, vTaskResume, vTaskPrioritySet, xTaskCreate,
      vTaskDelete, IdleCheckTermination, xTaskGenericNotify, xTaskNotifyStateClear,
      controlVars, At, Calls
<1>. QED BY <1>2, <1>4

\* The calls that begin a wait
LEMMA WaitBegins ==
    ASSUME IInv, NInv, NEW t \in Task, NEW n \in NotifyWaits,
           ulTaskNotifyTake(t, n) \/ xTaskNotifyWait(t, n)
    PROVE  after'[t] \in {"take", "wait"} =>
               pc'[t] = "exit" /\ (Asleep(t)' => /\ ucNotifyState'[t] = "WAITING"
                                                 /\ after'[t] = "take" => ulNotifiedValue'[t] = 0)
<1>. USE DEF IInv, TypeOK, ControlTypeOK, NotifyTypeOK
<1>1. pc[t] = "run" /\ after[t] \notin {"take", "wait"}
  BY DEF NInv, WaitsInSection, ulTaskNotifyTake, xTaskNotifyWait, Calls, At
<1>2. CASE ulTaskNotifyTake(t, n)
  <2>1. YieldThenExit(t, ulNotifiedValue[t] = 0 /\ n > 0, "take", uxTopReadyPriority)
    BY <1>2 DEF ulTaskNotifyTake
  <2>2. /\ UNCHANGED ulNotifiedValue
        /\ ulNotifiedValue[t] = 0 => ucNotifyState' = [ucNotifyState EXCEPT ![t] = "WAITING"]
    BY <1>2 DEF ulTaskNotifyTake
  <2>. QED BY <1>1, <2>1, <2>2 DEF YieldThenExit, Goto
<1>3. CASE xTaskNotifyWait(t, n)
  <2>1. YieldThenExit(t, ucNotifyState[t] # "RECEIVED" /\ n > 0, "wait", uxTopReadyPriority)
    BY <1>3 DEF xTaskNotifyWait
  <2>2. ucNotifyState[t] # "RECEIVED" => ucNotifyState' = [ucNotifyState EXCEPT ![t] = "WAITING"]
    BY <1>3 DEF xTaskNotifyWait
  <2>. QED BY <1>1, <2>1, <2>2 DEF YieldThenExit, Goto
<1>. QED BY <1>2, <1>3

\* Whoever is notified was WAITING and is woken, or was not asleep in a wait.
LEMMA NotifiedTask ==
    ASSUME IInv, NInv, NEW x \in Task, NEW action, RecordNotification(x, action),
           ucNotifyState[x] = "WAITING" =>
               stateList'[x] = "ready" \/ eventList'[x] = "pending",
           ucNotifyState[x] # "WAITING" =>
               stateList'[x] = stateList[x] /\ eventList'[x] = eventList[x],
           UNCHANGED userSuspended, pc'[x] = pc[x], after'[x] = after[x]
    PROVE  /\ \A u \in Task \ {x} : /\ ucNotifyState'[u] = ucNotifyState[u]
                                    /\ ulNotifiedValue'[u] = ulNotifiedValue[u]
           /\ after'[x] \in {"take", "wait"} => pc'[x] = "exit" /\ ~Asleep(x)'
<1>1. \A u \in Task \ {x} : /\ ucNotifyState'[u] = ucNotifyState[u]
                            /\ ulNotifiedValue'[u] = ulNotifiedValue[u]
  BY DEF RecordNotification, IInv, TypeOK, NotifyTypeOK
<1>2. ASSUME after'[x] \in {"take", "wait"}
      PROVE  pc'[x] = "exit" /\ ~Asleep(x)'
  <2>1. pc[x] = "exit"
    BY <1>2 DEF NInv, WaitsInSection
  <2>2. Asleep(x) => ucNotifyState[x] = "WAITING"
    BY <1>2, <2>1 DEF NInv, BlockedWaitersAreNotified, Asleep, Blocked
  <2>. QED BY <2>1, <2>2 DEF Asleep, Blocked, PendingReady
<1>. QED BY <1>1, <1>2

LEMMA StepNotifies == IInv /\ NInv /\ [Next]_vars => NInv'
<1>. SUFFICES ASSUME IInv, NInv, [Next]_vars PROVE NInv'
  OBVIOUS
<1>0. pc \in [Task -> Label] /\ after \in [Task -> Continuation]
  BY DEF IInv, TypeOK, ControlTypeOK
<1>1. CASE UNCHANGED vars
  BY <1>1 DEF vars, listVars, notifyVars, controlVars, appVars, NInv, WaitsInSection,
     BlockedWaitersAreNotified, PendingReady
<1>2. ASSUME NEW t \in Task, Continue(t) \/ Yield(t) \/ Call(t),
             \A x \in Task, action \in NotifyAction :
                ~xTaskGenericNotify(t, x, action) /\ ~xTaskNotifyStateClear(t, x)
      PROVE  NInv'
  <2>1. \A u \in Task \ {t} : pc'[u] = pc[u] /\ after'[u] = after[u] /\ SleepsOn(u)
    BY <1>0, <1>2, OwnControl, OthersSleepOn DEF MovesControl
  <2>2. CASE \A n \in NotifyWaits : ~ulTaskNotifyTake(t, n) /\ ~xTaskNotifyWait(t, n)
    <3>1. after'[t] \notin {"take", "wait"}
      BY <1>2, <2>2, OwnWait
    <3>2. {t} \in SUBSET Task
      OBVIOUS
    <3>. QED BY <2>1, <3>1, <3>2, NothingNew
  <2>3. ASSUME NEW n \in NotifyWaits, ulTaskNotifyTake(t, n) \/ xTaskNotifyWait(t, n)
        PROVE  NInv'
    <3>1. after'[t] \in {"take", "wait"} =>
               pc'[t] = "exit" /\ (Asleep(t)' => /\ ucNotifyState'[t] = "WAITING"
                                                 /\ after'[t] = "take" => ulNotifiedValue'[t] = 0)
      BY <2>3, WaitBegins
    <3>2. {t} \in SUBSET Task
      OBVIOUS
    <3>. QED BY <2>1, <3>1, <3>2, NothingNew
  <2>. QED BY <2>2, <2>3
<1>3. ASSUME NEW t \in Task, NEW x \in Task, NEW action, xTaskGenericNotify(t, x, action)
      PROVE  NInv'
  <2>1. /\ RecordNotification(x, action) /\ UNCHANGED <<eventList, userSuspended>>
        /\ ucNotifyState[x] = "WAITING" => stateList' = [stateList EXCEPT ![x] = "ready"]
        /\ ucNotifyState[x] # "WAITING" => UNCHANGED stateList
    BY <1>3 DEF xTaskGenericNotify, appVars
  <2>2. /\ pc[t] = "run" /\ after[t] \notin {"take", "wait"} /\ after'[t] \notin {"take", "wait"}
        /\ \A u \in Task \ {t} : pc'[u] = pc[u] /\ after'[u] = after[u]
    BY <1>0, <1>3 DEF xTaskGenericNotify, YieldThenExit, Goto, Calls, At, NInv, WaitsInSection
  <2>3. stateList \in [Task -> StateList]
    BY DEF IInv, TypeOK, ListTypeOK
  <2>4. \A u \in Task \ {x} : /\ ucNotifyState'[u] = ucNotifyState[u]
                              /\ ulNotifiedValue'[u] = ulNotifiedValue[u]
    BY <2>1 DEF RecordNotification, IInv, TypeOK, NotifyTypeOK
  <2>5. \A u \in Task \ {x} : SleepsOn(u)
    BY <2>1, <2>3, <2>4 DEF SleepsOn, Asleep, PendingReady
  <2>6. CASE x = t
    <3>1. {x} \in SUBSET Task
      OBVIOUS
    <3>. QED BY <2>2, <2>5, <2>6, <3>1, NothingNew
  <2>7. CASE x # t
    <3>1. after'[x] \in {"take", "wait"} => pc'[x] = "exit" /\ ~Asleep(x)'
      BY <2>1, <2>2, <2>3, <2>7, NotifiedTask
    <3>2. {x} \in SUBSET Task
      OBVIOUS
    <3>. QED BY <2>2, <2>5, <3>1, <3>2, NothingNew
  <2>. QED BY <2>6, <2>7
<1>4. ASSUME NEW t \in Task, NEW x \in Task, xTaskNotifyStateClear(t, x)
      PROVE  NInv'
  <2>1. /\ ucNotifyState[x] = "RECEIVED" /\ UNCHANGED <<listVars, ulNotifiedValue, pc, after, appVars>>
        /\ ucNotifyState' = [ucNotifyState EXCEPT ![x] = "NOT_WAITING"]
    BY <1>4 DEF xTaskNotifyStateClear, controlVars
  <2>2. \A u \in Task \ {x} : SleepsOn(u)
    BY <2>1 DEF SleepsOn, Asleep, PendingReady, listVars, appVars, IInv, TypeOK, NotifyTypeOK
  <2>3. after'[x] \in {"take", "wait"} => pc'[x] = "exit" /\ ~Asleep(x)'
    BY <2>1 DEF NInv, WaitsInSection, BlockedWaitersAreNotified, Asleep, Blocked, PendingReady,
       listVars, appVars
  <2>4. {x} \in SUBSET Task
    OBVIOUS
  <2>. QED BY <2>1, <2>2, <2>3, <2>4, NothingNew
<1>5. CASE TimerTick \/ TimerTickPended
  <2>1. ASSUME NEW u \in Task PROVE SleepsOn(u)
    <3>1. CASE TimerTick
      <4>1. /\ stateList'[u] \in Blocked => stateList[u] \in Blocked
            /\ stateList'[u] \in Blocked => eventList'[u] = eventList[u]
        BY <3>1 DEF TimerTick, xTaskIncrementTick, Switched, Blocked
      <4>. QED BY <3>1, <4>1, SleepOn DEF TimerTick, appVars
    <3>2. CASE TimerTickPended
      BY <3>2, SleepOn DEF TimerTickPended, listVars, appVars
    <3>. QED BY <1>5, <3>1, <3>2
  <2>2. UNCHANGED <<pc, after>>
    BY <1>5 DEF TimerTick, TimerTickPended, controlVars
  <2>3. {} \in SUBSET Task
    OBVIOUS
  <2>. QED BY <2>1, <2>2, <2>3, NothingNew
<1>6. ASSUME NEW x \in Task, NEW action, NotifyFromISR(x, action)
      PROVE  NInv'
  <2>1. /\ RecordNotification(x, action) /\ UNCHANGED <<userSuspended, pc, after>>
        /\ stateList' = IF ucNotifyState[x] = "WAITING" /\ uxSchedulerSuspended = 0
                        THEN [stateList EXCEPT ![x] = "ready"] ELSE stateList
        /\ eventList' = IF ucNotifyState[x] = "WAITING" /\ uxSchedulerSuspended > 0
                        THEN [eventList EXCEPT ![x] = "pending"] ELSE eventList
    BY <1>6 DEF NotifyFromISR, controlVars, appVars
  <2>2. /\ stateList \in [Task -> StateList] /\ eventList \in [Task -> EventList]
        /\ uxSchedulerSuspended = 0 \/ uxSchedulerSuspended > 0
    BY DEF IInv, TypeOK, ListTypeOK, SuspendTypeOK
  <2>3. /\ \A u \in Task \ {x} : /\ ucNotifyState'[u] = ucNotifyState[u]
                                 /\ ulNotifiedValue'[u] = ulNotifiedValue[u]
        /\ after'[x] \in {"take", "wait"} => pc'[x] = "exit" /\ ~Asleep(x)'
    BY <2>1, <2>2, NotifiedTask
  <2>4. \A u \in Task \ {x} : SleepsOn(u)
    BY <2>1, <2>2, <2>3 DEF SleepsOn, Asleep, PendingReady
  <2>5. {x} \in SUBSET Task
    OBVIOUS
  <2>. QED BY <2>1, <2>3, <2>4, <2>5, NothingNew
<1>7. ASSUME NEW x \in Task, xTaskResumeFromISR(x)
      PROVE  NInv'
  <2>1. stateList \in [Task -> StateList] /\ eventList \in [Task -> EventList]
    BY DEF IInv, TypeOK, ListTypeOK
  <2>2. /\ eventList[x] = "none" /\ userSuspended' = userSuspended \ {x}
        /\ UNCHANGED <<notifyVars, pc, after>>
        /\ \/ stateList' = [stateList EXCEPT ![x] = "ready"] /\ UNCHANGED eventList
           \/ UNCHANGED stateList /\ eventList' = [eventList EXCEPT ![x] = "pending"]
    BY <1>7 DEF xTaskResumeFromISR, prvTaskIsTaskSuspended, controlVars
  <2>3. ASSUME NEW u \in Task PROVE SleepsOn(u)
    BY <2>1, <2>2 DEF SleepsOn, Asleep, PendingReady, Blocked, notifyVars
  <2>4. {} \in SUBSET Task
    OBVIOUS
  <2>. QED BY <2>2, <2>3, <2>4, NothingNew
<1>8. CASE Interrupt
  BY <1>5, <1>6, <1>7, <1>8, TasksAssumption DEF Interrupt
<1>. QED BY <1>1, <1>2, <1>3, <1>4, <1>8 DEF Next

(***************************************************************************)
(* No lost notification: a task that blocks in ulTaskNotifyTake or         *)
(* xTaskNotifyWait is WAITING for as long as it is blocked and not         *)
(* suspended, and has missed none, whatever notifies, suspends, resumes    *)
(* and deletes it meanwhile.                                               *)
(***************************************************************************)
THEOREM NotificationsReachWaiters == Spec => []BlockedWaitersAreNotified
<1>1. Init => NInv
  BY DEF Init, NInv, WaitsInSection, BlockedWaitersAreNotified
<1>2. NInv => BlockedWaitersAreNotified
  BY DEF NInv
<1>. QED BY <1>1, <1>2, StepNotifies, AlwaysIInv, PTL DEF Spec
---------------------------------------------------------------------------
(* The running task, and the tasks in the event lists of queues and event  *)
(* groups: what the proofs about those build on.                           *)

(***************************************************************************)
(* The running task is in its ready list, or on its way to the switch that *)
(* ends a call in which it blocks, suspends or deletes itself; no code of  *)
(* the application runs in between, and nothing keeps the switch from it.  *)
(***************************************************************************)
RunsOrLeaves ==
    stateList[pxCurrentTCB] # "ready" =>
        \/ /\ pc[pxCurrentTCB] \in {"resumeAll"} \union ObjectLabels
           /\ after[pxCurrentTCB] = "yieldUnless" /\ uxSchedulerSuspended = 1
        \/ /\ pc[pxCurrentTCB] = "replay" /\ after[pxCurrentTCB] = "yieldUnless"
           /\ uxSchedulerSuspended = 0
        \/ /\ pc[pxCurrentTCB] \in {"exit", "reset"} /\ after[pxCurrentTCB] = "yield"
           /\ uxSchedulerSuspended = 0
        \/ pc[pxCurrentTCB] = "yield" /\ uxSchedulerSuspended = 0

\* A task delays itself under a vTaskSuspendAll that is not nested.
DelaysAtOnce == \A t \in Task : pc[t] \in {"delay", "delayUntil"} => uxSchedulerSuspended = 1

\* Only a task in a notification call is WAITING.
NotifiedInWait ==
    \A t \in Task : ucNotifyState[t] = "WAITING" =>
        \/ pc[t] \in {"take", "wait"}
        \/ pc[t] = "exit" /\ after[t] \in {"take", "wait"}

\* A task in the event list of a queue or an event group is blocked, and not in such a call.
OnObjects ==
    \A t \in Task : eventList[t] \in ObjectLists =>
        stateList[t] \in Blocked /\ ucNotifyState[t] # "WAITING"

RInv == RunsOrLeaves /\ DelaysAtOnce /\ NotifiedInWait /\ OnObjects

\* The types that the steps below rely on.
LEMMA ListTypes ==
    ASSUME IInv
    PROVE  /\ pxCurrentTCB \in Task /\ uxSchedulerSuspended \in Nat
           /\ stateList \in [Task -> StateList] /\ eventList \in [Task -> EventList]
           /\ pc \in [Task -> Label] /\ after \in [Task -> Continuation]
           /\ ucNotifyState \in [Task -> NotifyState]
  BY DEF IInv, TypeOK, SwitchTypeOK, SuspendTypeOK, ListTypeOK, ControlTypeOK, NotifyTypeOK

\* A switch runs a task that is ready, or is put off.
LEMMA SwitchRuns ==
    ASSUME NEW top, vTaskSwitchContext(top)
    PROVE  \/ uxSchedulerSuspended # 0 /\ UNCHANGED pxCurrentTCB
           \/ stateList'[pxCurrentTCB'] = "ready"
  BY DEF vTaskSwitchContext, Selectable

\* A task at one of these points is ready.
LEMMA ReadyThere ==
    ASSUME IInv, RunsOrLeaves, NEW t \in Task, pxCurrentTCB = t,
           pc[t] \notin {"resumeAll", "replay", "exit", "reset", "yield"} \union ObjectLabels
    PROVE  stateList[t] = "ready"
  BY DEF RunsOrLeaves

\* A critical section that may end in a yield leaves a task running that is ready.
LEMMA SectionRuns ==
    ASSUME IInv, NEW t \in Task, pxCurrentTCB = t, stateList'[t] = "ready",
           NEW top, vTaskSwitchContext(top) \/ NoSwitch(top)
    PROVE  stateList'[pxCurrentTCB'] = "ready"
  BY SwitchRuns DEF NoSwitch

\* An interrupt leaves the running task where it is, or switches to one that is ready.
LEMMA InterruptRuns ==
    ASSUME IInv, RunsOrLeaves, Interrupt
    PROVE  RunsOrLeaves'
<1>1. stateList \in [Task -> StateList] /\ pxCurrentTCB \in Task
  BY ListTypes
<1>2. SUFFICES ASSUME ~(stateList'[pxCurrentTCB'] = "ready")
               PROVE  /\ UNCHANGED <<pxCurrentTCB, pc, after, uxSchedulerSuspended>>
                      /\ stateList[pxCurrentTCB] # "ready"
  BY DEF RunsOrLeaves
<1>3. CASE TimerTick
  <2>1. UNCHANGED <<pc, after, uxSchedulerSuspended>> /\ uxSchedulerSuspended = 0
    BY <1>3 DEF TimerTick, controlVars, suspendVars
  <2>2. UNCHANGED pxCurrentTCB
    BY <1>2, <1>3, <2>1, SwitchRuns DEF TimerTick, NoSwitch
  <2>3. stateList[pxCurrentTCB] # "ready"
    BY <1>1, <1>2, <1>3, <2>2, TickKeepsReady DEF TimerTick
  <2>. QED BY <2>1, <2>2, <2>3
<1>4. CASE TimerTickPended
  BY <1>2, <1>4 DEF TimerTickPended, controlVars, listVars, switchVars
<1>5. ASSUME NEW x, NEW action, NotifyFromISR(x, action)
      PROVE  /\ UNCHANGED <<pxCurrentTCB, pc, after, uxSchedulerSuspended>>
             /\ stateList[pxCurrentTCB] # "ready"
  <2>1. UNCHANGED <<pc, after, uxSchedulerSuspended>>
    BY <1>5 DEF NotifyFromISR, controlVars, suspendVars
  <2>2. UNCHANGED pxCurrentTCB
    BY <1>2, <1>5, SwitchRuns DEF NotifyFromISR, NoSwitch
  <2>3. stateList[pxCurrentTCB] # "ready"
    BY <1>1, <1>2, <1>5, <2>2 DEF NotifyFromISR
  <2>. QED BY <2>1, <2>2, <2>3
<1>6. ASSUME NEW x, xTaskResumeFromISR(x)
      PROVE  /\ UNCHANGED <<pxCurrentTCB, pc, after, uxSchedulerSuspended>>
             /\ stateList[pxCurrentTCB] # "ready"
  <2>1. UNCHANGED <<pc, after, uxSchedulerSuspended>>
    BY <1>6 DEF xTaskResumeFromISR, controlVars, suspendVars
  <2>2. UNCHANGED pxCurrentTCB
    BY <1>2, <1>6, SwitchRuns DEF xTaskResumeFromISR, NoSwitch, switchVars
  <2>3. stateList[pxCurrentTCB] # "ready"
    BY <1>1, <1>2, <1>6, <2>2 DEF xTaskResumeFromISR
  <2>. QED BY <2>1, <2>2, <2>3
<1>. QED BY <1>3, <1>4, <1>5, <1>6 DEF Interrupt

\* The rest of a call goes on to its switch.
LEMMA ContinueRuns ==
    ASSUME IInv, RInv, NEW t \in Task, Continue(t)
    PROVE  RunsOrLeaves'
<1>. USE DEF RInv
<1>1. /\ stateList \in [Task -> StateList] /\ pxCurrentTCB \in Task
      /\ pc \in [Task -> Label] /\ after \in [Task -> Continuation]
      /\ uxSchedulerSuspended \in Nat
  BY ListTypes
<1>2. CASE ExitCritical(t)
  BY <1>1, <1>2, ApartFromObjects DEF ExitCritical, At, Goto, switchVars, listVars, suspendVars, RunsOrLeaves
<1>3. CASE MovePendingReady(t)
  <2>1. pxCurrentTCB = t /\ pc[t] = "resumeAll" /\ UNCHANGED pxCurrentTCB
    BY <1>3 DEF MovePendingReady, At
  <2>2. CASE stateList[t] = "ready"
    <3>1. stateList'[t] = "ready"
      BY <1>1, <1>3, <2>2 DEF MovePendingReady
    <3>. QED BY <2>1, <3>1 DEF RunsOrLeaves
  <2>3. CASE stateList[t] # "ready"
    <3>1. after[t] = "yieldUnless" /\ uxSchedulerSuspended = 1
      BY <2>1, <2>3 DEF RunsOrLeaves
    <3>2. pc'[t] = "replay" /\ after'[t] = "yieldUnless" /\ uxSchedulerSuspended' = 0
      BY <1>1, <1>3, <3>1 DEF MovePendingReady, Goto
    <3>. QED BY <2>1, <3>2 DEF RunsOrLeaves
  <2>. QED BY <2>2, <2>3
<1>4. CASE ReplayTick(t)
  <2>1. UNCHANGED <<pxCurrentTCB, pc, after, uxSchedulerSuspended>>
    BY <1>4 DEF ReplayTick, controlVars
  <2>2. stateList[pxCurrentTCB] = "ready" => stateList'[pxCurrentTCB] = "ready"
    BY <1>1, <1>4, TickKeepsReady DEF ReplayTick
  <2>. QED BY <2>1, <2>2 DEF RunsOrLeaves
<1>5. CASE FinishResumeAll(t)
  <2>1. /\ pxCurrentTCB = t /\ pc[t] = "replay" /\ UNCHANGED <<stateList, uxSchedulerSuspended>>
        /\ pc'[t] = "exit"
    BY <1>1, <1>5 DEF FinishResumeAll, At, Goto, listVars, suspendVars
  <2>2. CASE vTaskSwitchContext(uxTopReadyPriority)
    <3>1. \/ stateList'[pxCurrentTCB'] = "ready"
          \/ UNCHANGED pxCurrentTCB /\ uxSchedulerSuspended # 0
      BY <2>2, SwitchRuns
    <3>2. uxSchedulerSuspended # 0 => stateList[t] = "ready"
      BY <2>1, ApartFromObjects DEF RunsOrLeaves
    <3>. QED BY <2>1, <3>1, <3>2 DEF RunsOrLeaves
  <2>3. CASE /\ NoSwitch(uxTopReadyPriority)
             /\ after' = [after EXCEPT ![t] = IF @ = "yieldUnless" THEN "yield" ELSE @]
    BY <1>1, <2>1, <2>3, ApartFromObjects DEF NoSwitch, RunsOrLeaves
  <2>. QED BY <1>5, <2>2, <2>3 DEF FinishResumeAll
<1>6. CASE DelayCurrent(t) \/ DelayCurrentUntil(t)
  <2>1. /\ pxCurrentTCB = t /\ pc[t] \in {"delay", "delayUntil"} /\ pc'[t] = "resumeAll"
        /\ after'[t] = "yieldUnless" /\ UNCHANGED <<pxCurrentTCB, uxSchedulerSuspended>>
    BY <1>1, <1>6 DEF DelayCurrent, DelayCurrentUntil, At, Goto, switchVars, suspendVars
  <2>. QED BY <2>1 DEF RunsOrLeaves, DelaysAtOnce
<1>7. CASE ResetUnblockTime(t)
  BY <1>1, <1>7, ApartFromObjects DEF ResetUnblockTime, At, Goto, switchVars, listVars, suspendVars, RunsOrLeaves
<1>8. CASE CreateYield(t)
  <2>1. pxCurrentTCB = t /\ stateList[t] = "ready" /\ UNCHANGED stateList
    BY <1>8, ReadyThere, ApartFromObjects DEF CreateYield, At, listVars
  <2>2. stateList'[pxCurrentTCB'] = "ready"
    BY <1>8, <2>1, SwitchRuns DEF CreateYield, NoSwitch
  <2>. QED BY <2>2 DEF RunsOrLeaves
<1>9. CASE IdleReap(t) \/ TakeNotification(t) \/ FinishNotifyWait(t)
  <2>1. pxCurrentTCB = t /\ stateList[t] = "ready" /\ UNCHANGED pxCurrentTCB
    BY <1>9, ReadyThere, ApartFromObjects
    DEF IdleReap, TakeNotification, FinishNotifyWait, At, switchVars
  <2>2. stateList'[t] = "ready"
    BY <1>1, <1>9, <2>1 DEF IdleReap, TakeNotification, FinishNotifyWait, listVars, In
  <2>. QED BY <2>1, <2>2 DEF RunsOrLeaves
<1>. QED BY <1>2, <1>3, <1>4, <1>5, <1>6, <1>7, <1>8, <1>9 DEF Continue

\* A task that makes a call goes on being ready, switches, or is on its way to a switch.
LEMMA CallRuns ==
    ASSUME IInv, RInv, NEW t \in Task, Call(t) \/ Yield(t)
    PROVE  RunsOrLeaves'
<1>. USE DEF RInv
<1>1. /\ stateList \in [Task -> StateList] /\ pxCurrentTCB \in Task
      /\ pc \in [Task -> Label] /\ after \in [Task -> Continuation]
      /\ uxSchedulerSuspended \in Nat
  BY ListTypes
<1>2. ASSUME Calls(t) PROVE pxCurrentTCB = t /\ stateList[t] = "ready"
  BY <1>2, ReadyThere, ApartFromObjects DEF Calls, At
<1>3. CASE Yield(t)
  <2>1. pxCurrentTCB = t /\ pc[t] \in {"yield", "run"} /\ UNCHANGED stateList
    BY <1>3 DEF Yield, Calls, At, listVars
  <2>2. uxSchedulerSuspended # 0 => stateList[t] = "ready"
    BY <2>1, ApartFromObjects DEF RunsOrLeaves
  <2>3. stateList'[pxCurrentTCB'] = "ready"
    BY <1>3, <2>1, <2>2, SwitchRuns DEF Yield
  <2>. QED BY <2>3 DEF RunsOrLeaves
<1>4. CASE \/ UserEnterCritical(t) \/ UserExitCritical(t) \/ vTaskSuspendAll(t)
           \/ UserResumeAll(t) \/ vTaskDelay(t) \/ vTaskDelayUntil(t)
           \/ IdleCheckTermination(t)
  <2>1. pxCurrentTCB = t /\ stateList[t] = "ready"
    BY <1>2, <1>4, ReadyThere, ApartFromObjects
    DEF UserEnterCritical, UserExitCritical, vTaskSuspendAll, UserResumeAll, vTaskDelay,
        vTaskDelayUntil, IdleCheckTermination, At
  <2>2. UNCHANGED <<pxCurrentTCB, stateList>>
    BY <1>4 DEF UserEnterCritical, UserExitCritical, vTaskSuspendAll, UserResumeAll,
       vTaskDelay, vTaskDelayUntil, IdleCheckTermination, listVars, switchVars
  <2>. QED BY <2>1, <2>2 DEF RunsOrLeaves
<1>5. ASSUME NEW x \in Task, vTaskSuspend(t, x)
      PROVE  RunsOrLeaves'
  <2>1. pxCurrentTCB = t /\ stateList[t] = "ready"
    BY <1>2, <1>5 DEF vTaskSuspend
  <2>2. UNCHANGED <<pxCurrentTCB, uxSchedulerSuspended>> /\ pc'[t] = "reset"
    BY <1>1, <1>5 DEF vTaskSuspend, switchVars, suspendVars, Goto
  <2>3. CASE x # t
    BY <1>1, <1>5, <2>1, <2>2, <2>3 DEF vTaskSuspend, RunsOrLeaves
  <2>4. CASE x = t
    BY <1>1, <1>5, <2>1, <2>2, <2>4 DEF vTaskSuspend, RunsOrLeaves
  <2>. QED BY <2>3, <2>4
<1>6. ASSUME NEW x \in Task, vTaskDelete(t, x)
      PROVE  RunsOrLeaves'
  <2>1. pxCurrentTCB = t /\ stateList[t] = "ready"
    BY <1>2, <1>6 DEF vTaskDelete
  <2>2. UNCHANGED <<pxCurrentTCB, uxSchedulerSuspended>>
    BY <1>6 DEF vTaskDelete, switchVars, suspendVars
  <2>3. CASE x # t
    BY <1>1, <1>6, <2>1, <2>2, <2>3 DEF vTaskDelete, RunsOrLeaves
  <2>4. CASE x = t
    BY <1>1, <1>6, <2>1, <2>2, <2>4 DEF vTaskDelete, RunsOrLeaves, Goto
  <2>. QED BY <2>3, <2>4
<1>7. ASSUME NEW x, xTaskCreate(t, x) \/ xTaskNotifyStateClear(t, x)
      PROVE  RunsOrLeaves'
  <2>1. pxCurrentTCB = t /\ stateList[t] = "ready"
    BY <1>2, <1>7 DEF xTaskCreate, xTaskNotifyStateClear
  <2>2. UNCHANGED pxCurrentTCB /\ stateList'[t] = "ready"
    BY <1>1, <1>7, <2>1 DEF xTaskCreate, xTaskNotifyStateClear, NoSwitch, switchVars, listVars
  <2>. QED BY <2>1, <2>2 DEF RunsOrLeaves
<1>8. ASSUME NEW x, vTaskResume(t, x)
      PROVE  RunsOrLeaves'
  <2>1. pxCurrentTCB = t /\ stateList'[t] = "ready"
    BY <1>1, <1>2, <1>8 DEF vTaskResume
  <2>2. \E top : vTaskSwitchContext(top) \/ NoSwitch(top)
    BY <1>8 DEF vTaskResume, YieldThenExit
  <2>3. stateList'[pxCurrentTCB'] = "ready"
    BY <2>1, <2>2, SectionRuns
  <2>. QED BY <2>3 DEF RunsOrLeaves
<1>9. ASSUME NEW x, NEW p, vTaskPrioritySet(t, x, p) \/ xTaskGenericNotify(t, x, p)
      PROVE  RunsOrLeaves'
  <2>1. pxCurrentTCB = t /\ stateList'[t] = "ready"
    BY <1>1, <1>2, <1>9 DEF vTaskPrioritySet, xTaskGenericNotify
  <2>2. \E top : vTaskSwitchContext(top) \/ NoSwitch(top)
    BY <1>9 DEF vTaskPrioritySet, xTaskGenericNotify, YieldThenExit
  <2>3. stateList'[pxCurrentTCB'] = "ready"
    BY <2>1, <2>2, SectionRuns
  <2>. QED BY <2>3 DEF RunsOrLeaves
<1>10. ASSUME NEW n, ulTaskNotifyTake(t, n) \/ xTaskNotifyWait(t, n)
       PROVE  RunsOrLeaves'
  <2>1. pxCurrentTCB = t /\ stateList[t] = "ready" /\ uxSchedulerSuspended = 0
    BY <1>2, <1>10 DEF ulTaskNotifyTake, xTaskNotifyWait
  <2>2. /\ \E top : vTaskSwitchContext(top) \/ NoSwitch(top)
        /\ stateList'[t] = "ready" \/ \E top : vTaskSwitchContext(top)
    BY <2>1, <1>10 DEF ulTaskNotifyTake, xTaskNotifyWait, YieldThenExit
  <2>3. stateList'[pxCurrentTCB'] = "ready"
    BY <2>1, <2>2, SectionRuns, SwitchRuns
  <2>. QED BY <2>3 DEF RunsOrLeaves
<1>11. /\ \A x \in Suspendable : x \in Task
       /\ \A x \in Deletable : x \in Task
  BY TasksAssumption
<1>. QED BY <1>3, <1>4, <1>5, <1>6, <1>7, <1>8, <1>9, <1>10, <1>11 DEF Call

LEMMA StepDelays ==
    ASSUME IInv, DelaysAtOnce, Next
    PROVE  DelaysAtOnce'
<1>1. /\ pc \in [Task -> Label] /\ pxCurrentTCB \in Task
      /\ \A u \in Task : pc[u] \in {"delay", "delayUntil"} => u = pxCurrentTCB
      /\ \A u \in Task : pc'[u] \in {"delay", "delayUntil"} => uxSchedulerSuspended' > 0
  BY ListTypes, NextIInv DEF IInv, ControlInv, SuspensionByLabel
<1>2. CASE Interrupt
  BY <1>2 DEF Interrupt, TimerTick, TimerTickPended, NotifyFromISR, xTaskResumeFromISR,
     controlVars, suspendVars, DelaysAtOnce
<1>3. ASSUME NEW t \in Task, Continue(t) \/ Yield(t) \/ Call(t), NEW u \in Task,
             pc'[u] \in {"delay", "delayUntil"}
      PROVE  uxSchedulerSuspended' = 1
  <2>1. pxCurrentTCB = t /\ (u = t \/ pc'[u] = pc[u])
    <3>1. pxCurrentTCB = t
      BY <1>3 DEF Continue, Call, Yield, ExitCritical, MovePendingReady, ReplayTick,
         FinishResumeAll, DelayCurrent, DelayCurrentUntil, ResetUnblockTime, CreateYield,
         IdleReap, TakeNotification, FinishNotifyWait, UserEnterCritical, UserExitCritical,
         vTaskSuspendAll, UserResumeAll, vTaskDelay, vTaskDelayUntil, vTaskSuspend,
         vTaskResume, vTaskPrioritySet, xTaskCreate, vTaskDelete, IdleCheckTermination,
         ulTaskNotifyTake, xTaskNotifyWait, xTaskGenericNotify, xTaskNotifyStateClear,
         Calls, At
    <3>. QED BY <1>1, <1>3, <3>1, OwnControl DEF MovesControl
  <2>2. u = t
    BY <1>1, <1>3, <2>1
  <2>3. CASE vTaskDelay(t) \/ vTaskDelayUntil(t)
    BY <2>3 DEF vTaskDelay, vTaskDelayUntil
  <2>4. CASE ~(vTaskDelay(t) \/ vTaskDelayUntil(t))
    <3>1. after[t] \notin {"delay", "delayUntil"}
      BY ListTypes, TasksAssumption DEF Continuation, SchedulerLabel
    <3>2. ~Continue(t) /\ ~Yield(t)
      BY <1>1, <1>3, <2>2, <3>1 DEF Continue, ExitCritical, MovePendingReady, ReplayTick,
         FinishResumeAll, DelayCurrent, DelayCurrentUntil, ResetUnblockTime, CreateYield,
         IdleReap, TakeNotification, FinishNotifyWait, Yield, Goto, At, controlVars
    <3>3. Call(t)
      BY <1>3, <3>2
    <3>. QED
      BY <1>1, <1>3, <2>2, <2>4, <3>3 DEF Call, UserEnterCritical, UserExitCritical,
         vTaskSuspendAll, UserResumeAll, vTaskSuspend, vTaskResume, vTaskPrioritySet,
         xTaskCreate, vTaskDelete, IdleCheckTermination, ulTaskNotifyTake, xTaskNotifyWait,
         xTaskGenericNotify, xTaskNotifyStateClear, YieldThenExit, Goto, Calls, At,
         controlVars
  <2>. QED BY <2>3, <2>4
<1>. QED BY <1>2, <1>3 DEF Next, DelaysAtOnce

\* A task begins to be WAITING in its own call, and stays in the call until it is not.
LEMMA StepNotified ==
    ASSUME IInv, NotifiedInWait, Next
    PROVE  NotifiedInWait'
<1>. USE DEF NotifiedInWait
<1>1. /\ pc \in [Task -> Label] /\ after \in [Task -> Continuation]
      /\ ucNotifyState \in [Task -> NotifyState]
  BY ListTypes
<1>2. CASE Interrupt
  BY <1>1, <1>2 DEF Interrupt, TimerTick, TimerTickPended, NotifyFromISR, xTaskResumeFromISR,
     RecordNotification, controlVars, notifyVars
<1>3. ASSUME NEW t \in Task, Continue(t) \/ Yield(t)
      PROVE  NotifiedInWait'
  <2>1. \A u \in Task \ {t} : pc'[u] = pc[u] /\ after'[u] = after[u]
    BY <1>1, <1>3, OwnControl DEF MovesControl
  <2>2. \A u \in Task \ {t} : ucNotifyState'[u] = ucNotifyState[u]
    BY <1>1, <1>3 DEF Continue, ExitCritical, MovePendingReady, ReplayTick,
       FinishResumeAll, DelayCurrent, DelayCurrentUntil, ResetUnblockTime, CreateYield,
       IdleReap, TakeNotification, FinishNotifyWait, Yield, notifyVars
  <2>3. ASSUME ucNotifyState'[t] = "WAITING"
        PROVE  \/ pc'[t] \in {"take", "wait"}
               \/ pc'[t] = "exit" /\ after'[t] \in {"take", "wait"}
    <3>1. ~TakeNotification(t) /\ ~FinishNotifyWait(t)
      BY <1>1, <2>3 DEF TakeNotification, FinishNotifyWait
    <3>2. UNCHANGED notifyVars
      BY <1>3, <3>1 DEF Continue, ExitCritical, MovePendingReady, ReplayTick,
         FinishResumeAll, DelayCurrent, DelayCurrentUntil, ResetUnblockTime, CreateYield,
         IdleReap, Yield
    <3>3. ~(pc[t] \in {"take", "wait"})
      BY <1>3, <3>1 DEF Continue, ExitCritical, MovePendingReady, ReplayTick,
         FinishResumeAll, DelayCurrent, DelayCurrentUntil, ResetUnblockTime, CreateYield,
         IdleReap, Yield, Calls, At
    <3>4. pc[t] = "exit" /\ after[t] \in {"take", "wait"}
      BY <2>3, <3>2, <3>3 DEF notifyVars
    <3>5. ExitCritical(t)
      BY <1>3, <3>1, <3>4 DEF Continue, ExitCritical, MovePendingReady, ReplayTick,
         FinishResumeAll, DelayCurrent, DelayCurrentUntil, ResetUnblockTime, CreateYield,
         IdleReap, Yield, Calls, At
    <3>. QED BY <1>1, <3>4, <3>5 DEF ExitCritical, Goto
  <2>. QED BY <2>1, <2>2, <2>3
<1>4. ASSUME NEW t \in Task, Call(t)
      PROVE  NotifiedInWait'
  <2>1. \A u \in Task \ {t} : pc'[u] = pc[u] /\ after'[u] = after[u]
    BY <1>1, <1>4, OwnControl DEF MovesControl
  <2>2. CASE \/ UserEnterCritical(t) \/ UserExitCritical(t) \/ vTaskSuspendAll(t)
             \/ UserResumeAll(t) \/ vTaskDelay(t) \/ vTaskDelayUntil(t)
             \/ IdleCheckTermination(t)
    BY <1>1, <2>1, <2>2 DEF UserEnterCritical, UserExitCritical, vTaskSuspendAll,
       UserResumeAll, vTaskDelay, vTaskDelayUntil, IdleCheckTermination, Goto, Calls, At,
       notifyVars
  <2>3. ASSUME NEW x, \/ vTaskSuspend(t, x) \/ vTaskResume(t, x) \/ xTaskCreate(t, x)
                      \/ vTaskDelete(t, x)
        PROVE  NotifiedInWait'
    BY <1>1, <2>1, <2>3 DEF vTaskSuspend, vTaskResume, xTaskCreate, vTaskDelete, Calls, At,
       notifyVars
  <2>4. ASSUME NEW x, NEW p, vTaskPrioritySet(t, x, p)
        PROVE  NotifiedInWait'
    BY <1>1, <2>1, <2>4 DEF vTaskPrioritySet, Calls, At, notifyVars
  <2>5. ASSUME NEW x, xTaskNotifyStateClear(t, x)
        PROVE  NotifiedInWait'
    BY <1>1, <2>1, <2>5 DEF xTaskNotifyStateClear, Calls, At, controlVars
  <2>6. ASSUME NEW x, NEW action, xTaskGenericNotify(t, x, action)
        PROVE  NotifiedInWait'
    BY <1>1, <2>1, <2>6 DEF xTaskGenericNotify, RecordNotification, Calls, At
  <2>7. ASSUME NEW n, ulTaskNotifyTake(t, n)
        PROVE  NotifiedInWait'
    <3>1. /\ pc[t] = "run"
          /\ YieldThenExit(t, ulNotifiedValue[t] = 0 /\ n > 0, "take", uxTopReadyPriority)
      BY <2>7 DEF ulTaskNotifyTake, Calls, At
    <3>2. \/ pc' = [pc EXCEPT ![t] = "exit"] /\ after' = [after EXCEPT ![t] = "take"]
          \/ pc' = [pc EXCEPT ![t] = "take"]
      BY <3>1 DEF YieldThenExit, Goto
    <3>3. \A u \in Task \ {t} : ucNotifyState'[u] = ucNotifyState[u]
      BY <1>1, <2>7 DEF ulTaskNotifyTake
    <3>. QED BY <1>1, <2>1, <3>2, <3>3
  <2>8. ASSUME NEW n, xTaskNotifyWait(t, n)
        PROVE  NotifiedInWait'
    <3>1. /\ pc[t] = "run"
          /\ YieldThenExit(t, ucNotifyState[t] # "RECEIVED" /\ n > 0, "wait",
                           uxTopReadyPriority)
      BY <2>8 DEF xTaskNotifyWait, Calls, At
    <3>2. \/ pc' = [pc EXCEPT ![t] = "exit"] /\ after' = [after EXCEPT ![t] = "wait"]
          \/ pc' = [pc EXCEPT ![t] = "wait"]
      BY <3>1 DEF YieldThenExit, Goto
    <3>3. \A u \in Task \ {t} : ucNotifyState'[u] = ucNotifyState[u]
      BY <1>1, <2>8 DEF xTaskNotifyWait, notifyVars
    <3>. QED BY <1>1, <2>1, <3>2, <3>3
  <2>. QED BY <1>4, <2>2, <2>3, <2>4, <2>5, <2>6, <2>7, <2>8 DEF Call
<1>. QED BY <1>2, <1>3, <1>4 DEF Next

\* No step of the scheduler puts a task into such a list, or wakes it without taking it out.
LEMMA StepOnObjects ==
    ASSUME IInv, RInv, Next
    PROVE  OnObjects'
<1>. USE DEF RInv, OnObjects, Blocked
<1>1. /\ stateList \in [Task -> StateList] /\ eventList \in [Task -> EventList]
      /\ ucNotifyState \in [Task -> NotifyState]
      /\ "none" \notin ObjectLists /\ "pending" \notin ObjectLists
  BY ListTypes, TasksAssumption
<1>2. ASSUME xTaskIncrementTick, UNCHANGED ucNotifyState PROVE OnObjects'
  BY <1>1, <1>2 DEF xTaskIncrementTick, Switched
<1>3. ASSUME NEW t \in Task, NEW n, NEW b, prvAddCurrentTaskToDelayedList(t, n, b),
             UNCHANGED <<eventList, ucNotifyState>>
      PROVE  OnObjects'
  BY <1>1, <1>3 DEF prvAddCurrentTaskToDelayedList
<1>4. ASSUME NEW t \in Task, Calls(t) PROVE eventList[t] \notin ObjectLists
  BY <1>4, ReadyThere, ApartFromObjects DEF Calls, At
<1>5. CASE Interrupt
  <2>1. CASE TimerTick
    BY <1>2, <2>1 DEF TimerTick, notifyVars
  <2>2. CASE TimerTickPended
    BY <1>1, <2>2 DEF TimerTickPended, notifyVars, listVars
  <2>3. ASSUME NEW x, NEW action, NotifyFromISR(x, action)
        PROVE  OnObjects'
    BY <1>1, <2>3 DEF NotifyFromISR, RecordNotification
  <2>4. ASSUME NEW x, xTaskResumeFromISR(x)
        PROVE  OnObjects'
    BY <1>1, <2>4 DEF xTaskResumeFromISR, prvTaskIsTaskSuspended, notifyVars
  <2>. QED BY <1>5, <2>1, <2>2, <2>3, <2>4 DEF Interrupt
<1>6. ASSUME NEW t \in Task, Continue(t) \/ Yield(t)
      PROVE  OnObjects'
  <2>1. CASE ReplayTick(t)
    BY <1>2, <2>1 DEF ReplayTick, notifyVars
  <2>2. CASE MovePendingReady(t)
    BY <1>1, <2>2 DEF MovePendingReady, PendingReady, notifyVars
  <2>3. CASE DelayCurrent(t)
    BY <1>3, <2>3 DEF DelayCurrent, notifyVars
  <2>4. CASE DelayCurrentUntil(t)
    <3>1. UNCHANGED <<eventList, ucNotifyState>>
      BY <2>4 DEF DelayCurrentUntil, notifyVars
    <3>2. CASE UNCHANGED stateList
      BY <3>1, <3>2
    <3>3. CASE ~UNCHANGED stateList
      BY <1>3, <2>4, <3>1, <3>3 DEF DelayCurrentUntil
    <3>. QED BY <3>2, <3>3
  <2>5. CASE IdleReap(t)
    BY <1>1, <2>5 DEF IdleReap, In, notifyVars
  <2>6. CASE TakeNotification(t) \/ FinishNotifyWait(t)
    BY <1>1, <2>6 DEF TakeNotification, FinishNotifyWait, listVars
  <2>7. CASE \/ ExitCritical(t) \/ FinishResumeAll(t) \/ ResetUnblockTime(t)
             \/ CreateYield(t) \/ Yield(t)
    BY <1>1, <2>7 DEF ExitCritical, FinishResumeAll, ResetUnblockTime, CreateYield, Yield,
       listVars, notifyVars
  <2>. QED BY <1>6, <2>1, <2>2, <2>3, <2>4, <2>5, <2>6, <2>7 DEF Continue
<1>7. ASSUME NEW t \in Task, Call(t)
      PROVE  OnObjects'
  <2>1. CASE \/ UserEnterCritical(t) \/ UserExitCritical(t) \/ vTaskSuspendAll(t)
             \/ UserResumeAll(t) \/ vTaskDelay(t) \/ vTaskDelayUntil(t)
             \/ IdleCheckTermination(t)
    BY <1>1, <2>1 DEF UserEnterCritical, UserExitCritical, vTaskSuspendAll,
       UserResumeAll, vTaskDelay, vTaskDelayUntil, IdleCheckTermination, listVars, notifyVars
  <2>2. ASSUME NEW x, \/ vTaskSuspend(t, x) \/ vTaskResume(t, x) \/ xTaskCreate(t, x)
                      \/ vTaskDelete(t, x)
        PROVE  OnObjects'
    BY <1>1, <2>2 DEF vTaskSuspend, vTaskResume, prvTaskIsTaskSuspended, xTaskCreate,
       vTaskDelete, notifyVars
  <2>3. ASSUME NEW x, NEW p, vTaskPrioritySet(t, x, p)
        PROVE  OnObjects'
    BY <1>1, <2>3 DEF vTaskPrioritySet, notifyVars
  <2>4. ASSUME NEW x, xTaskNotifyStateClear(t, x)
        PROVE  OnObjects'
    BY <1>1, <2>4 DEF xTaskNotifyStateClear, listVars
  <2>5. ASSUME NEW x, NEW action, xTaskGenericNotify(t, x, action)
        PROVE  OnObjects'
    BY <1>1, <2>5 DEF xTaskGenericNotify, RecordNotification
  <2>6. ASSUME NEW n, ulTaskNotifyTake(t, n) \/ xTaskNotifyWait(t, n)
        PROVE  OnObjects'
    <3>1. Calls(t) /\ UNCHANGED eventList
      BY <2>6 DEF ulTaskNotifyTake, xTaskNotifyWait
    <3>2. \A u \in Task \ {t} : /\ stateList'[u] = stateList[u]
                                /\ ucNotifyState'[u] = ucNotifyState[u]
      BY <1>1, <2>6 DEF ulTaskNotifyTake, xTaskNotifyWait, prvAddCurrentTaskToDelayedList,
         notifyVars
    <3>. QED BY <1>4, <3>1, <3>2
  <2>. QED BY <1>7, <2>1, <2>2, <2>3, <2>4, <2>5, <2>6 DEF Call
<1>. QED BY <1>5, <1>6, <1>7 DEF Next

LEMMA StepRuns == IInv /\ RInv /\ [Next]_vars => RInv'
<1>1. IInv /\ RInv /\ UNCHANGED vars => RInv'
  BY DEF vars, switchVars, suspendVars, listVars, notifyVars, controlVars, RInv, RunsOrLeaves,
     DelaysAtOnce, NotifiedInWait, OnObjects
<1>2. IInv /\ RInv /\ Next => RunsOrLeaves'
  BY InterruptRuns, ContinueRuns, CallRuns DEF Next, RInv
<1>3. IInv /\ RInv /\ Next => DelaysAtOnce' /\ NotifiedInWait' /\ OnObjects'
  BY StepDelays, StepNotified, StepOnObjects DEF RInv
<1>. QED BY <1>1, <1>2, <1>3 DEF RInv

LEMMA RunsAtStart == Init => RInv
<1>. SUFFICES ASSUME Init PROVE RInv
  OBVIOUS
<1>1. "none" \notin ObjectLists
  BY TasksAssumption
<1>. QED BY <1>1 DEF Init, Ready, In, RInv, RunsOrLeaves, DelaysAtOnce, NotifiedInWait,
   OnObjects

(***************************************************************************)
(* A task that blocks, suspends or deletes itself does not go on running:  *)
(* from the moment it leaves its ready list it does nothing but the rest   *)
(* of that call, and the switch at its end is not held up by a suspended   *)
(* scheduler (the portYIELD calls of tasks.c are made at depth 0).         *)
(***************************************************************************)
THEOREM BlockedTasksLeave == Spec => []RunsOrLeaves
<1>1. Spec => []RInv
  BY RunsAtStart, StepRuns, AlwaysIInv, PTL DEF Spec
<1>2. RInv => RunsOrLeaves
  BY DEF RInv
<1>. QED BY <1>1, <1>2, PTL
---------------------------------------------------------------------------
(* Steps of calls on queues and event groups: what they do to the          *)
(* scheduler keeps all that was proved of it.                              *)

\* The invariants of the scheduler.
KInv == PInv /\ RInv /\ DelayedAreNotDue

LEMMA SchedulerKeeps == KInv /\ [Next]_vars => KInv'
  BY StepSchedules, StepRuns, StepNotDue DEF KInv, PInv

LEMMA SchedulerStarts == Init => KInv
<1>1. Init => DelayedAreNotDue
  BY DEF Init, DelayedAreNotDue
<1>. QED BY <1>1, StartSchedules, RunsAtStart DEF KInv

\* The program points that such a step of the running task starts from and leads to.
ObjectStep(t, label) ==
    /\ t = pxCurrentTCB
    /\ pc[t] \in {"run"} \union ObjectLabels
    /\ label \in {"run", "resumeAll"} \union ObjectLabels
    /\ Goto(t, label)
    /\ \A u \in Task \ {t} : after'[u] = after[u]
    /\ after'[t] = "yieldUnless" => label \in {"resumeAll"} \union ObjectLabels
    /\ label = "resumeAll" => uxSchedulerSuspended' > 0
    /\ WholeCriticalSection \/ UNCHANGED portVars
    /\ UNCHANGED <<pxCurrentTCB, arg>>

LEMMA ObjectStepControl ==
    ASSUME IInv, NEW t \in Task, NEW label, ObjectStep(t, label)
    PROVE  PortTypeOK' /\ ControlInv'
<1>1. /\ label \in Label /\ held[t] = 0
      /\ label \notin {"exit", "replay", "userCritical", "delay", "delayUntil"}
  BY ApartFromObjects DEF ObjectStep, Label, SchedulerLabel, IInv, ControlInv, SectionsByLabel
<1>2. PortTypeOK'
  BY PortStep DEF ObjectStep, IInv, TypeOK
<1>3. UNCHANGED held
  BY DEF ObjectStep, WholeCriticalSection, portVars
<1>4. ControlInv'
  BY <1>1, <1>3, GotoControl DEF ObjectStep, IInv
<1>. QED BY <1>2, <1>4

\* Nobody but the running task is at the points that RInv speaks of, and it leaves its point.
LEMMA ObjectStepRuns ==
    ASSUME IInv, RInv, NEW t \in Task, NEW label, ObjectStep(t, label), UNCHANGED ucNotifyState
    PROVE  DelaysAtOnce' /\ NotifiedInWait' /\ ucNotifyState[t] # "WAITING"
<1>1. /\ pc' = [pc EXCEPT ![t] = label] /\ pc \in [Task -> Label] /\ t = pxCurrentTCB
      /\ pc[t] \notin {"take", "wait", "exit"}
      /\ label \notin {"delay", "delayUntil"}
  BY ListTypes, ApartFromObjects DEF ObjectStep, Goto
<1>2. ucNotifyState[t] # "WAITING"
  BY <1>1 DEF RInv, NotifiedInWait
<1>3. NotifiedInWait'
  BY <1>1, <1>2 DEF ObjectStep, RInv, NotifiedInWait
<1>4. DelaysAtOnce'
  BY <1>1 DEF IInv, ControlInv, SuspensionByLabel, DelaysAtOnce
<1>. QED BY <1>2, <1>3, <1>4

\* A step that moves no task between lists.
LEMMA QuietObjectStep ==
    ASSUME KInv, NEW t \in Task, NEW label, ObjectStep(t, label),
           after' \in [Task -> Continuation], uxSchedulerSuspended' \in Nat,
           uxSchedulerSuspended' >= uxSchedulerSuspended,
           UNCHANGED <<switchVars, uxPendedTicks, timeVars, listVars, priorityVars, notifyVars,
                       appVars>>,
           \/ stateList[t] = "ready"
           \/ UNCHANGED <<after, uxSchedulerSuspended>> /\ label # "run"
    PROVE  KInv'
<1>1. IInv /\ RInv /\ PInv /\ t = pxCurrentTCB
  BY DEF KInv, PInv, ObjectStep
<1>2. PortTypeOK' /\ ControlInv'
  BY <1>1, ObjectStepControl
<1>3. /\ SwitchTypeOK' /\ TimeTypeOK' /\ ListTypeOK' /\ PriorityTypeOK' /\ NotifyTypeOK'
      /\ AppTypeOK'
  BY <1>1, UnchangedTypes DEF IInv
<1>4. SuspendTypeOK'
  BY <1>1 DEF IInv, TypeOK, SuspendTypeOK
<1>5. ControlTypeOK'
  BY <1>1 DEF IInv, TypeOK, ControlTypeOK, ObjectStep, Goto, Label, SchedulerLabel
<1>6. IInv'
  BY <1>2, <1>3, <1>4, <1>5 DEF IInv, TypeOK
<1>7. TopBound' /\ HighestPriorityRuns'
  <2>1. pc[t] # "createYield"
    BY ApartFromObjects DEF ObjectStep
  <2>. QED BY <1>1, <2>1, QuietKeeps DEF Quiet, listVars, priorityVars
<1>8. DelaysAtOnce' /\ NotifiedInWait'
  BY <1>1, ObjectStepRuns DEF notifyVars
<1>9. OnObjects'
  BY <1>1 DEF RInv, OnObjects, listVars, notifyVars
<1>10. RunsOrLeaves'
  <2>1. CASE stateList[t] = "ready"
    BY <1>1, <2>1 DEF switchVars, listVars, RunsOrLeaves
  <2>2. CASE stateList[t] # "ready"
    <3>1. after[t] = "yieldUnless" /\ uxSchedulerSuspended = 1
      BY <1>1, <2>2, ApartFromObjects DEF ObjectStep, RInv, RunsOrLeaves
    <3>2. pc'[t] \in {"resumeAll"} \union ObjectLabels
      BY <1>1, <2>2 DEF ObjectStep, Goto, IInv, TypeOK, ControlTypeOK
    <3>. QED BY <1>1, <2>2, <3>1, <3>2 DEF switchVars, RunsOrLeaves
  <2>. QED BY <2>1, <2>2
<1>11. DelayedAreNotDue'
  BY DEF KInv, DelayedAreNotDue, listVars, timeVars
<1>. QED BY <1>6, <1>7, <1>8, <1>9, <1>10, <1>11 DEF KInv, PInv, RInv

\* vTaskPlaceOnEventList and its twin: the running task, under its own vTaskSuspendAll, goes
\* into the event list l and into a delayed list or the suspended list.
LEMMA PlaceStep ==
    ASSUME KInv, NEW t \in Task, NEW label, ObjectStep(t, label), NEW l \in ObjectLists,
           NEW n \in Tick \ {0}, prvAddCurrentTaskToDelayedList(t, n, TRUE),
           eventList' = [eventList EXCEPT ![t] = l],
           after' = [after EXCEPT ![t] = "yieldUnless"], uxSchedulerSuspended = 1,
           UNCHANGED <<portVars, switchVars, suspendVars, xTickCount, xNumOfOverflows,
                       priorityVars, notifyVars, appVars>>
    PROVE  KInv'
<1>1. IInv /\ RInv /\ PInv /\ t = pxCurrentTCB
  BY DEF KInv, PInv, ObjectStep
<1>2. PortTypeOK' /\ ControlInv'
  BY <1>1, ObjectStepControl
<1>3. /\ SwitchTypeOK' /\ SuspendTypeOK' /\ PriorityTypeOK' /\ NotifyTypeOK' /\ AppTypeOK'
  BY <1>1, UnchangedTypes DEF IInv
<1>4. TimeTypeOK' /\ ListTypeOK'
  BY <1>1, DelayedListStep DEF IInv, TypeOK, TimeTypeOK, ListTypeOK, EventList
<1>5. ControlTypeOK'
  BY <1>1 DEF IInv, TypeOK, ControlTypeOK, ObjectStep, Goto, Label, SchedulerLabel, Continuation
<1>6. IInv'
  BY <1>2, <1>3, <1>4, <1>5 DEF IInv, TypeOK
<1>7. /\ \A u \in Task \ {t} : stateList'[u] = stateList[u]
      /\ stateList'[t] \in Blocked
  BY <1>1, ListTypes DEF prvAddCurrentTaskToDelayedList, Blocked
<1>8. TopBound' /\ HighestPriorityRuns'
  <2>1. pc[t] # "createYield"
    BY ApartFromObjects DEF ObjectStep
  <2>. QED BY <1>1, <1>7, <2>1, QuietKeeps DEF Quiet, priorityVars, Blocked
<1>9. DelaysAtOnce' /\ NotifiedInWait' /\ ucNotifyState[t] # "WAITING"
  BY <1>1, ObjectStepRuns DEF notifyVars
<1>10. OnObjects'
  BY <1>1, <1>7, <1>9, ListTypes DEF RInv, OnObjects, notifyVars
<1>11. RunsOrLeaves'
  <2>1. pc'[t] \in {"resumeAll"} \union ObjectLabels /\ after'[t] = "yieldUnless"
    BY <1>1, ListTypes DEF ObjectStep, Goto
  <2>. QED BY <1>1, <2>1 DEF switchVars, suspendVars, RunsOrLeaves
<1>12. DelayedAreNotDue'
  BY <1>1, DelaysKeeps DEF KInv, Delays1
<1>. QED BY <1>6, <1>8, <1>9, <1>10, <1>11, <1>12 DEF KInv, PInv, RInv

\* xTaskRemoveFromUnorderedEventList: the running task, under its vTaskSuspendAll, puts the
\* tasks of R into their ready lists, and notes a switch if one of them is more urgent.
LEMMA ReleaseStep ==
    ASSUME KInv, NEW t \in Task, NEW label, ObjectStep(t, label), NEW R \in SUBSET Task,
           stateList[t] = "ready",
           stateList' = [u \in Task |-> IF u \in R THEN "ready" ELSE stateList[u]],
           eventList' = [u \in Task |-> IF u \in R THEN "none" ELSE eventList[u]],
           uxTopReadyPriority' = TopWith(R, uxPriority),
           xYieldPending' = (\/ xYieldPending
                             \/ \E u \in R : uxPriority[u] > uxPriority[t]),
           after' \in [Task -> Continuation], uxSchedulerSuspended' \in Nat,
           UNCHANGED <<uxPendedTicks, timeVars, xItemValue, priorityVars, notifyVars, appVars>>
    PROVE  KInv'
<1>1. IInv /\ RInv /\ PInv /\ t = pxCurrentTCB /\ UNCHANGED pxCurrentTCB
  BY DEF KInv, PInv, ObjectStep
<1>2. PortTypeOK' /\ ControlInv'
  BY <1>1, ObjectStepControl
<1>3. TimeTypeOK' /\ PriorityTypeOK' /\ NotifyTypeOK' /\ AppTypeOK'
  BY <1>1, UnchangedTypes DEF IInv
<1>4. SuspendTypeOK'
  BY <1>1 DEF IInv, TypeOK, SuspendTypeOK
<1>5. ControlTypeOK'
  BY <1>1 DEF IInv, TypeOK, ControlTypeOK, ObjectStep, Goto, Label, SchedulerLabel
<1>6. ListTypeOK'
  BY <1>1 DEF IInv, TypeOK, ListTypeOK, StateList, EventList
<1>. DEFINE top == TopWith(R, uxPriority)
<1>7. /\ top \in Priority /\ top \in Nat /\ top >= uxTopReadyPriority
      /\ \A u \in R : top >= uxPriority[u]
  BY <1>1, TopWithBounds, PriorityTypes, TasksAssumption DEF Priority
<1>. HIDE DEF top
<1>8. SwitchTypeOK'
  BY <1>1, <1>7 DEF IInv, TypeOK, SwitchTypeOK, top
<1>9. IInv'
  BY <1>2, <1>3, <1>4, <1>5, <1>6, <1>8 DEF IInv, TypeOK
<1>10. Ready' = Ready \union R /\ uxTopReadyPriority' = top /\ UNCHANGED uxPriority
  BY DEF Ready, In, top, priorityVars
<1>11. TopBound'
  BY <1>1, <1>7, <1>10, PriorityTypes DEF PInv, TopBound
<1>12. HighestPriorityRuns'
  <2>1. pc[t] # "createYield"
    BY ApartFromObjects DEF ObjectStep
  <2>. QED BY <1>1, <1>7, <1>10, <2>1, PriorityTypes DEF PInv, HighestPriorityRuns
<1>13. DelaysAtOnce' /\ NotifiedInWait'
  BY <1>1, ObjectStepRuns DEF notifyVars
<1>14. OnObjects'
  <2>1. "none" \notin ObjectLists
    BY TasksAssumption
  <2>. QED BY <1>1, <2>1, ListTypes DEF RInv, OnObjects, notifyVars
<1>15. RunsOrLeaves'
  BY <1>1 DEF RunsOrLeaves
<1>16. DelayedAreNotDue'
  <2>1. LeavesLists
    BY <1>1, ListTypes DEF LeavesLists, timeVars
  <2>. QED BY <1>1, <2>1, LeavesListsKeeps DEF KInv
<1>. QED BY <1>9, <1>11, <1>12, <1>13, <1>14, <1>15, <1>16 DEF KInv, PInv, RInv

\* The scheduler takes tasks out of such a list, and puts none into one.
LEMMA NobodyEnters ==
    ASSUME IInv, [Next]_vars, NEW x \in Task
    PROVE  eventList'[x] \in {eventList[x], "none", "pending"}
<1>1. eventList \in [Task -> EventList]
  BY ListTypes
<1>2. CASE UNCHANGED vars
  BY <1>2 DEF vars, listVars
<1>3. CASE Interrupt
  BY <1>1, <1>3 DEF Interrupt, TimerTick, TimerTickPended, NotifyFromISR, xTaskResumeFromISR,
     xTaskIncrementTick, listVars
<1>4. ASSUME NEW t \in Task, Continue(t) \/ Yield(t)
      PROVE  eventList'[x] \in {eventList[x], "none", "pending"}
  BY <1>1, <1>4 DEF Continue, ExitCritical, MovePendingReady, ReplayTick, FinishResumeAll,
     DelayCurrent, DelayCurrentUntil, ResetUnblockTime, CreateYield, IdleReap,
     TakeNotification, FinishNotifyWait, Yield, xTaskIncrementTick, listVars
<1>5. ASSUME NEW t \in Task, Call(t)
      PROVE  eventList'[x] \in {eventList[x], "none", "pending"}
  BY <1>1, <1>5 DEF Call, UserEnterCritical, UserExitCritical, vTaskSuspendAll, UserResumeAll,
     vTaskDelay, vTaskDelayUntil, vTaskSuspend, vTaskResume, vTaskPrioritySet, xTaskCreate,
     vTaskDelete, IdleCheckTermination, ulTaskNotifyTake, xTaskNotifyWait,
     xTaskGenericNotify, xTaskNotifyStateClear, listVars
<1>. QED BY <1>2, <1>3, <1>4, <1>5 DEF Next

\* A step of a task is one of the running task, from a point of the scheduler's; it goes on to
\* another one or to what follows.
LEMMA TaskStep ==
    ASSUME IInv, NEW t \in Task, Continue(t) \/ Yield(t) \/ Call(t)
    PROVE  /\ t = pxCurrentTCB /\ pc[t] \notin ObjectLabels
           /\ \A u \in Task \ {t} : pc'[u] = pc[u] /\ after'[u] = after[u]
           /\ \/ pc'[t] \notin ObjectLabels
              \/ pc'[t] = after[t] /\ after'[t] = "run"
           /\ \/ after'[t] \notin ObjectLabels
              \/ after'[t] = after[t] /\ pc'[t] \notin ObjectLabels
<1>1. pc \in [Task -> Label] /\ after \in [Task -> Continuation]
  BY ListTypes
<1>2. \A u \in Task \ {t} : pc'[u] = pc[u] /\ after'[u] = after[u]
  BY <1>1, OwnControl DEF MovesControl
<1>3. t = pxCurrentTCB /\ pc[t] \notin ObjectLabels
  BY ApartFromObjects DEF Continue, Call, Yield, ExitCritical, MovePendingReady, ReplayTick,
     FinishResumeAll, DelayCurrent, DelayCurrentUntil, ResetUnblockTime, CreateYield,
     IdleReap, TakeNotification, FinishNotifyWait, UserEnterCritical, UserExitCritical,
     vTaskSuspendAll, UserResumeAll, vTaskDelay, vTaskDelayUntil, vTaskSuspend,
     vTaskResume, vTaskPrioritySet, xTaskCreate, vTaskDelete, IdleCheckTermination,
     ulTaskNotifyTake, xTaskNotifyWait, xTaskGenericNotify, xTaskNotifyStateClear,
     Calls, At
<1>. DEFINE Goes == /\ \/ pc'[t] \notin ObjectLabels
                       \/ pc'[t] = after[t] /\ after'[t] = "run"
                    /\ \/ after'[t] \notin ObjectLabels
                       \/ after'[t] = after[t] /\ pc'[t] \notin ObjectLabels
<1>4. ASSUME Continue(t) \/ Yield(t) PROVE Goes
  <2>1. CASE ExitCritical(t) \/ ResetUnblockTime(t)
    BY <1>1, <2>1, ApartFromObjects DEF ExitCritical, ResetUnblockTime, Goto
  <2>2. CASE \/ MovePendingReady(t) \/ ReplayTick(t) \/ FinishResumeAll(t) \/ DelayCurrent(t)
             \/ DelayCurrentUntil(t)
    BY <1>1, <1>3, <2>2, ApartFromObjects DEF MovePendingReady, ReplayTick, FinishResumeAll,
       DelayCurrent, DelayCurrentUntil, Goto, controlVars
  <2>3. CASE \/ CreateYield(t) \/ IdleReap(t) \/ TakeNotification(t) \/ FinishNotifyWait(t)
             \/ Yield(t)
    BY <1>1, <2>3, ApartFromObjects DEF CreateYield, IdleReap, TakeNotification,
       FinishNotifyWait, Yield, Goto, controlVars
  <2>. QED BY <1>4, <2>1, <2>2, <2>3 DEF Continue
<1>5. ASSUME Call(t) PROVE Goes
  BY <1>1, <1>3, <1>5, ApartFromObjects DEF Call, UserEnterCritical, UserExitCritical, vTaskSuspendAll,
     UserResumeAll, vTaskDelay, vTaskDelayUntil, vTaskSuspend, vTaskResume, vTaskPrioritySet,
     xTaskCreate, vTaskDelete, IdleCheckTermination, ulTaskNotifyTake, xTaskNotifyWait,
     xTaskGenericNotify, xTaskNotifyStateClear, YieldThenExit, Goto, controlVars
<1>. QED BY <1>2, <1>3, <1>4, <1>5

\* A task in the last part of such a call goes through xTaskResumeAll and a yield, and on to
\* what follows in the call.
LEMMA CallGoesOn ==
    ASSUME IInv, NEW t \in Task, Continue(t) \/ (Yield(t) /\ pc[t] = "yield"),
           pc[t] \in {"resumeAll", "replay", "exit", "yield", "run"},
           after[t] \in {"run", "yield", "yieldUnless"} \union ObjectLabels
    PROVE  /\ pc'[t] \in {"replay", "exit", "yield", "run"} \union ObjectLabels
           /\ after'[t] \in {"run", "yield", "yieldUnless"} \union ObjectLabels
           /\ pc[t] = "resumeAll" /\ uxSchedulerSuspended > 1 =>
                  /\ pc'[t] = "exit" /\ uxSchedulerSuspended' = uxSchedulerSuspended - 1
                  /\ after[t] \in ObjectLabels => after'[t] = after[t]
                  /\ UNCHANGED pxCurrentTCB
           /\ pc[t] = "exit" => /\ pc'[t] = after[t] /\ after'[t] = "run"
                                /\ UNCHANGED <<uxSchedulerSuspended, pxCurrentTCB>>
<1>1. /\ pc \in [Task -> Label] /\ after \in [Task -> Continuation]
      /\ uxSchedulerSuspended \in Nat
      /\ pc[t] = "exit" => after[t] # "yieldUnless"
  BY ListTypes, ApartFromObjects DEF IInv, ControlInv, ContinuationByLabel
<1>2. CASE pc[t] = "resumeAll"
  <2>1. MovePendingReady(t)
    BY <1>2 DEF Continue, ExitCritical, ReplayTick, FinishResumeAll, DelayCurrent,
       DelayCurrentUntil, ResetUnblockTime, CreateYield, IdleReap, TakeNotification,
       FinishNotifyWait, At
  <2>2. \/ /\ uxSchedulerSuspended = 1 /\ pc' = [pc EXCEPT ![t] = "replay"]
           /\ UNCHANGED after
        \/ /\ uxSchedulerSuspended # 1 /\ pc' = [pc EXCEPT ![t] = "exit"]
           /\ after' = [after EXCEPT ![t] = IF @ = "yieldUnless" THEN "yield" ELSE @]
    BY <2>1 DEF MovePendingReady, Goto
  <2>3. UNCHANGED pxCurrentTCB /\ uxSchedulerSuspended' = uxSchedulerSuspended - 1
    BY <2>1 DEF MovePendingReady
  <2>. QED BY <1>1, <1>2, <2>2, <2>3, ApartFromObjects
<1>3. CASE pc[t] = "replay"
  <2>1. ReplayTick(t) \/ FinishResumeAll(t)
    BY <1>3 DEF Continue, ExitCritical, MovePendingReady, DelayCurrent,
       DelayCurrentUntil, ResetUnblockTime, CreateYield, IdleReap, TakeNotification,
       FinishNotifyWait, At
  <2>2. CASE ReplayTick(t)
    BY <1>1, <1>3, <2>2 DEF ReplayTick, controlVars
  <2>3. CASE FinishResumeAll(t)
    <3>1. /\ pc' = [pc EXCEPT ![t] = "exit"]
          /\ \/ after' = [after EXCEPT ![t] = IF @ = "yieldUnless" THEN "run" ELSE @]
             \/ after' = [after EXCEPT ![t] = IF @ = "yieldUnless" THEN "yield" ELSE @]
      BY <2>3 DEF FinishResumeAll, Goto
    <3>. QED BY <1>1, <1>3, <3>1
  <2>. QED BY <2>1, <2>2, <2>3
<1>4. CASE pc[t] = "exit"
  <2>1. ExitCritical(t)
    BY <1>4 DEF Continue, MovePendingReady, ReplayTick, FinishResumeAll, DelayCurrent,
       DelayCurrentUntil, ResetUnblockTime, CreateYield, IdleReap, TakeNotification,
       FinishNotifyWait, At
  <2>. QED BY <1>1, <1>4, <2>1 DEF ExitCritical, Goto, switchVars, suspendVars
<1>5. CASE pc[t] \in {"yield", "run"}
  <2>1. Yield(t)
    BY <1>5 DEF Continue, ExitCritical, MovePendingReady, ReplayTick, FinishResumeAll,
       DelayCurrent, DelayCurrentUntil, ResetUnblockTime, CreateYield, IdleReap,
       TakeNotification, FinishNotifyWait, At
  <2>. QED BY <1>1, <1>5, <2>1 DEF Yield, Goto
<1>. QED BY <1>2, <1>3, <1>4, <1>5

\* An interrupt leaves the program points alone, and the running task of a suspended scheduler.
LEMMA InterruptStep ==
    ASSUME IInv, Interrupt
    PROVE  /\ UNCHANGED <<pc, after, uxSchedulerSuspended>>
           /\ uxSchedulerSuspended > 0 => UNCHANGED pxCurrentTCB
<1>1. UNCHANGED <<pc, after, uxSchedulerSuspended>>
  BY DEF Interrupt, TimerTick, TimerTickPended, NotifyFromISR, xTaskResumeFromISR,
     controlVars, suspendVars
<1>2. ASSUME uxSchedulerSuspended > 0 PROVE UNCHANGED pxCurrentTCB
  <2>1. uxSchedulerSuspended # 0
    BY <1>2, ListTypes
  <2>. QED
    BY <2>1 DEF Interrupt, TimerTick, TimerTickPended, NotifyFromISR, xTaskResumeFromISR,
       switchVars, vTaskSwitchContext, NoSwitch
<1>. QED BY <1>1, <1>2
===========================================================================
