------------------------- MODULE EventGroups_proofs -----------------------
(***************************************************************************)
(* Proofs about EventGroups, for every number of tasks and bits and every  *)
(* set of calls: the scheduler's properties hold of the group's steps too, *)
(* nobody waits for bits that are set, a wait gives up for a good reason   *)
(* only, and xEventGroupSync is a barrier.                                 *)
(***************************************************************************)
EXTENDS EventGroups, Tasks_proofs

\* What the first field of a call says of the others.
SetCall == [op : {"set"}, bits : SUBSET Bit]
WaitCall == [op : {"wait"}, bits : SUBSET Bit, clear : BOOLEAN, all : BOOLEAN, wait : Tick]
SyncCall == [op : {"sync"}, bits : {SyncBits}, clear : {TRUE}, all : {TRUE},
             wait : {portMAX_DELAY}, set : BOOLEAN, met : BOOLEAN]

CallType == {NoCall} \union SetCall \union WaitCall \union SyncCall

ValueType == {NotReleased} \union [released : {TRUE}, bits : SUBSET Bit]

GroupTypes ==
    /\ uxEventBits \in SUBSET Bit
    /\ eventValue \in [Task -> ValueType]
    /\ uxReturn \in SUBSET Bit
    /\ call \in [Task -> CallType]
    /\ due \in [Task -> Tick]

\* The part of a call that runs with the scheduler suspended, the xTaskResumeAll of the
\* xEventGroupSetBits in xEventGroupSync included.
InWindow(t) == pc[t] \in ObjectLabels \/ after[t] \in ObjectLabels

\* Everybody was not there when the task that now is between its two halves set its bit.
SawAll(t) == call[t].met \/ ~(SyncBits \subseteq uxEventBits)

InSet(t) == pc[t] = "setBits" /\ call[t].op = "set"

InTest(t) ==
    /\ pc[t] = "testBits" /\ call[t].op = "wait"
    /\ call[t].wait # 0 => uxSchedulerSuspended = 1

InSyncSet(t) ==
    /\ pc[t] = "syncSet" /\ call[t].op = "sync" /\ t \in Member
    /\ uxSchedulerSuspended = 1
    /\ ~call[t].set /\ ~call[t].met

InSyncTest(t) ==
    /\ call[t].op = "sync" /\ t \in Member
    /\ call[t].set /\ SawAll(t)
    /\ \/ pc[t] = "syncTest" /\ uxSchedulerSuspended = 1
       \/ pc[t] = "exit" /\ after[t] = "syncTest" /\ uxSchedulerSuspended = 1
       \/ pc[t] = "resumeAll" /\ after[t] = "syncTest" /\ uxSchedulerSuspended = 2

Window(t) ==
    /\ t = pxCurrentTCB
    /\ uxSchedulerSuspended > 0
    /\ ~eventValue[t].released
    /\ pc[t] \in ObjectLabels => after[t] \notin ObjectLabels \union {"yieldUnless"}
    /\ InSet(t) \/ InTest(t) \/ InSyncSet(t) \/ InSyncTest(t)

\* A task that has looked at the bits and waits, or is back and has not looked again.
Waits(t) ==
    /\ call[t].op \in {"wait", "sync"}
    /\ call[t].op = "sync" => t \in Member /\ call[t].set /\ ~call[t].met
    /\ pc[t] \in {"resumeAll", "replay", "exit", "yield", "run"}
    /\ after[t] \in {"run", "yield", "yieldUnless"}
    /\ eventValue[t].released => /\ Met(call[t], eventValue[t].bits)
                                 /\ eventList[t] # Group

Outside(t) ==
    /\ call[t] = NoCall
    /\ eventList[t] # Group
    /\ ~eventValue[t].released

\* Each task is in one of the three.
GroupCalls ==
    \A t \in Task : IF InWindow(t) THEN Window(t) ELSE Outside(t) \/ Waits(t)

\* Inductive together.
GInv == KInv /\ GroupTypes /\ GroupCalls /\ NobodyWaitsForSetBits
---------------------------------------------------------------------------
LEMMA CallTypes ==
    ASSUME NEW c \in CallType
    PROVE  /\ c.op = "set" => c \in SetCall
           /\ c.op = "wait" => c \in WaitCall
           /\ c.op = "sync" => c \in SyncCall
           /\ c.op \in {"none", "set", "wait", "sync"}
<1>1. c = NoCall \/ c \in SetCall \/ c \in WaitCall \/ c \in SyncCall
  BY DEF CallType
<1>2. c \in SetCall => c.op = "set"
  BY DEF SetCall
<1>3. c \in WaitCall => c.op = "wait"
  BY DEF WaitCall
<1>4. c \in SyncCall => c.op = "sync"
  BY DEF SyncCall
<1>5. c = NoCall => c.op = "none"
  BY DEF NoCall
<1>. QED BY <1>1, <1>2, <1>3, <1>4, <1>5

LEMMA ValueTypes ==
    ASSUME NEW v \in ValueType
    PROVE  /\ ~NotReleased.released /\ NotReleased \in ValueType
           /\ v.released => v.bits \in SUBSET Bit
<1>1. ~NotReleased.released /\ NotReleased \in ValueType
  BY DEF ValueType, NotReleased
<1>2. CASE v = NotReleased
  BY <1>1, <1>2
<1>3. CASE v \in [released : {TRUE}, bits : SUBSET Bit]
  BY <1>1, <1>3
<1>. QED BY <1>2, <1>3 DEF ValueType
---------------------------------------------------------------------------
(* The steps of the scheduler *)

LEMMA GroupLabels ==
    /\ Group \in ObjectLists /\ Group # "none" /\ Group # "pending"
    /\ \A l \in {"setBits", "testBits", "syncSet", "syncTest"} : l \in ObjectLabels
  BY GroupAssumption, TasksAssumption DEF GroupLabel

\* What the code of the group finds of the running task.
LEMMA WindowIsReady ==
    ASSUME KInv, NEW t \in Task, Window(t)
    PROVE  stateList[t] = "ready" /\ eventList[t] # Group
<1>1. stateList[t] = "ready"
  BY ApartFromObjects, GroupLabels
  DEF KInv, RInv, RunsOrLeaves, Window, InSet, InTest, InSyncSet, InSyncTest
<1>. QED BY <1>1, GroupLabels DEF KInv, RInv, OnObjects, Blocked

\* The two are one step of the scheduler.
LEMMA SchedulerStepIsNext == SchedulerStep => Next /\ KeepGroup
  BY DEF SchedulerStep, Next

LEMMA SchedulerKeepsTypes ==
    ASSUME GroupTypes, KeepGroup
    PROVE  GroupTypes'
<1>1. due' \in [Task -> Tick]
  BY TasksAssumption DEF GroupTypes, KeepGroup, Tick
<1>. QED BY <1>1 DEF GroupTypes, KeepGroup

LEMMA SchedulerKeepsCalls ==
    ASSUME GInv, SchedulerStep
    PROVE  GroupCalls' /\ \A x \in Task : InWindow(x)' = InWindow(x)
<1>1. IInv /\ KInv /\ Next /\ KeepGroup
  BY SchedulerStepIsNext DEF GInv, KInv, PInv
<1>2. UNCHANGED <<call, eventValue, uxEventBits>>
  BY <1>1 DEF KeepGroup
<1>3. \A x \in Task : eventList[x] # Group => eventList'[x] # Group
  BY <1>1, NobodyEnters, GroupLabels
<1>. DEFINE Goal(x) == /\ IF InWindow(x)' THEN Window(x)' ELSE Outside(x)' \/ Waits(x)'
                       /\ InWindow(x)' = InWindow(x)
<1>. SUFFICES ASSUME NEW x \in Task PROVE Goal(x)
  BY DEF GroupCalls
<1>4. IF InWindow(x) THEN Window(x) ELSE Outside(x) \/ Waits(x)
  BY DEF GInv, GroupCalls
<1>5. ASSUME UNCHANGED <<pc, after>>
      PROVE  InWindow(x)' = InWindow(x)
  BY <1>5 DEF InWindow
<1>0. InWindow(x) \in BOOLEAN /\ InWindow(x)' \in BOOLEAN
  BY DEF InWindow
<1>6. ASSUME pc'[x] = pc[x], after'[x] = after[x], ~InWindow(x)
      PROVE  ~InWindow(x)' /\ (Outside(x)' \/ Waits(x)')
  <2>1. ~InWindow(x)'
    BY <1>6 DEF InWindow
  <2>2. Outside(x) => Outside(x)'
    BY <1>2, <1>3 DEF Outside
  <2>3. Waits(x) => Waits(x)'
    BY <1>2, <1>3, <1>6 DEF Waits, Met
  <2>. QED BY <1>4, <1>6, <2>1, <2>2, <2>3
<1>7. CASE Interrupt
  <2>1. /\ UNCHANGED <<pc, after, uxSchedulerSuspended>>
        /\ uxSchedulerSuspended > 0 => UNCHANGED pxCurrentTCB
    BY <1>1, <1>7, InterruptStep
  <2>2. CASE InWindow(x)
    <3>1. Window(x)'
      BY <1>2, <1>4, <2>1, <2>2 DEF Window, InSet, InTest, InSyncSet, InSyncTest, SawAll
    <3>. QED BY <1>5, <2>1, <2>2, <3>1
  <2>3. CASE ~InWindow(x)
    BY <1>0, <1>6, <2>1, <2>3
  <2>. QED BY <2>2, <2>3
<1>8. ASSUME NEW t \in Task,
             \/ Continue(t)
             \/ Yield(t) /\ (pc[t] = "yield" \/ call[t] = NoCall)
             \/ Call(t) /\ call[t] = NoCall
      PROVE  Goal(x)
  <2>1. /\ t = pxCurrentTCB /\ pc[t] \notin ObjectLabels
        /\ \A u \in Task \ {t} : pc'[u] = pc[u] /\ after'[u] = after[u]
        /\ \/ pc'[t] \notin ObjectLabels
           \/ pc'[t] = after[t] /\ after'[t] = "run"
        /\ \/ after'[t] \notin ObjectLabels
           \/ after'[t] = after[t] /\ pc'[t] \notin ObjectLabels
    BY <1>1, <1>8, TaskStep
  <2>2. CASE x # t
    <3>1. ~InWindow(x)
      BY <1>4, <2>1, <2>2 DEF Window
    <3>. QED BY <1>0, <1>6, <2>1, <2>2, <3>1
  <2>3. CASE x = t /\ Outside(t) /\ ~InWindow(t)
    <3>1. ~InWindow(x)'
      BY <2>1, <2>3 DEF InWindow
    <3>2. Outside(x)'
      BY <1>2, <1>3, <2>3 DEF Outside
    <3>. QED BY <1>0, <2>3, <3>1, <3>2
  <2>4. ASSUME x = t, call[t] # NoCall
        PROVE  Continue(t) \/ (Yield(t) /\ pc[t] = "yield")
    BY <1>8, <2>4
  <2>5. CASE x = t /\ Waits(t) /\ ~InWindow(t)
    <3>1. call[t] # NoCall /\ after[t] \notin ObjectLabels
      BY <2>5 DEF Waits, NoCall, InWindow
    <3>2. /\ pc'[t] \in {"replay", "exit", "yield", "run"} \union ObjectLabels
          /\ after'[t] \in {"run", "yield", "yieldUnless"} \union ObjectLabels
      BY <1>1, <2>4, <2>5, <3>1, CallGoesOn DEF Waits
    <3>3. pc'[t] \notin ObjectLabels /\ after'[t] \notin ObjectLabels
      BY <2>1, <3>1
    <3>4. Waits(x)'
      BY <1>2, <1>3, <2>5, <3>2, <3>3 DEF Waits, Met
    <3>5. ~InWindow(x)'
      BY <2>5, <3>3 DEF InWindow
    <3>. QED BY <1>0, <2>5, <3>4, <3>5
  <2>6. CASE x = t /\ InWindow(t)
    <3>1. InSyncTest(t) /\ pc[t] \in {"exit", "resumeAll"} /\ Window(t)
      BY <1>4, <2>1, <2>6, GroupLabels DEF Window, InSet, InTest, InSyncSet, InSyncTest
    <3>2. call[t] # NoCall /\ after[t] = "syncTest"
      BY <2>1, <3>1, GroupLabels DEF InSyncTest, NoCall
    <3>3. /\ pc'[t] \in {"replay", "exit", "yield", "run"} \union ObjectLabels
          /\ pc[t] = "resumeAll" /\ uxSchedulerSuspended > 1 =>
                 /\ pc'[t] = "exit" /\ uxSchedulerSuspended' = uxSchedulerSuspended - 1
                 /\ after[t] \in ObjectLabels => after'[t] = after[t]
                 /\ UNCHANGED pxCurrentTCB
          /\ pc[t] = "exit" => /\ pc'[t] = after[t] /\ after'[t] = "run"
                               /\ UNCHANGED <<uxSchedulerSuspended, pxCurrentTCB>>
      BY <1>1, <2>4, <2>6, <3>1, <3>2, CallGoesOn, GroupLabels
    <3>4. CASE pc[t] = "exit"
      <4>1. pc'[t] = "syncTest" /\ after'[t] = "run" /\ uxSchedulerSuspended = 1
        BY <3>1, <3>2, <3>3, <3>4, GroupLabels DEF InSyncTest
      <4>2. InWindow(t)' /\ InSyncTest(t)'
        BY <1>2, <3>1, <3>3, <3>4, <4>1, GroupLabels DEF InWindow, InSyncTest, SawAll
      <4>3. Window(t)'
        BY <1>2, <2>1, <3>1, <3>3, <3>4, <4>1, <4>2, ApartFromObjects DEF Window
      <4>. QED BY <1>0, <2>6, <4>2, <4>3
    <3>5. CASE pc[t] = "resumeAll"
      <4>1. /\ uxSchedulerSuspended = 2 /\ pc'[t] = "exit" /\ after'[t] = "syncTest"
            /\ uxSchedulerSuspended' = 1 /\ UNCHANGED pxCurrentTCB
        BY <3>1, <3>2, <3>3, <3>5, GroupLabels, ApartFromObjects DEF InSyncTest
      <4>2. InWindow(t)' /\ InSyncTest(t)'
        BY <1>2, <3>1, <4>1, GroupLabels DEF InWindow, InSyncTest, SawAll
      <4>3. Window(t)'
        BY <1>2, <2>1, <3>1, <4>1, <4>2, ApartFromObjects DEF Window
      <4>. QED BY <1>0, <2>6, <4>2, <4>3
    <3>. QED BY <3>1, <3>4, <3>5
  <2>. QED BY <1>4, <2>2, <2>3, <2>5, <2>6
<1>. QED BY <1>7, <1>8 DEF SchedulerStep

\* The bits and the calls stay, and nobody comes to wait.
LEMMA SchedulerKeepsInv ==
    ASSUME GInv, SchedulerStep
    PROVE  GInv'
<1>1. IInv /\ KInv /\ Next /\ KeepGroup
  BY SchedulerStepIsNext DEF GInv, KInv, PInv
<1>2. KInv' /\ GroupTypes' /\ GroupCalls'
  BY <1>1, SchedulerKeeps, SchedulerKeepsTypes, SchedulerKeepsCalls DEF GInv
<1>3. \A x \in Task : eventList[x] # Group => eventList'[x] # Group
  BY <1>1, NobodyEnters, GroupLabels
<1>4. NobodyWaitsForSetBits'
  BY <1>1, <1>3 DEF GInv, NobodyWaitsForSetBits, Waiting, KeepGroup, Met
<1>. QED BY <1>2, <1>4 DEF GInv
---------------------------------------------------------------------------
(* The steps of the group *)

\* The calls of the other tasks: a step of the running task leaves them alone, or releases a
\* task that waits with bits that meet its condition.
OneCall(x) == IF InWindow(x) THEN Window(x) ELSE Outside(x) \/ Waits(x)

LEMMA OthersKeepTheirCalls ==
    ASSUME GInv, NEW t \in Task, t = pxCurrentTCB, NEW x \in Task, x # t,
           pc'[x] = pc[x], after'[x] = after[x], call'[x] = call[x],
           \/ eventList'[x] = eventList[x] /\ eventValue'[x] = eventValue[x]
           \/ /\ eventList[x] = Group /\ eventList'[x] = "none"
              /\ eventValue'[x].released /\ Met(call[x], eventValue'[x].bits)
    PROVE  OneCall(x)'
<1>1. ~InWindow(x) /\ (Outside(x) \/ Waits(x))
  BY DEF GInv, GroupCalls, Window
<1>2. ~InWindow(x)'
  BY <1>1 DEF InWindow
<1>3. Outside(x) => Outside(x)'
  BY DEF Outside
<1>4. Waits(x) => Waits(x)'
  BY GroupLabels DEF Waits, Met
<1>. QED BY <1>1, <1>2, <1>3, <1>4 DEF OneCall

\* The running task makes a call on the group.
LEMMA BeginStep ==
    ASSUME GInv, NEW t \in Task, NEW args \in CallType, NEW n \in Tick, NEW label,
           Begin(t, args, n, label),
           \/ label = "setBits" /\ args.op = "set"
           \/ label = "testBits" /\ args.op = "wait" /\ args.wait = n
           \/ /\ label = "syncSet" /\ args.op = "sync" /\ t \in Member
              /\ n # 0 /\ ~args.set /\ ~args.met
    PROVE  GInv'
<1>1. /\ t = pxCurrentTCB /\ pc[t] = "run" /\ call[t] = NoCall /\ label \in ObjectLabels
      /\ IInv /\ KInv /\ RInv
  BY GroupLabels DEF Begin, Calls, At, GInv, KInv, PInv
<1>2. /\ pc \in [Task -> Label] /\ after \in [Task -> Continuation]
      /\ uxSchedulerSuspended \in Nat /\ call \in [Task -> CallType]
      /\ eventValue \in [Task -> ValueType] /\ due \in [Task -> Tick]
  BY <1>1, ListTypes DEF GInv, GroupTypes
<1>3. ~InWindow(t) /\ Outside(t)
  BY <1>1, GroupLabels
  DEF GInv, GroupCalls, Window, InSet, InTest, InSyncSet, InSyncTest, Waits, NoCall
<1>4. after[t] # "yieldUnless" /\ stateList[t] = "ready"
  <2>1. after[t] # "yieldUnless"
    BY <1>1, ApartFromObjects DEF IInv, ControlInv, ContinuationByLabel
  <2>2. stateList[t] = "ready"
    BY <1>1, ReadyThere, ApartFromObjects DEF RInv
  <2>. QED BY <2>1, <2>2
<1>5. /\ pc' = [pc EXCEPT ![t] = label] /\ call' = [call EXCEPT ![t] = args]
      /\ due' = [due EXCEPT ![t] = n] /\ uxReturn' = {}
      /\ uxSchedulerSuspended' = uxSchedulerSuspended + 1
      /\ n # 0 => uxSchedulerSuspended = 0
      /\ UNCHANGED <<after, eventList, eventValue, uxEventBits, pxCurrentTCB, arg>>
  BY DEF Begin, Goto, listVars, switchVars
<1>6. KInv'
  <2>1. ObjectStep(t, label)
    BY <1>1, <1>4, <1>5, ApartFromObjects DEF ObjectStep, Goto, Begin
  <2>2. after' \in [Task -> Continuation] /\ uxSchedulerSuspended' \in Nat
        /\ uxSchedulerSuspended' >= uxSchedulerSuspended
    BY <1>2, <1>5
  <2>3. UNCHANGED <<switchVars, uxPendedTicks, timeVars, listVars, priorityVars, notifyVars,
                    appVars>>
    BY DEF Begin
  <2>. QED BY <1>1, <1>4, <2>1, <2>2, <2>3, QuietObjectStep
<1>7. GroupTypes'
  BY <1>2, <1>5 DEF GInv, GroupTypes
<1>8. OneCall(t)'
  <2>1. InWindow(t)' /\ uxSchedulerSuspended' > 0
    BY <1>1, <1>2, <1>5 DEF InWindow
  <2>2. after'[t] \notin ObjectLabels \union {"yieldUnless"}
    BY <1>3, <1>4, <1>5 DEF InWindow
  <2>3. call'[t] = args /\ pc'[t] = label /\ (n # 0 => uxSchedulerSuspended' = 1)
    BY <1>2, <1>5
  <2>4. (InSet(t) \/ InTest(t) \/ InSyncSet(t))'
    BY <2>3 DEF InSet, InTest, InSyncSet
  <2>5. Window(t)'
    BY <1>1, <1>3, <1>5, <2>1, <2>2, <2>4 DEF Window, Outside
  <2>. QED BY <2>1, <2>5 DEF OneCall
<1>9. ASSUME NEW x \in Task, x # t PROVE OneCall(x)'
  BY <1>1, <1>2, <1>5, <1>9, OthersKeepTheirCalls
<1>10. GroupCalls'
  BY <1>8, <1>9 DEF GroupCalls, OneCall
<1>11. NobodyWaitsForSetBits'
  BY <1>2, <1>3, <1>5 DEF GInv, NobodyWaitsForSetBits, Waiting, Outside, Met
<1>. QED BY <1>6, <1>7, <1>10, <1>11 DEF GInv

\* What ThenResume does to the control of the running task.
LEMMA ResumeStep ==
    ASSUME IInv, NEW t \in Task, t = pxCurrentTCB, pc[t] \in ObjectLabels, NEW next,
           ThenResume(t, next), uxSchedulerSuspended' > 0, portVars' = portVars,
           UNCHANGED <<pxCurrentTCB, arg>>
    PROVE  /\ ObjectStep(t, "resumeAll")
           /\ pc' = [pc EXCEPT ![t] = "resumeAll"] /\ after' = [after EXCEPT ![t] = next]
           /\ pc'[t] = "resumeAll" /\ after'[t] = next
           /\ \A x \in Task \ {t} : pc'[x] = pc[x] /\ after'[x] = after[x]
<1>1. pc \in [Task -> Label] /\ after \in [Task -> Continuation]
  BY ListTypes
<1>. QED BY <1>1 DEF ThenResume, ObjectStep, Goto

\* xEventGroupSetBits releases every waiter whose condition the bits meet; those that stay wait
\* for something that is not set, whatever is cleared.
LEMMA SetBitsStep ==
    ASSUME GInv, NEW t \in Task, Window(t), pc[t] \in ObjectLabels, NEW bits \in SUBSET Bit,
           SetBits(t, bits), NEW next \in {"run", "syncTest"}, ThenResume(t, next),
           uxSchedulerSuspended' \in Nat, uxSchedulerSuspended' > 0, uxReturn' = {},
           call' \in [Task -> CallType], \A x \in Task \ {t} : call'[x] = call[x],
           UNCHANGED <<portVars, pxCurrentTCB, uxPendedTicks, timeVars, xItemValue, priorityVars,
                       notifyVars, arg, appVars, due>>
    PROVE  /\ KInv' /\ GroupTypes' /\ NobodyWaitsForSetBits'
           /\ \A x \in Task \ {t} : OneCall(x)'
           /\ eventList'[t] # Group /\ ~eventValue'[t].released
           /\ pc'[t] = "resumeAll" /\ after'[t] = next
           /\ uxEventBits' \subseteq uxEventBits \union bits
<1>. DEFINE now == uxEventBits \union bits
            R == {u \in Waiting : Met(call[u], now)}
<1>1. KInv /\ IInv /\ t = pxCurrentTCB /\ stateList[t] = "ready" /\ eventList[t] # Group
      /\ ~eventValue[t].released
  BY WindowIsReady DEF GInv, KInv, PInv, Window
<1>2. /\ R \in SUBSET Task /\ now \in SUBSET Bit /\ t \notin R
      /\ \A u \in R : eventList[u] = Group /\ Met(call[u], now)
  BY <1>1 DEF Waiting, GInv, GroupTypes
<1>3. /\ uxEventBits' = now \ ClearedFor(R)
      /\ Release(t, R, now)
  BY DEF SetBits
<1>. HIDE DEF R, now
<1>4. /\ eventValue' = [u \in Task |-> IF u \in R THEN [released |-> TRUE, bits |-> now]
                                       ELSE eventValue[u]]
      /\ eventList' = [u \in Task |-> IF u \in R THEN "none" ELSE eventList[u]]
      /\ stateList' = [u \in Task |-> IF u \in R THEN "ready" ELSE stateList[u]]
      /\ uxTopReadyPriority' = TopWith(R, uxPriority)
      /\ xYieldPending' = (\/ xYieldPending
                           \/ \E u \in R : uxPriority[u] > uxPriority[t])
  BY <1>3 DEF Release
<1>5. /\ ObjectStep(t, "resumeAll") /\ pc'[t] = "resumeAll" /\ after'[t] = next
      /\ after' = [after EXCEPT ![t] = next]
      /\ \A x \in Task \ {t} : pc'[x] = pc[x] /\ after'[x] = after[x]
  BY <1>1, ResumeStep
<1>6. KInv'
  <2>1. after' \in [Task -> Continuation]
    BY <1>1, <1>5, ListTypes, GroupLabels DEF Continuation
  <2>. QED BY <1>1, <1>2, <1>4, <1>5, <2>1, ReleaseStep
<1>7. GroupTypes'
  <2>1. eventValue' \in [Task -> ValueType]
    BY <1>2, <1>4 DEF GInv, GroupTypes, ValueType
  <2>2. uxEventBits' \in SUBSET Bit
    BY <1>2, <1>3
  <2>. QED BY <2>1, <2>2 DEF GInv, GroupTypes
<1>8. ASSUME NEW x \in Task, x # t PROVE OneCall(x)'
  <2>1. CASE x \in R
    <3>1. eventValue'[x] = [released |-> TRUE, bits |-> now] /\ eventList'[x] = "none"
      BY <1>4, <2>1
    <3>. QED BY <1>1, <1>2, <1>5, <1>8, <2>1, <3>1, OthersKeepTheirCalls
  <2>2. CASE x \notin R
    <3>1. eventValue'[x] = eventValue[x] /\ eventList'[x] = eventList[x]
      BY <1>4, <2>2
    <3>. QED BY <1>1, <1>5, <1>8, <3>1, OthersKeepTheirCalls
  <2>. QED BY <2>1, <2>2
<1>9. eventList'[t] # Group /\ ~eventValue'[t].released
  BY <1>1, <1>2, <1>4
<1>10. NobodyWaitsForSetBits'
  <2>1. SUFFICES ASSUME NEW x \in Waiting' PROVE ~Met(call'[x], uxEventBits')
    BY DEF NobodyWaitsForSetBits, Met
  <2>2. x \in Task /\ x # t /\ eventList[x] = Group /\ x \notin R
    BY <1>4, <1>9, GroupLabels DEF Waiting
  <2>3. ~Met(call[x], now)
    BY <2>2 DEF R, Waiting
  <2>4. call'[x] = call[x] /\ uxEventBits' \subseteq now
    BY <1>3, <2>2
  <2>. QED BY <2>3, <2>4 DEF Met
<1>11. uxEventBits' \subseteq uxEventBits \union bits
  BY <1>3 DEF now
<1>. QED BY <1>5, <1>6, <1>7, <1>8, <1>9, <1>10, <1>11

LEMMA SetBitsSuspendedStep ==
    ASSUME GInv, NEW t \in Task, SetBitsSuspended(t)
    PROVE  GInv'
<1>1. t = pxCurrentTCB /\ pc[t] = "setBits" /\ InWindow(t)
  BY GroupLabels DEF SetBitsSuspended, At, InWindow
<1>2. Window(t) /\ call[t].op = "set" /\ call[t] \in CallType /\ uxSchedulerSuspended \in Nat
  BY <1>1, ListTypes DEF GInv, GroupCalls, GroupTypes, Window, InSet, InTest, InSyncSet,
     InSyncTest, KInv, PInv
<1>3. call[t].bits \in SUBSET Bit
  BY <1>2, CallTypes DEF SetCall
<1>4. /\ call' = [call EXCEPT ![t] = NoCall] /\ uxSchedulerSuspended' = uxSchedulerSuspended
      /\ call \in [Task -> CallType]
  BY DEF SetBitsSuspended, suspendVars, GInv, GroupTypes
<1>5. call' \in [Task -> CallType] /\ call'[t] = NoCall
      /\ \A x \in Task \ {t} : call'[x] = call[x]
  BY <1>4 DEF CallType
<1>6. /\ KInv' /\ GroupTypes' /\ NobodyWaitsForSetBits'
      /\ \A x \in Task \ {t} : OneCall(x)'
      /\ eventList'[t] # Group /\ ~eventValue'[t].released
      /\ pc'[t] = "resumeAll" /\ after'[t] = "run"
  <2>1. /\ SetBits(t, call[t].bits) /\ ThenResume(t, "run") /\ uxReturn' = {}
        /\ UNCHANGED <<portVars, pxCurrentTCB, uxPendedTicks, timeVars, xItemValue,
                       priorityVars, notifyVars, arg, appVars, due>>
    BY DEF SetBitsSuspended, suspendVars
  <2>2. uxSchedulerSuspended' > 0 /\ uxSchedulerSuspended' \in Nat /\ pc[t] \in ObjectLabels
    BY <1>1, <1>2, <1>4, GroupLabels DEF Window
  <2>. QED BY <1>2, <1>3, <1>5, <2>1, <2>2, SetBitsStep
<1>7. OneCall(t)'
  BY <1>5, <1>6, ApartFromObjects DEF OneCall, InWindow, Outside
<1>8. GroupCalls'
  BY <1>6, <1>7 DEF GroupCalls, OneCall
<1>. QED BY <1>6, <1>8 DEF GInv

LEMMA SyncSetStep ==
    ASSUME GInv, NEW t \in Task, SyncSet(t)
    PROVE  GInv'
<1>1. t = pxCurrentTCB /\ pc[t] = "syncSet" /\ InWindow(t)
  BY GroupLabels DEF SyncSet, At, InWindow
<1>2. Window(t) /\ InSyncSet(t)
  BY <1>1 DEF GInv, GroupCalls, Window, InSet, InTest, InSyncSet, InSyncTest
<1>3. /\ call[t].op = "sync" /\ t \in Member /\ uxSchedulerSuspended = 1
      /\ call \in [Task -> CallType] /\ {SyncBit[t]} \in SUBSET Bit
  BY <1>2, GroupAssumption DEF InSyncSet, GInv, GroupTypes
<1>. DEFINE all == SyncBits \subseteq uxEventBits \union {SyncBit[t]}
<1>4. call' = [call EXCEPT ![t] = [call[t] EXCEPT !.set = TRUE, !.met = all]]
  BY DEF SyncSet
<1>5. /\ call' \in [Task -> CallType] /\ \A x \in Task \ {t} : call'[x] = call[x]
      /\ call'[t].op = "sync" /\ call'[t].set = TRUE /\ call'[t].met = all
  <2>1. call[t] \in SyncCall
    BY <1>3, CallTypes
  <2>2. /\ [call[t] EXCEPT !.set = TRUE, !.met = all] \in SyncCall
        /\ [call[t] EXCEPT !.set = TRUE, !.met = all].op = "sync"
        /\ [call[t] EXCEPT !.set = TRUE, !.met = all].set = TRUE
        /\ [call[t] EXCEPT !.set = TRUE, !.met = all].met = all
    BY <2>1 DEF SyncCall
  <2>3. [call[t] EXCEPT !.set = TRUE, !.met = all] \in CallType
    BY <2>2 DEF CallType
  <2>. QED BY <1>3, <1>4, <2>1, <2>2, <2>3
<1>. HIDE DEF all
<1>6. /\ KInv' /\ GroupTypes' /\ NobodyWaitsForSetBits'
      /\ \A x \in Task \ {t} : OneCall(x)'
      /\ eventList'[t] # Group /\ ~eventValue'[t].released
      /\ pc'[t] = "resumeAll" /\ after'[t] = "syncTest"
      /\ uxEventBits' \subseteq uxEventBits \union {SyncBit[t]}
  <2>1. /\ SetBits(t, {SyncBit[t]}) /\ ThenResume(t, "syncTest") /\ uxReturn' = {}
        /\ UNCHANGED <<portVars, pxCurrentTCB, uxPendedTicks, timeVars, xItemValue,
                       priorityVars, notifyVars, arg, appVars, due>>
        /\ uxSchedulerSuspended' = 2
    BY <1>3 DEF SyncSet
  <2>2. uxSchedulerSuspended' > 0 /\ uxSchedulerSuspended' \in Nat /\ pc[t] \in ObjectLabels
    BY <1>1, <2>1, GroupLabels
  <2>. QED BY <1>2, <1>3, <1>5, <2>1, <2>2, SetBitsStep
<1>7. OneCall(t)'
  <2>1. uxSchedulerSuspended' = 2 /\ UNCHANGED pxCurrentTCB
    BY <1>3 DEF SyncSet
  <2>2. InWindow(t)' /\ pc'[t] \notin ObjectLabels
    BY <1>6, ApartFromObjects, GroupLabels DEF InWindow
  <2>3. SawAll(t)'
    BY <1>5, <1>6 DEF SawAll, all
  <2>4. InSyncTest(t)'
    BY <1>3, <1>5, <1>6, <2>1, <2>3 DEF InSyncTest
  <2>5. Window(t)'
    BY <1>1, <1>6, <2>1, <2>2, <2>4 DEF Window
  <2>. QED BY <2>2, <2>5 DEF OneCall
<1>8. GroupCalls'
  BY <1>6, <1>7 DEF GroupCalls, OneCall
<1>. QED BY <1>6, <1>8 DEF GInv

\* The running task returns from the code under vTaskSuspendAll, and clears bits at most.
LEMMA ReturnStep ==
    ASSUME GInv, NEW t \in Task, Window(t), pc[t] \in ObjectLabels, NEW result \in SUBSET Bit,
           ReturnBits(t, result), uxEventBits' \in SUBSET uxEventBits, NotPlaced,
           ThenResume(t, "run"),
           UNCHANGED <<portVars, switchVars, suspendVars, xTickCount, xNumOfOverflows,
                       priorityVars, notifyVars, arg, appVars>>
    PROVE  GInv'
<1>1. KInv /\ IInv /\ t = pxCurrentTCB /\ stateList[t] = "ready" /\ eventList[t] # Group
      /\ ~eventValue[t].released /\ uxSchedulerSuspended > 0
  BY WindowIsReady DEF GInv, KInv, PInv, Window
<1>2. /\ UNCHANGED <<pxCurrentTCB, uxSchedulerSuspended, eventList, eventValue>>
  BY DEF switchVars, suspendVars, listVars, NotPlaced
<1>3. /\ ObjectStep(t, "resumeAll") /\ pc'[t] = "resumeAll" /\ after'[t] = "run"
      /\ after' = [after EXCEPT ![t] = "run"]
      /\ \A x \in Task \ {t} : pc'[x] = pc[x] /\ after'[x] = after[x]
  BY <1>1, <1>2, ResumeStep
<1>4. KInv'
  <2>1. after' \in [Task -> Continuation] /\ uxSchedulerSuspended' \in Nat
        /\ uxSchedulerSuspended' >= uxSchedulerSuspended
    BY <1>1, <1>2, <1>3, ListTypes DEF Continuation
  <2>2. UNCHANGED <<switchVars, uxPendedTicks, timeVars, listVars, priorityVars, notifyVars,
                    appVars>>
    BY DEF suspendVars, timeVars, NotPlaced
  <2>. QED BY <1>1, <1>3, <2>1, <2>2, QuietObjectStep
<1>5. /\ call' = [call EXCEPT ![t] = NoCall] /\ due' = [due EXCEPT ![t] = 0]
      /\ uxReturn' = result
  BY DEF ReturnBits
<1>6. GroupTypes'
  BY <1>2, <1>5, TasksAssumption DEF GInv, GroupTypes, CallType, Tick
<1>7. OneCall(t)'
  BY <1>1, <1>2, <1>3, <1>5, ApartFromObjects DEF OneCall, InWindow, Outside, GInv, GroupTypes
<1>8. ASSUME NEW x \in Task, x # t PROVE OneCall(x)'
  BY <1>1, <1>2, <1>3, <1>5, <1>8, OthersKeepTheirCalls
<1>9. GroupCalls'
  BY <1>7, <1>8 DEF GroupCalls, OneCall
<1>10. NobodyWaitsForSetBits'
  BY <1>1, <1>2, <1>5 DEF GInv, NobodyWaitsForSetBits, Waiting, Met
<1>. QED BY <1>4, <1>6, <1>9, <1>10 DEF GInv

\* The running task goes into the event list, for a condition that the bits do not meet.
LEMMA PlaceOnGroupStep ==
    ASSUME GInv, NEW t \in Task, Window(t), pc[t] \in ObjectLabels,
           call[t].op \in {"wait", "sync"},
           call[t].op = "sync" => t \in Member /\ call[t].set /\ ~call[t].met,
           ~Met(call[t], uxEventBits), uxSchedulerSuspended = 1, NEW n \in Tick \ {0},
           vTaskPlaceOnUnorderedEventList(t, n), ThenResume(t, "yieldUnless"), uxReturn' = {},
           UNCHANGED <<portVars, switchVars, suspendVars, xTickCount, xNumOfOverflows,
                       priorityVars, notifyVars, arg, appVars, uxEventBits, call, due>>
    PROVE  GInv'
<1>1. KInv /\ IInv /\ t = pxCurrentTCB
  BY DEF GInv, KInv, PInv, Window
<1>2. UNCHANGED <<pxCurrentTCB, uxSchedulerSuspended>>
  BY DEF switchVars, suspendVars
<1>3. /\ ObjectStep(t, "resumeAll") /\ pc'[t] = "resumeAll" /\ after'[t] = "yieldUnless"
      /\ after' = [after EXCEPT ![t] = "yieldUnless"]
      /\ \A x \in Task \ {t} : pc'[x] = pc[x] /\ after'[x] = after[x]
  BY <1>1, <1>2, ResumeStep
<1>4. /\ eventList' = [eventList EXCEPT ![t] = Group]
      /\ eventValue' = [eventValue EXCEPT ![t] = NotReleased]
      /\ prvAddCurrentTaskToDelayedList(t, n, TRUE)
  BY DEF vTaskPlaceOnUnorderedEventList
<1>5. KInv'
  BY <1>1, <1>3, <1>4, GroupLabels, PlaceStep
<1>6. GroupTypes'
  BY <1>4 DEF GInv, GroupTypes, ValueType
<1>7. eventValue'[t] = NotReleased /\ ~eventValue'[t].released
  BY <1>4 DEF GInv, GroupTypes, NotReleased
<1>8. OneCall(t)'
  <2>1. ~InWindow(t)'
    BY <1>3, ApartFromObjects DEF InWindow
  <2>2. Waits(t)'
    BY <1>3, <1>7 DEF Waits
  <2>. QED BY <2>1, <2>2 DEF OneCall
<1>9. ASSUME NEW x \in Task, x # t PROVE OneCall(x)'
  <2>1. eventList'[x] = eventList[x] /\ eventValue'[x] = eventValue[x] /\ call'[x] = call[x]
    BY <1>1, <1>4, <1>9, ListTypes DEF GInv, GroupTypes
  <2>. QED BY <1>1, <1>3, <1>9, <2>1, OthersKeepTheirCalls
<1>10. GroupCalls'
  BY <1>8, <1>9 DEF GroupCalls, OneCall
<1>11. NobodyWaitsForSetBits'
  BY <1>1, <1>4, ListTypes DEF GInv, NobodyWaitsForSetBits, Waiting, Met
<1>. QED BY <1>5, <1>6, <1>10, <1>11 DEF GInv

LEMMA TestBitsStep ==
    ASSUME GInv, NEW t \in Task, TestBits(t)
    PROVE  GInv'
<1>1. t = pxCurrentTCB /\ pc[t] = "testBits" /\ InWindow(t) /\ pc[t] \in ObjectLabels
  BY GroupLabels DEF TestBits, At, InWindow
<1>2. Window(t) /\ InTest(t)
  BY <1>1 DEF GInv, GroupCalls, Window, InSet, InTest, InSyncSet, InSyncTest
<1>3. call[t] \in WaitCall /\ call[t].op = "wait" /\ call[t].wait \in Tick
  BY <1>2, CallTypes DEF InTest, GInv, GroupTypes, WaitCall
<1>4. UNCHANGED <<portVars, switchVars, suspendVars, xTickCount, xNumOfOverflows,
                  priorityVars, notifyVars, arg, appVars>>
  BY DEF TestBits
<1>5. CASE /\ uxEventBits' = IF Met(call[t], uxEventBits) /\ call[t].clear
                             THEN uxEventBits \ call[t].bits ELSE uxEventBits
           /\ ReturnBits(t, uxEventBits)
           /\ NotPlaced
           /\ ThenResume(t, "run")
  <2>1. uxEventBits \in SUBSET Bit /\ uxEventBits' \in SUBSET uxEventBits
    BY <1>5 DEF GInv, GroupTypes
  <2>. QED BY <1>1, <1>2, <1>4, <1>5, <2>1, ReturnStep
<1>6. CASE /\ ~Met(call[t], uxEventBits) /\ call[t].wait # 0
           /\ vTaskPlaceOnUnorderedEventList(t, call[t].wait)
           /\ ThenResume(t, "yieldUnless")
           /\ uxReturn' = {}
           /\ UNCHANGED <<uxEventBits, call, due>>
  <2>1. uxSchedulerSuspended = 1
    BY <1>2, <1>6 DEF InTest
  <2>. QED BY <1>1, <1>2, <1>3, <1>4, <1>6, <2>1, PlaceOnGroupStep
<1>. QED BY <1>5, <1>6 DEF TestBits

LEMMA SyncTestStep ==
    ASSUME GInv, NEW t \in Task, SyncTest(t)
    PROVE  GInv'
<1>1. t = pxCurrentTCB /\ pc[t] = "syncTest" /\ InWindow(t) /\ pc[t] \in ObjectLabels
  BY GroupLabels DEF SyncTest, At, InWindow
<1>2. Window(t) /\ InSyncTest(t) /\ uxSchedulerSuspended = 1
  BY <1>1 DEF GInv, GroupCalls, Window, InSet, InTest, InSyncSet, InSyncTest
<1>3. call[t] \in SyncCall /\ call[t].op = "sync" /\ t \in Member /\ call[t].set
  BY <1>2, CallTypes DEF InSyncTest, GInv, GroupTypes
<1>4. UNCHANGED <<portVars, switchVars, suspendVars, xTickCount, xNumOfOverflows,
                  priorityVars, notifyVars, arg, appVars>>
  BY DEF SyncTest
<1>5. CASE /\ uxEventBits' = uxEventBits \ SyncBits
           /\ ReturnBits(t, uxEventBits \union SyncBits)
           /\ NotPlaced
           /\ ThenResume(t, "run")
  <2>1. uxEventBits \union SyncBits \in SUBSET Bit /\ uxEventBits' \in SUBSET uxEventBits
    BY <1>5, GroupAssumption DEF GInv, GroupTypes, SyncBits
  <2>. QED BY <1>1, <1>2, <1>4, <1>5, <2>1, ReturnStep
<1>6. CASE /\ ~call[t].met
           /\ vTaskPlaceOnUnorderedEventList(t, call[t].wait)
           /\ ThenResume(t, "yieldUnless")
           /\ uxReturn' = {}
           /\ UNCHANGED <<uxEventBits, call, due>>
  <2>1. ~Met(call[t], uxEventBits)
    BY <1>2, <1>3, <1>6 DEF InSyncTest, SawAll, SyncCall, Met
  <2>2. call[t].wait \in Tick \ {0}
    <3>1. portMAX_DELAY \in Tick \ {0}
      BY TasksAssumption DEF portMAX_DELAY, Tick
    <3>. QED BY <1>3, <3>1 DEF SyncCall
  <2>. QED BY <1>1, <1>2, <1>3, <1>4, <1>6, <2>1, <2>2, PlaceOnGroupStep
<1>. QED BY <1>5, <1>6 DEF SyncTest

\* A step of the running task, in the application's code, that changes only the bits and what it
\* waits for.
LEMMA AtRunStep ==
    ASSUME GInv, NEW t \in Task, t = pxCurrentTCB, pc[t] = "run",
           WholeCriticalSection \/ UNCHANGED portVars,
           UNCHANGED <<switchVars, suspendVars, timeVars, listVars, priorityVars, notifyVars,
                       controlVars, appVars>>
    PROVE  /\ KInv' /\ eventList[t] # Group /\ after[t] # "yieldUnless"
           /\ UNCHANGED <<pc, after, eventList>>
<1>1. KInv /\ IInv
  BY DEF GInv, KInv, PInv
<1>2. /\ UNCHANGED <<pc, after, arg, eventList, pxCurrentTCB, uxSchedulerSuspended,
                     uxPendedTicks>>
      /\ pc \in [Task -> Label] /\ after \in [Task -> Continuation]
      /\ uxSchedulerSuspended \in Nat
  BY <1>1, ListTypes DEF controlVars, listVars, switchVars, suspendVars
<1>3. stateList[t] = "ready" /\ after[t] # "yieldUnless" /\ eventList[t] # Group
  <2>1. stateList[t] = "ready"
    BY <1>1, ReadyThere, ApartFromObjects DEF KInv, RInv
  <2>2. after[t] # "yieldUnless"
    BY <1>1, ApartFromObjects DEF IInv, ControlInv, ContinuationByLabel
  <2>3. eventList[t] # Group
    BY <1>1, <2>1, GroupLabels DEF KInv, RInv, OnObjects, Blocked
  <2>. QED BY <2>1, <2>2, <2>3
<1>4. ObjectStep(t, "run")
  <2>1. Goto(t, "run")
    BY <1>2 DEF Goto
  <2>. QED BY <1>2, <1>3, <2>1 DEF ObjectStep
<1>5. KInv'
  BY <1>1, <1>2, <1>3, <1>4, QuietObjectStep
<1>. QED BY <1>2, <1>3, <1>5

LEMMA ClearBitsStep ==
    ASSUME GInv, NEW t \in Task, NEW bits, xEventGroupClearBits(t, bits)
    PROVE  GInv'
<1>1. /\ KInv' /\ UNCHANGED <<pc, after, eventList>>
      /\ t = pxCurrentTCB /\ pc[t] = "run" /\ call[t] = NoCall
  BY AtRunStep DEF xEventGroupClearBits, Calls, At
<1>2. /\ uxEventBits' = uxEventBits \ bits /\ uxReturn' = {}
      /\ UNCHANGED <<eventValue, call, due>>
  BY DEF xEventGroupClearBits
<1>3. GroupTypes'
  BY <1>2 DEF GInv, GroupTypes
<1>4. OneCall(t)'
  <2>1. ~InWindow(t) /\ Outside(t)
    BY <1>1, GroupLabels
    DEF GInv, GroupCalls, Window, InSet, InTest, InSyncSet, InSyncTest, Waits, NoCall
  <2>. QED BY <1>1, <1>2, <2>1 DEF OneCall, InWindow, Outside
<1>5. ASSUME NEW x \in Task, x # t PROVE OneCall(x)'
  BY <1>1, <1>2, <1>5, OthersKeepTheirCalls
<1>6. GroupCalls'
  BY <1>4, <1>5 DEF GroupCalls, OneCall
<1>7. NobodyWaitsForSetBits'
  BY <1>1, <1>2 DEF GInv, NobodyWaitsForSetBits, Waiting, Met
<1>. QED BY <1>1, <1>3, <1>6, <1>7 DEF GInv

LEMMA FinishWaitStep ==
    ASSUME GInv, NEW t \in Task, FinishWait(t)
    PROVE  GInv'
<1>1. /\ KInv' /\ UNCHANGED <<pc, after, eventList>> /\ eventList[t] # Group
      /\ t = pxCurrentTCB /\ pc[t] = "run" /\ call[t] # NoCall
  BY AtRunStep DEF FinishWait, At
<1>2. ~InWindow(t) /\ Waits(t)
  BY <1>1, GroupLabels, ApartFromObjects
  DEF GInv, GroupCalls, Window, InSet, InTest, InSyncSet, InSyncTest, Outside
<1>3. PICK result \in SUBSET Bit :
          ReturnBits(t, result) /\ uxEventBits' \in SUBSET uxEventBits
  <2>1. /\ uxEventBits \in SUBSET Bit
        /\ eventValue[t].released => eventValue[t].bits \in SUBSET Bit
    <3>1. uxEventBits \in SUBSET Bit /\ eventValue[t] \in ValueType
      BY DEF GInv, GroupTypes
    <3>. QED BY <3>1, ValueTypes
  <2>2. \/ /\ eventValue[t].released
           /\ ReturnBits(t, eventValue[t].bits) /\ UNCHANGED uxEventBits
        \/ /\ ~eventValue[t].released
           /\ ReturnBits(t, uxEventBits)
           /\ uxEventBits' = IF Met(call[t], uxEventBits) /\ call[t].clear
                             THEN uxEventBits \ call[t].bits ELSE uxEventBits
    BY DEF FinishWait
  <2>3. CASE eventValue[t].released
    BY <2>1, <2>2, <2>3
  <2>4. CASE ~eventValue[t].released
    BY <2>1, <2>2, <2>4
  <2>. QED BY <2>3, <2>4
<1>4. /\ eventValue' = [eventValue EXCEPT ![t] = NotReleased]
      /\ call' = [call EXCEPT ![t] = NoCall] /\ due' = [due EXCEPT ![t] = 0]
      /\ uxReturn' = result
  BY <1>3 DEF FinishWait, ReturnBits
<1>5. GroupTypes'
  <2>1. /\ uxEventBits \in SUBSET Bit /\ eventValue \in [Task -> ValueType]
        /\ call \in [Task -> CallType] /\ due \in [Task -> Tick]
    BY DEF GInv, GroupTypes
  <2>2. NotReleased \in ValueType /\ NoCall \in CallType /\ 0 \in Tick
    BY TasksAssumption DEF ValueType, CallType, Tick
  <2>3. eventValue' \in [Task -> ValueType] /\ call' \in [Task -> CallType]
    BY <1>4, <2>1, <2>2
  <2>4. due' \in [Task -> Tick]
    BY <1>4, <2>1, <2>2
  <2>5. uxEventBits' \in SUBSET Bit /\ uxReturn' \in SUBSET Bit
    BY <1>3, <1>4, <2>1
  <2>. QED BY <2>3, <2>4, <2>5 DEF GroupTypes
<1>6. OneCall(t)'
  <2>1. call'[t] = NoCall /\ ~eventValue'[t].released
    BY <1>4 DEF GInv, GroupTypes, NotReleased
  <2>. QED BY <1>1, <1>2, <2>1 DEF OneCall, InWindow, Outside
<1>7. ASSUME NEW x \in Task, x # t PROVE OneCall(x)'
  <2>1. call'[x] = call[x] /\ eventValue'[x] = eventValue[x]
    BY <1>4, <1>7 DEF GInv, GroupTypes
  <2>. QED BY <1>1, <1>7, <2>1, OthersKeepTheirCalls
<1>8. GroupCalls'
  BY <1>6, <1>7 DEF GroupCalls, OneCall
<1>9. NobodyWaitsForSetBits'
  BY <1>1, <1>3, <1>4 DEF GInv, NobodyWaitsForSetBits, Waiting, Met, GroupTypes
<1>. QED BY <1>1, <1>5, <1>8, <1>9 DEF GInv
---------------------------------------------------------------------------
(* The theorems *)

LEMMA GroupCallStep ==
    ASSUME GInv, NEW t \in Task, GroupCall(t)
    PROVE  GInv'
<1>1. portMAX_DELAY \in Tick \ {0} /\ 0 \in Tick
  BY TasksAssumption DEF portMAX_DELAY, Tick
<1>2. ASSUME NEW bits \in BitsToSet, xEventGroupSetBits(t, bits)
      PROVE  GInv'
  <2>. DEFINE args == [op |-> "set", bits |-> bits]
  <2>1. args \in CallType /\ args.op = "set"
    BY GroupAssumption DEF CallType, SetCall
  <2>2. Begin(t, args, 0, "setBits")
    BY <1>2 DEF xEventGroupSetBits
  <2>. HIDE DEF args
  <2>. QED BY <1>1, <2>1, <2>2, BeginStep
<1>3. ASSUME NEW bits \in BitsToClear, xEventGroupClearBits(t, bits)
      PROVE  GInv'
  BY <1>3, ClearBitsStep
<1>4. ASSUME NEW bits \in BitsToWaitFor, NEW n \in BitWaits, NEW clear \in BOOLEAN,
             NEW all \in BOOLEAN, xEventGroupWaitBits(t, bits, clear, all, n)
      PROVE  GInv'
  <2>. DEFINE args == [op |-> "wait", bits |-> bits, clear |-> clear, all |-> all, wait |-> n]
  <2>1. args \in CallType /\ args.op = "wait" /\ args.wait = n /\ n \in Tick
    BY GroupAssumption DEF CallType, WaitCall
  <2>2. Begin(t, args, n, "testBits")
    BY <1>4 DEF xEventGroupWaitBits
  <2>. HIDE DEF args
  <2>. QED BY <2>1, <2>2, BeginStep
<1>5. CASE xEventGroupSync(t)
  <2>. DEFINE args == [op |-> "sync", bits |-> SyncBits, clear |-> TRUE, all |-> TRUE,
                       wait |-> portMAX_DELAY, set |-> FALSE, met |-> FALSE]
  <2>1. args \in CallType /\ args.op = "sync" /\ ~args.set /\ ~args.met
    BY DEF CallType, SyncCall
  <2>2. Begin(t, args, portMAX_DELAY, "syncSet") /\ t \in Member
    BY <1>5 DEF xEventGroupSync
  <2>. HIDE DEF args
  <2>. QED BY <1>1, <2>1, <2>2, BeginStep
<1>. QED BY <1>2, <1>3, <1>4, <1>5 DEF GroupCall

\* Every step keeps the invariant.
LEMMA GroupStep == GInv /\ [GroupNext]_allVars => GInv'
<1>1. ASSUME GInv, UNCHANGED allVars PROVE GInv'
  <2>1. KInv'
    BY <1>1, SchedulerKeeps DEF GInv, allVars
  <2>2. UNCHANGED <<pc, after, pxCurrentTCB, uxSchedulerSuspended, eventList, uxEventBits,
                    eventValue, uxReturn, call, due>>
    BY <1>1 DEF allVars, vars, groupVars, controlVars, switchVars, suspendVars, listVars
  <2>3. GroupTypes' /\ NobodyWaitsForSetBits'
    BY <1>1, <2>2 DEF GInv, GroupTypes, NobodyWaitsForSetBits, Waiting, Met
  <2>4. GroupCalls'
    BY <1>1, <2>2 DEF GInv, GroupCalls, InWindow, Window, InSet, InTest, InSyncSet,
       InSyncTest, SawAll, Outside, Waits, Met
  <2>. QED BY <2>1, <2>3, <2>4 DEF GInv
<1>2. ASSUME GInv, SchedulerStep PROVE GInv'
  BY <1>2, SchedulerKeepsInv
<1>3. ASSUME GInv, NEW t \in Task, GroupContinue(t) PROVE GInv'
  BY <1>3, SetBitsSuspendedStep, TestBitsStep, FinishWaitStep, SyncSetStep, SyncTestStep
  DEF GroupContinue
<1>4. ASSUME GInv, NEW t \in Task, GroupCall(t) PROVE GInv'
  BY <1>4, GroupCallStep
<1>. QED BY <1>1, <1>2, <1>3, <1>4 DEF GroupNext

LEMMA GroupStarts == GroupInit => GInv
<1>. SUFFICES ASSUME GroupInit PROVE GInv
  OBVIOUS
<1>1. Init /\ KInv
  BY SchedulerStarts DEF GroupInit
<1>2. GroupTypes
  BY TasksAssumption
  DEF GroupInit, GroupTypes, CallType, ValueType, Tick
<1>3. /\ \A x \in Task : /\ eventList[x] = "none" /\ pc[x] = "run" /\ after[x] = "run"
                         /\ call[x] = NoCall /\ eventValue[x] = NotReleased
  BY <1>1 DEF GroupInit, Init
<1>4. GroupCalls /\ NobodyWaitsForSetBits
  BY <1>3, GroupLabels, ApartFromObjects
  DEF GroupCalls, InWindow, Outside, NotReleased, NobodyWaitsForSetBits, Waiting
<1>. QED BY <1>1, <1>2, <1>4 DEF GInv

LEMMA AlwaysGInv == GroupSpec => []GInv
  BY GroupStarts, GroupStep, PTL DEF GroupSpec

(***************************************************************************)
(* Nobody stays in the event list while the bits that he waits for are     *)
(* set, whoever set them and whoever clears them on exit; those in the     *)
(* list are blocked in a call that says what it waits for; and the setter  *)
(* does not run on when it released a more urgent task.                    *)
(***************************************************************************)
THEOREM GroupCorrect == GroupSpec => []GroupIsSound
<1>1. ASSUME GInv PROVE GroupIsSound
  <2>1. GroupTypes /\ GroupCalls /\ NobodyWaitsForSetBits /\ HighestPriorityRuns /\ OnObjects
        /\ IInv
    BY <1>1 DEF GInv, KInv, PInv, RInv
  <2>2. \A t \in Task : /\ eventValue[t].released => eventValue[t].bits \subseteq Bit
                        /\ call[t].op \in {"none", "set", "wait", "sync"}
    <3>. SUFFICES ASSUME NEW t \in Task
                  PROVE  /\ eventValue[t].released => eventValue[t].bits \subseteq Bit
                         /\ call[t].op \in {"none", "set", "wait", "sync"}
      OBVIOUS
    <3>1. eventValue[t] \in ValueType /\ call[t] \in CallType
      BY <2>1 DEF GroupTypes
    <3>2. eventValue[t].released => eventValue[t].bits \subseteq Bit
      BY <3>1, ValueTypes
    <3>. QED BY <3>1, <3>2, CallTypes
  <2>3. ASSUME NEW t \in Waiting
        PROVE  /\ call[t].op \in {"wait", "sync"}
               /\ ~eventValue[t].released
               /\ stateList[t] \in {"delayed", "overflow", "suspended"}
    <3>1. t \in Task /\ eventList[t] = Group
      BY DEF Waiting
    <3>2. ~InWindow(t)
      BY <1>1, <2>1, <3>1, WindowIsReady DEF GroupCalls, GInv
    <3>3. Waits(t)
      BY <2>1, <3>1, <3>2 DEF GroupCalls, Outside
    <3>. QED BY <2>1, <3>1, <3>3, GroupLabels DEF Waits, OnObjects, Blocked
  <2>4. GroupTypeOK
    BY <2>1, <2>2, <2>3 DEF GroupTypeOK, GroupTypes
  <2>. QED BY <2>1, <2>4 DEF GroupIsSound
<1>. QED BY <1>1, AlwaysGInv, PTL

\* What was proved of the scheduler alone holds with the steps of the group, too.
THEOREM SchedulerStaysCorrect ==
    GroupSpec => [](TypeOK /\ ControlInv /\ DelayedAreNotDue /\ RunsOrLeaves)
<1>1. GInv => TypeOK /\ ControlInv /\ DelayedAreNotDue /\ RunsOrLeaves
  BY DEF GInv, KInv, PInv, IInv, RInv
<1>. QED BY <1>1, AlwaysGInv, PTL
---------------------------------------------------------------------------
(* A wait gives up for a good reason only *)

\* The application neither suspends nor deletes a task that waits for bits: vTaskSuspend takes it
\* out of the event list, and the call that it then resumes in returns early.
WaitersAreLeftAlone == (WaitingTasks \union Member) \intersect (Suspendable \union Deletable) = {}

\* The calls are those that the application makes.
CallGiven(t) ==
    /\ call[t].op = "set" => call[t].bits \in BitsToSet
    /\ call[t].op = "wait" => t \in WaitingTasks /\ call[t].bits \in BitsToWaitFor
    /\ call[t].op = "sync" => t \in Member

\* The ticks until a delayed task wakes.
Remaining(t) == xItemValue[t] - xTickCount + (IF stateList[t] = "overflow" THEN TickMod ELSE 0)

\* No tick comes between the call and the look at the bits.
Fresh(t) == pc[t] = "testBits" /\ call[t].op = "wait" => due[t] = call[t].wait

\* A task that nobody released is in the event list until its ticks are over, or for ever.
SleepsFor(t, left) ==
    IF call[t].wait = portMAX_DELAY THEN stateList[t] = "suspended"
    ELSE stateList[t] \in {"delayed", "overflow"} /\ left = Remaining(t)

WaitsItsTicks(t) ==
    call[t].op \in {"wait", "sync"} /\ ~InWindow(t) /\ ~eventValue[t].released =>
        \/ eventList[t] = Group /\ SleepsFor(t, due[t])
        \/ eventList[t] # Group /\ due[t] = 0 /\ call[t].wait # portMAX_DELAY

TimeInv == \A t \in Task : CallGiven(t) /\ Fresh(t) /\ WaitsItsTicks(t)

\* The time moves in xTaskIncrementTick only.
LEMMA TimeMoves ==
    ASSUME IInv, Next
    PROVE  \/ UNCHANGED xTickCount
           \/ /\ xTaskIncrementTick
              /\ uxSchedulerSuspended = 0 \/ pc[pxCurrentTCB] = "replay"
<1>1. ASSUME Interrupt, xTickCount' # xTickCount
      PROVE  xTaskIncrementTick /\ uxSchedulerSuspended = 0
  BY <1>1 DEF Interrupt, TimerTick, TimerTickPended, NotifyFromISR, xTaskResumeFromISR, timeVars
<1>2. ASSUME NEW t \in Task, Continue(t) \/ Yield(t), xTickCount' # xTickCount
      PROVE  xTaskIncrementTick /\ pc[pxCurrentTCB] = "replay"
  BY <1>2 DEF Continue, ExitCritical, MovePendingReady, ReplayTick, FinishResumeAll,
     DelayCurrent, DelayCurrentUntil, ResetUnblockTime, CreateYield, IdleReap,
     TakeNotification, FinishNotifyWait, Yield, timeVars, At
<1>3. ASSUME NEW t \in Task, Call(t)
      PROVE  UNCHANGED xTickCount
  BY <1>3 DEF Call, UserEnterCritical, UserExitCritical, vTaskSuspendAll, UserResumeAll,
     vTaskDelay, vTaskDelayUntil, vTaskSuspend, vTaskResume, vTaskPrioritySet, xTaskCreate,
     vTaskDelete, IdleCheckTermination, ulTaskNotifyTake, xTaskNotifyWait,
     xTaskGenericNotify, xTaskNotifyStateClear, timeVars
<1>. QED BY <1>1, <1>2, <1>3 DEF Next

\* Between two ticks the scheduler lets a task stay that is in the event list of an object.
LEMMA BlockedStay ==
    ASSUME IInv, RInv, Next, NEW x \in Task, x \notin Suspendable \union Deletable,
           eventList[x] \in ObjectLists, UNCHANGED xTickCount
    PROVE  /\ stateList'[x] = stateList[x] /\ eventList'[x] = eventList[x]
           /\ xItemValue'[x] = xItemValue[x]
<1>1. /\ stateList \in [Task -> StateList] /\ eventList \in [Task -> EventList]
      /\ pxCurrentTCB \in Task
  BY ListTypes
<1>2. /\ stateList[x] \in Blocked /\ ucNotifyState[x] # "WAITING"
      /\ eventList[x] # "none" /\ eventList[x] # "pending"
  BY TasksAssumption DEF RInv, OnObjects
<1>3. xItemValue \in [Task -> Tick] /\ xTickCount \in Tick
  BY DEF IInv, TypeOK, ListTypeOK, TimeTypeOK
<1>4. ~xTaskIncrementTick
  BY <1>3, TasksAssumption DEF xTaskIncrementTick, Wrap, Tick
<1>. DEFINE Stays == /\ stateList'[x] = stateList[x] /\ eventList'[x] = eventList[x]
                     /\ xItemValue'[x] = xItemValue[x]
<1>5. ASSUME Interrupt PROVE Stays
  <2>1. CASE TimerTick \/ TimerTickPended
    BY <1>4, <2>1 DEF TimerTick, TimerTickPended, listVars
  <2>2. ASSUME NEW y \in Task, NEW action, NotifyFromISR(y, action) PROVE Stays
    <3>1. UNCHANGED xItemValue
      BY <2>2 DEF NotifyFromISR
    <3>2. ucNotifyState[y] = "WAITING" => y # x
      BY <1>2
    <3>3. /\ stateList' \in {stateList, [stateList EXCEPT ![y] = "ready"]}
          /\ eventList' \in {eventList, [eventList EXCEPT ![y] = "pending"]}
          /\ ucNotifyState[y] # "WAITING" => UNCHANGED <<stateList, eventList>>
      BY <2>2 DEF NotifyFromISR
    <3>. QED BY <1>1, <3>1, <3>2, <3>3
  <2>3. ASSUME NEW y \in Task, xTaskResumeFromISR(y) PROVE Stays
    <3>1. eventList[y] = "none" /\ UNCHANGED xItemValue
      BY <2>3 DEF xTaskResumeFromISR, prvTaskIsTaskSuspended
    <3>2. /\ stateList' \in {stateList, [stateList EXCEPT ![y] = "ready"]}
          /\ eventList' \in {eventList, [eventList EXCEPT ![y] = "pending"]}
      BY <2>3 DEF xTaskResumeFromISR
    <3>. QED BY <1>1, <1>2, <3>1, <3>2
  <2>. QED BY <1>5, <2>1, <2>2, <2>3, TasksAssumption DEF Interrupt
<1>6. ASSUME NEW t \in Task, Continue(t) \/ Yield(t) PROVE Stays
  <2>1. CASE MovePendingReady(t)
    <3>1. x \notin PendingReady
      BY <1>2 DEF PendingReady
    <3>. QED BY <1>1, <2>1, <3>1 DEF MovePendingReady
  <2>2. CASE DelayCurrent(t) \/ DelayCurrentUntil(t)
    <3>1. pxCurrentTCB = t /\ pc[t] \in {"delay", "delayUntil"} /\ UNCHANGED eventList
      BY <2>2 DEF DelayCurrent, DelayCurrentUntil, At
    <3>2. stateList[t] = "ready" /\ t # x
      BY <1>2, <3>1, ReadyThere, ApartFromObjects DEF RInv, Blocked
    <3>3. /\ stateList'[x] = stateList[x] /\ xItemValue'[x] = xItemValue[x]
      BY <1>1, <1>3, <2>2, <3>2 DEF DelayCurrent, DelayCurrentUntil,
         prvAddCurrentTaskToDelayedList
    <3>. QED BY <3>1, <3>3
  <2>3. CASE IdleReap(t)
    BY <1>1, <1>2, <2>3 DEF IdleReap, In, Blocked
  <2>. QED BY <1>4, <1>6, <2>1, <2>2, <2>3 DEF Continue, ExitCritical, ReplayTick,
          FinishResumeAll, ResetUnblockTime, CreateYield, TakeNotification, FinishNotifyWait,
          Yield, listVars
<1>7. ASSUME NEW t \in Task, Call(t) PROVE Stays
  <2>0. ASSUME Calls(t) PROVE t # x
    <3>1. stateList[t] = "ready"
      BY <2>0, ReadyThere, ApartFromObjects DEF Calls, At, RInv
    <3>. QED BY <1>2, <3>1 DEF Blocked
  <2>1. ASSUME NEW y \in Suspendable, vTaskSuspend(t, y) \/ vTaskResume(t, y) PROVE Stays
    <3>1. y # x /\ UNCHANGED xItemValue
      BY <2>1 DEF vTaskSuspend, vTaskResume
    <3>2. /\ stateList' \in {stateList, [stateList EXCEPT ![y] = "ready"],
                             [stateList EXCEPT ![y] = "suspended"]}
          /\ eventList' \in {eventList, [eventList EXCEPT ![y] = "none"]}
      BY <2>1 DEF vTaskSuspend, vTaskResume
    <3>. QED BY <1>1, <3>1, <3>2
  <2>2. ASSUME NEW y, xTaskCreate(t, y) PROVE Stays
    BY <1>1, <1>2, <2>2 DEF xTaskCreate, Blocked
  <2>3. ASSUME NEW y \in Deletable, vTaskDelete(t, y) PROVE Stays
    BY <1>1, <2>3 DEF vTaskDelete
  <2>4. ASSUME NEW n, ulTaskNotifyTake(t, n) \/ xTaskNotifyWait(t, n) PROVE Stays
    <3>1. t # x /\ UNCHANGED eventList
      BY <2>0, <2>4 DEF ulTaskNotifyTake, xTaskNotifyWait
    <3>2. stateList'[x] = stateList[x] /\ xItemValue'[x] = xItemValue[x]
      BY <1>1, <1>3, <2>4, <3>1 DEF ulTaskNotifyTake, xTaskNotifyWait,
         prvAddCurrentTaskToDelayedList
    <3>. QED BY <3>1, <3>2
  <2>5. ASSUME NEW y, NEW action, xTaskGenericNotify(t, y, action) PROVE Stays
    <3>1. /\ UNCHANGED <<eventList, xItemValue>>
          /\ \/ stateList' = stateList
             \/ stateList' = [stateList EXCEPT ![y] = "ready"] /\ ucNotifyState[y] = "WAITING"
      BY <2>5 DEF xTaskGenericNotify
    <3>. QED BY <1>1, <1>2, <3>1
  <2>. QED BY <1>7, <2>1, <2>2, <2>3, <2>4, <2>5
          DEF Call, UserEnterCritical, UserExitCritical, vTaskSuspendAll, UserResumeAll,
              vTaskDelay, vTaskDelayUntil, vTaskPrioritySet, IdleCheckTermination,
              xTaskNotifyStateClear, listVars
<1>. QED BY <1>5, <1>6, <1>7 DEF Next

\* A tick takes one from the ticks that a task in the event list waits for, and wakes it at the
\* last.
LEMMA TickWaits ==
    ASSUME IInv, DelayedAreNotDue, xTaskIncrementTick, NEW x \in Task, eventList[x] = Group
    PROVE  /\ stateList[x] = "suspended" =>
                  stateList'[x] = "suspended" /\ eventList'[x] = Group
           /\ stateList[x] \in {"delayed", "overflow"} =>
                  /\ Remaining(x) > 0
                  /\ \/ /\ eventList'[x] = Group /\ stateList'[x] \in {"delayed", "overflow"}
                        /\ Remaining(x)' = Remaining(x) - 1
                     \/ eventList'[x] # Group /\ Remaining(x) = 1
<1>. DEFINE now == Wrap(xTickCount + 1)
            lists == IF now = 0 THEN [t \in Task |-> Switched(stateList[t])] ELSE stateList
<1>1. /\ stateList \in [Task -> StateList] /\ eventList \in [Task -> EventList]
      /\ xItemValue \in [Task -> Tick] /\ xTickCount \in Tick
  BY DEF IInv, TypeOK, ListTypeOK, TimeTypeOK
<1>2. PICK woken \in SUBSET {t \in Task : lists[t] = "delayed"} :
          /\ xTickCount' = now /\ UNCHANGED xItemValue
          /\ stateList' = [t \in Task |-> IF t \in woken THEN "ready" ELSE lists[t]]
          /\ eventList' = [t \in Task |-> IF t \in woken THEN "none" ELSE eventList[t]]
  BY DEF xTaskIncrementTick
<1>3. now = IF xTickCount = TickMod - 1 THEN 0 ELSE xTickCount + 1
  BY <1>1, TasksAssumption DEF Wrap, Tick
<1>4. lists[x] = IF now = 0 THEN Switched(stateList[x]) ELSE stateList[x]
  BY <1>1
<1>5. /\ x \in woken => eventList'[x] = "none" /\ stateList'[x] = "ready"
                        /\ lists[x] = "delayed"
      /\ x \notin woken => eventList'[x] = Group /\ stateList'[x] = lists[x]
  BY <1>1, <1>2
<1>6. CASE stateList[x] = "suspended"
  <2>1. lists[x] = "suspended"
    BY <1>4, <1>6 DEF Switched
  <2>. QED BY <1>5, <1>6, <2>1
<1>7. CASE stateList[x] = "delayed"
  <2>1. xItemValue[x] > xTickCount
    BY <1>7 DEF DelayedAreNotDue
  <2>2. now = xTickCount + 1
    BY <1>1, <1>3, <2>1, TasksAssumption DEF Tick
  <2>3. lists[x] = "delayed"
    BY <1>1, <1>4, <1>7, <2>2, TasksAssumption DEF Tick
  <2>4. Remaining(x) = xItemValue[x] - xTickCount /\ Remaining(x) > 0
    BY <1>1, <1>7, <2>1, TasksAssumption DEF Remaining, Tick
  <2>5. CASE x \in woken
    <3>1. xItemValue[x] = now
      BY <1>2, <1>5, <1>7, <2>5, TickKeeps
    <3>. QED BY <1>1, <1>5, <1>7, <2>2, <2>4, <2>5, <3>1, GroupLabels DEF Tick
  <2>6. CASE x \notin woken
    <3>1. eventList'[x] = Group /\ stateList'[x] = "delayed"
      BY <1>5, <2>3, <2>6
    <3>2. Remaining(x)' = xItemValue[x] - now
      BY <1>1, <1>2, <3>1, <2>2, TasksAssumption DEF Remaining, Tick
    <3>. QED BY <1>1, <1>7, <2>2, <2>4, <3>1, <3>2 DEF Tick
  <2>. QED BY <2>5, <2>6
<1>8. CASE stateList[x] = "overflow"
  <2>1. xItemValue[x] < xTickCount
    BY <1>8 DEF DelayedAreNotDue
  <2>2. /\ Remaining(x) = xItemValue[x] - xTickCount + TickMod /\ Remaining(x) > 0
    BY <1>1, <1>8, TasksAssumption DEF Remaining, Tick
  <2>3. CASE x \in woken
    <3>1. xItemValue[x] = now
      BY <1>2, <1>5, <1>8, <2>3, TickKeeps
    <3>2. now = 0
      BY <1>4, <1>5, <1>8, <2>3
    <3>3. xTickCount = TickMod - 1
      BY <1>1, <1>3, <3>2 DEF Tick
    <3>4. Remaining(x) = 1
      BY <2>2, <3>1, <3>2, <3>3, TasksAssumption
    <3>. QED BY <1>5, <1>8, <2>2, <2>3, <3>4, GroupLabels
  <2>4. CASE x \notin woken
    <3>1. eventList'[x] = Group /\ stateList'[x] = lists[x]
      BY <1>5, <2>4
    <3>2. CASE now = 0
      <4>1. stateList'[x] = "delayed" /\ xTickCount = TickMod - 1
        BY <1>1, <1>3, <1>4, <1>8, <3>1, <3>2 DEF Switched, Tick
      <4>2. Remaining(x)' = xItemValue[x]
        BY <1>1, <1>2, <3>2, <4>1, TasksAssumption DEF Remaining, Tick
      <4>3. Remaining(x)' = Remaining(x) - 1
        BY <1>1, <2>2, <4>1, <4>2, TasksAssumption DEF Tick
      <4>. QED BY <1>8, <2>2, <3>1, <4>1, <4>3
    <3>3. CASE now # 0
      <4>1. stateList'[x] = "overflow" /\ now = xTickCount + 1
        BY <1>3, <1>4, <1>8, <3>1, <3>3
      <4>2. Remaining(x)' = xItemValue[x] - now + TickMod
        BY <1>1, <1>2, <4>1 DEF Remaining
      <4>3. Remaining(x)' = Remaining(x) - 1
        BY <1>1, <2>2, <4>1, <4>2, TasksAssumption DEF Tick
      <4>. QED BY <1>8, <2>2, <3>1, <4>1, <4>3
    <3>. QED BY <3>2, <3>3
  <2>. QED BY <2>3, <2>4
<1>. QED BY <1>6, <1>7, <1>8

LEMMA SchedulerKeepsTime ==
    ASSUME WaitersAreLeftAlone, GInv, TimeInv, SchedulerStep
    PROVE  TimeInv'
<1>1. IInv /\ RInv /\ DelayedAreNotDue /\ Next /\ KeepGroup
  BY SchedulerStepIsNext DEF GInv, KInv, PInv
<1>2. /\ call' = call /\ eventValue' = eventValue
      /\ \A x \in Task : due'[x] = IF xTickCount' # xTickCount /\ due[x] > 0
                                   THEN due[x] - 1 ELSE due[x]
  BY <1>1 DEF KeepGroup
<1>3. \A x \in Task : InWindow(x)' = InWindow(x)
  BY SchedulerKeepsCalls
<1>4. \A x \in Task : due[x] \in Tick
  BY DEF GInv, GroupTypes
<1>5. ASSUME NEW x \in Task PROVE CallGiven(x)'
  BY <1>2 DEF TimeInv, CallGiven
<1>6. ASSUME NEW x \in Task, pc'[x] = "testBits", call[x].op = "wait"
      PROVE  due'[x] = call[x].wait
  <2>1. InWindow(x)
    BY <1>3, <1>6, GroupLabels DEF InWindow
  <2>2. Window(x) /\ InTest(x)
    BY <1>6, <2>1 DEF GInv, GroupCalls, Window, InSet, InTest, InSyncSet, InSyncTest
  <2>3. UNCHANGED xTickCount
    BY <1>1, <2>2, TimeMoves, ListTypes DEF Window, InTest
  <2>. QED BY <1>2, <1>6, <2>2, <2>3 DEF TimeInv, Fresh, InTest
<1>7. ASSUME NEW x \in Task, call[x].op \in {"wait", "sync"}, ~InWindow(x),
             ~eventValue[x].released
      PROVE  \/ eventList'[x] = Group /\ SleepsFor(x, due[x])'
             \/ eventList'[x] # Group /\ due'[x] = 0 /\ call[x].wait # portMAX_DELAY
  <2>1. x \notin Suspendable \union Deletable
    BY <1>7 DEF TimeInv, CallGiven, WaitersAreLeftAlone
  <2>2. CASE eventList[x] # Group /\ due[x] = 0 /\ call[x].wait # portMAX_DELAY
    <3>1. eventList'[x] # Group
      BY <1>1, <2>2, NobodyEnters, GroupLabels
    <3>. QED BY <1>2, <2>2, <3>1
  <2>3. CASE eventList[x] = Group /\ SleepsFor(x, due[x])
    <3>1. CASE UNCHANGED xTickCount
      <4>1. /\ stateList'[x] = stateList[x] /\ eventList'[x] = eventList[x]
            /\ xItemValue'[x] = xItemValue[x]
        BY <1>1, <2>1, <2>3, <3>1, BlockedStay, GroupLabels
      <4>2. Remaining(x)' = Remaining(x) /\ due'[x] = due[x]
        BY <1>2, <3>1, <4>1 DEF Remaining
      <4>3. SleepsFor(x, due[x])'
        BY <1>2, <2>3, <4>1, <4>2 DEF SleepsFor
      <4>. QED BY <2>3, <4>1, <4>3
    <3>2. CASE xTickCount' # xTickCount
      <4>1. xTaskIncrementTick
        BY <1>1, <3>2, TimeMoves
      <4>2. CASE stateList[x] = "suspended" /\ call[x].wait = portMAX_DELAY
        <5>1. stateList'[x] = "suspended" /\ eventList'[x] = Group
          BY <1>1, <2>3, <4>1, <4>2, TickWaits
        <5>. QED BY <1>2, <4>2, <5>1 DEF SleepsFor
      <4>3. CASE /\ stateList[x] \in {"delayed", "overflow"} /\ due[x] = Remaining(x)
                 /\ call[x].wait # portMAX_DELAY
        <5>1. /\ Remaining(x) > 0
              /\ \/ /\ eventList'[x] = Group /\ stateList'[x] \in {"delayed", "overflow"}
                    /\ Remaining(x)' = Remaining(x) - 1
                 \/ eventList'[x] # Group /\ Remaining(x) = 1
          BY <1>1, <2>3, <4>1, <4>3, TickWaits
        <5>2. due'[x] = due[x] - 1
          BY <1>2, <3>2, <4>3, <5>1
        <5>3. due[x] = 1 => due'[x] = 0
          BY <5>2
        <5>. QED BY <1>2, <4>3, <5>1, <5>2, <5>3 DEF SleepsFor
      <4>. QED BY <2>3, <4>2, <4>3 DEF SleepsFor
    <3>. QED BY <3>1, <3>2
  <2>. QED BY <1>7, <2>2, <2>3 DEF TimeInv, WaitsItsTicks
<1>8. ASSUME NEW x \in Task PROVE Fresh(x)' /\ WaitsItsTicks(x)'
  BY <1>2, <1>3, <1>6, <1>7 DEF Fresh, WaitsItsTicks
<1>. QED BY <1>5, <1>8 DEF TimeInv

\* What a step of task t on the group leaves alone.
LeavesOthers(t) ==
    /\ t = pxCurrentTCB
    /\ UNCHANGED xTickCount
    /\ \A x \in Task \ {t} :
           /\ pc'[x] = pc[x] /\ after'[x] = after[x] /\ call'[x] = call[x] /\ due'[x] = due[x]
           /\ \/ /\ eventList'[x] = eventList[x] /\ eventValue'[x] = eventValue[x]
                 /\ stateList'[x] = stateList[x] /\ xItemValue'[x] = xItemValue[x]
              \/ x \in Waiting /\ eventValue'[x].released

LEMMA GroupLeavesOthers ==
    ASSUME GInv, NEW t \in Task, GroupCall(t) \/ GroupContinue(t)
    PROVE  LeavesOthers(t)
<1>1. /\ pc \in [Task -> Label] /\ after \in [Task -> Continuation]
      /\ call \in [Task -> CallType] /\ due \in [Task -> Tick]
      /\ stateList \in [Task -> StateList] /\ eventList \in [Task -> EventList]
      /\ eventValue \in [Task -> ValueType]
  BY ListTypes DEF GInv, KInv, PInv, GroupTypes
<1>2. xItemValue \in [Task -> Tick]
  BY DEF GInv, KInv, PInv, IInv, TypeOK, ListTypeOK
<1>3. ASSUME NEW args, NEW n, NEW label, Begin(t, args, n, label) PROVE LeavesOthers(t)
  BY <1>1, <1>2, <1>3 DEF Begin, Calls, At, Goto, timeVars, listVars, LeavesOthers
<1>4. CASE GroupCall(t)
  <2>1. ASSUME NEW bits, xEventGroupClearBits(t, bits) PROVE LeavesOthers(t)
    BY <1>1, <1>2, <2>1
    DEF xEventGroupClearBits, Calls, At, timeVars, listVars, controlVars, LeavesOthers
  <2>. QED BY <1>3, <1>4, <2>1
          DEF GroupCall, xEventGroupSetBits, xEventGroupWaitBits, xEventGroupSync
<1>5. ASSUME NEW bits, SetBits(t, bits), NEW next, ThenResume(t, next),
             \A x \in Task \ {t} : call'[x] = call[x], t = pxCurrentTCB,
             UNCHANGED <<timeVars, xItemValue, due>>
      PROVE  LeavesOthers(t)
  <2>. DEFINE now == uxEventBits \union bits
              R == {u \in Waiting : Met(call[u], now)}
  <2>1. Release(t, R, now) /\ R \subseteq Waiting
    BY <1>5 DEF SetBits
  <2>. HIDE DEF R, now
  <2>2. ASSUME NEW x \in Task \ {t}
        PROVE  \/ /\ eventList'[x] = eventList[x] /\ eventValue'[x] = eventValue[x]
                  /\ stateList'[x] = stateList[x]
               \/ x \in Waiting /\ eventValue'[x].released
    BY <2>1 DEF Release
  <2>. QED BY <1>1, <1>2, <1>5, <2>2 DEF ThenResume, Goto, timeVars, LeavesOthers
<1>6. CASE SetBitsSuspended(t)
  <2>1. /\ SetBits(t, call[t].bits) /\ ThenResume(t, "run") /\ t = pxCurrentTCB
        /\ call' = [call EXCEPT ![t] = NoCall] /\ UNCHANGED <<timeVars, xItemValue, due>>
    BY <1>6 DEF SetBitsSuspended, At
  <2>. QED BY <1>1, <1>5, <2>1
<1>7. CASE SyncSet(t)
  <2>1. /\ SetBits(t, {SyncBit[t]}) /\ ThenResume(t, "syncTest") /\ t = pxCurrentTCB
        /\ \A x \in Task \ {t} : call'[x] = call[x]
        /\ UNCHANGED <<timeVars, xItemValue, due>>
    BY <1>1, <1>7 DEF SyncSet, At
  <2>. QED BY <1>5, <2>1
<1>8. CASE TestBits(t) \/ SyncTest(t)
  <2>1. /\ t = pxCurrentTCB /\ UNCHANGED xTickCount
        /\ \E next : ThenResume(t, next)
        /\ \/ \E bits : ReturnBits(t, bits) /\ NotPlaced
           \/ \E n : vTaskPlaceOnUnorderedEventList(t, n) /\ UNCHANGED <<call, due>>
    BY <1>8 DEF TestBits, SyncTest, At
  <2>2. CASE \E bits : ReturnBits(t, bits) /\ NotPlaced
    BY <1>1, <1>2, <2>1, <2>2
    DEF ReturnBits, NotPlaced, ThenResume, Goto, listVars, LeavesOthers
  <2>3. CASE \E n : vTaskPlaceOnUnorderedEventList(t, n) /\ UNCHANGED <<call, due>>
    <3>1. \A x \in Task \ {t} : /\ eventList'[x] = eventList[x] /\ eventValue'[x] = eventValue[x]
                                /\ stateList'[x] = stateList[x]
                                /\ xItemValue'[x] = xItemValue[x]
      BY <1>1, <1>2, <2>3
      DEF vTaskPlaceOnUnorderedEventList, prvAddCurrentTaskToDelayedList
    <3>. QED BY <1>1, <2>1, <2>3, <3>1 DEF ThenResume, Goto, LeavesOthers
  <2>. QED BY <2>1, <2>2, <2>3
<1>9. CASE FinishWait(t)
  <2>1. /\ t = pxCurrentTCB /\ UNCHANGED <<timeVars, listVars, controlVars>>
        /\ eventValue' = [eventValue EXCEPT ![t] = NotReleased]
        /\ \E bits : ReturnBits(t, bits)
    BY <1>9 DEF FinishWait, At
  <2>. QED BY <1>1, <1>2, <2>1
          DEF ReturnBits, timeVars, listVars, controlVars, LeavesOthers
<1>. QED BY <1>4, <1>6, <1>7, <1>8, <1>9 DEF GroupContinue

LEMMA OthersKeepTheirTime ==
    ASSUME TimeInv, NEW t \in Task, LeavesOthers(t), NEW x \in Task, x # t
    PROVE  CallGiven(x)' /\ Fresh(x)' /\ WaitsItsTicks(x)'
<1>1. /\ pc'[x] = pc[x] /\ after'[x] = after[x] /\ call'[x] = call[x] /\ due'[x] = due[x]
      /\ UNCHANGED xTickCount
      /\ \/ /\ eventList'[x] = eventList[x] /\ eventValue'[x] = eventValue[x]
            /\ stateList'[x] = stateList[x] /\ xItemValue'[x] = xItemValue[x]
         \/ eventValue'[x].released
  BY DEF LeavesOthers
<1>2. CallGiven(x)' /\ Fresh(x)' /\ InWindow(x)' = InWindow(x)
  BY <1>1 DEF TimeInv, CallGiven, Fresh, InWindow
<1>3. CASE eventValue'[x].released
  BY <1>2, <1>3 DEF WaitsItsTicks
<1>4. CASE /\ eventList'[x] = eventList[x] /\ eventValue'[x] = eventValue[x]
           /\ stateList'[x] = stateList[x] /\ xItemValue'[x] = xItemValue[x]
  <2>1. Remaining(x)' = Remaining(x)
    BY <1>1, <1>4 DEF Remaining
  <2>2. SleepsFor(x, due[x])' = SleepsFor(x, due[x])
    BY <1>1, <1>4, <2>1 DEF SleepsFor
  <2>. QED BY <1>1, <1>2, <1>4, <2>2 DEF TimeInv, WaitsItsTicks
<1>. QED BY <1>1, <1>2, <1>3, <1>4

\* vTaskPlaceOnUnorderedEventList with n ticks to wait.
LEMMA PlacedFor ==
    ASSUME GInv, NEW t \in Task, NEW n \in Tick \ {0}, vTaskPlaceOnUnorderedEventList(t, n),
           UNCHANGED xTickCount
    PROVE  /\ eventList'[t] = Group
           /\ IF n = portMAX_DELAY THEN stateList'[t] = "suspended"
              ELSE stateList'[t] \in {"delayed", "overflow"} /\ Remaining(t)' = n
<1>1. /\ stateList \in [Task -> StateList] /\ eventList \in [Task -> EventList]
      /\ xItemValue \in [Task -> Tick] /\ xTickCount \in Tick
  BY DEF GInv, KInv, PInv, IInv, TypeOK, ListTypeOK, TimeTypeOK
<1>2. /\ eventList'[t] = Group /\ prvAddCurrentTaskToDelayedList(t, n, TRUE)
  BY <1>1 DEF vTaskPlaceOnUnorderedEventList
<1>. DEFINE w == Wrap(xTickCount + n)
<1>3. w = IF xTickCount + n < TickMod THEN xTickCount + n ELSE xTickCount + n - TickMod
  BY <1>1, TasksAssumption DEF Wrap, Tick
<1>4. CASE n = portMAX_DELAY
  BY <1>1, <1>2, <1>4 DEF prvAddCurrentTaskToDelayedList
<1>5. CASE n # portMAX_DELAY
  <2>1. /\ xItemValue'[t] = w
        /\ \/ w < xTickCount /\ stateList'[t] = "overflow"
           \/ w >= xTickCount /\ stateList'[t] = "delayed"
    BY <1>1, <1>2, <1>5 DEF prvAddCurrentTaskToDelayedList
  <2>2. Remaining(t)' = n
    BY <1>1, <1>3, <2>1, TasksAssumption DEF Remaining, Tick
  <2>. QED BY <1>2, <1>5, <2>1, <2>2
<1>. QED BY <1>4, <1>5

LEMMA CallKeepsTime ==
    ASSUME GInv, TimeInv, NEW t \in Task, GroupCall(t)
    PROVE  TimeInv'
<1>1. LeavesOthers(t) /\ call \in [Task -> CallType] /\ due \in [Task -> Tick]
      /\ pc \in [Task -> Label]
  BY GroupLeavesOthers, ListTypes DEF GInv, GroupTypes, KInv, PInv
<1>. DEFINE Goal == CallGiven(t)' /\ Fresh(t)' /\ WaitsItsTicks(t)'
<1>2. ASSUME NEW args, NEW n, NEW label, Begin(t, args, n, label), label \in ObjectLabels
      PROVE  call'[t] = args /\ due'[t] = n /\ pc'[t] = label /\ InWindow(t)'
  BY <1>1, <1>2 DEF Begin, Goto, InWindow
<1>3. ASSUME NEW bits \in BitsToSet, xEventGroupSetBits(t, bits) PROVE Goal
  <2>1. call'[t] = [op |-> "set", bits |-> bits] /\ InWindow(t)'
    BY <1>2, <1>3, GroupLabels DEF xEventGroupSetBits
  <2>2. call'[t].op = "set" /\ call'[t].bits = bits
    BY <2>1
  <2>. QED BY <2>1, <2>2 DEF CallGiven, Fresh, WaitsItsTicks
<1>4. ASSUME NEW bits \in BitsToClear, xEventGroupClearBits(t, bits) PROVE Goal
  <2>1. call'[t] = NoCall
    BY <1>4 DEF xEventGroupClearBits
  <2>. QED BY <2>1 DEF CallGiven, Fresh, WaitsItsTicks, NoCall
<1>5. ASSUME t \in WaitingTasks, NEW bits \in BitsToWaitFor, NEW n \in BitWaits,
             NEW clear \in BOOLEAN, NEW all \in BOOLEAN,
             xEventGroupWaitBits(t, bits, clear, all, n)
      PROVE  Goal
  <2>1. /\ call'[t] = [op |-> "wait", bits |-> bits, clear |-> clear, all |-> all, wait |-> n]
        /\ due'[t] = n /\ InWindow(t)'
    BY <1>2, <1>5, GroupLabels DEF xEventGroupWaitBits
  <2>2. call'[t].op = "wait" /\ call'[t].bits = bits /\ call'[t].wait = n
    BY <2>1
  <2>. QED BY <1>5, <2>1, <2>2 DEF CallGiven, Fresh, WaitsItsTicks
<1>6. ASSUME xEventGroupSync(t) PROVE Goal
  <2>1. /\ call'[t] = [op |-> "sync", bits |-> SyncBits, clear |-> TRUE, all |-> TRUE,
                       wait |-> portMAX_DELAY, set |-> FALSE, met |-> FALSE]
        /\ t \in Member /\ InWindow(t)'
    BY <1>2, <1>6, GroupLabels DEF xEventGroupSync
  <2>2. call'[t].op = "sync"
    BY <2>1
  <2>. QED BY <2>1, <2>2 DEF CallGiven, Fresh, WaitsItsTicks
<1>7. Goal
  BY <1>3, <1>4, <1>5, <1>6 DEF GroupCall
<1>. QED BY <1>1, <1>7, OthersKeepTheirTime DEF TimeInv

LEMMA ContinueKeepsTime ==
    ASSUME GInv, GInv', TimeInv, NEW t \in Task, GroupContinue(t)
    PROVE  TimeInv'
<1>1. LeavesOthers(t) /\ call \in [Task -> CallType] /\ due \in [Task -> Tick]
      /\ pc \in [Task -> Label] /\ after \in [Task -> Continuation]
  BY GroupLeavesOthers, ListTypes DEF GInv, GroupTypes, KInv, PInv
<1>. DEFINE Goal == CallGiven(t)' /\ Fresh(t)' /\ WaitsItsTicks(t)'
<1>2. ASSUME call'[t] = NoCall PROVE Goal
  BY <1>2 DEF CallGiven, Fresh, WaitsItsTicks, NoCall
<1>. HIDE DEF Goal
<1>3. ASSUME NEW bits, ReturnBits(t, bits) PROVE Goal
  <2>1. call'[t] = NoCall
    BY <1>1, <1>3 DEF ReturnBits
  <2>. QED BY <1>2, <2>1
<1>4. ASSUME SetBitsSuspended(t) PROVE Goal
  <2>1. call'[t] = NoCall
    BY <1>1, <1>4 DEF SetBitsSuspended
  <2>. QED BY <1>2, <2>1
<1>5. ASSUME FinishWait(t) PROVE Goal
  <2>1. PICK bits : ReturnBits(t, bits)
    BY <1>5 DEF FinishWait
  <2>. QED BY <1>3, <2>1
<1>6. ASSUME SyncSet(t) PROVE Goal
  <2>1. t \in Member /\ call[t].op = "sync"
    BY <1>6, GroupLabels DEF SyncSet, At, GInv, GroupCalls, InWindow, Window, InSet, InTest,
       InSyncSet, InSyncTest
  <2>2. call'[t].op = "sync"
    <3>1. call[t] \in SyncCall
      BY <1>1, <2>1, CallTypes
    <3>. QED BY <1>1, <1>6, <2>1, <3>1 DEF SyncSet, SyncCall
  <2>3. InWindow(t)'
    BY <1>1, <1>6, GroupLabels DEF SyncSet, ThenResume, InWindow
  <2>4. CallGiven(t)' /\ Fresh(t)' /\ WaitsItsTicks(t)'
    BY <2>1, <2>2, <2>3 DEF CallGiven, Fresh, WaitsItsTicks
  <2>. QED BY <2>4 DEF Goal
<1>7. ASSUME NEW n \in Tick \ {0}, vTaskPlaceOnUnorderedEventList(t, n), UNCHANGED <<call, due>>,
             call[t].wait = n, n = portMAX_DELAY \/ due[t] = n, ThenResume(t, "yieldUnless")
      PROVE  Goal
  <2>1. /\ eventList'[t] = Group
        /\ IF n = portMAX_DELAY THEN stateList'[t] = "suspended"
           ELSE stateList'[t] \in {"delayed", "overflow"} /\ Remaining(t)' = n
    BY <1>1, <1>7, PlacedFor DEF LeavesOthers
  <2>2. pc'[t] = "resumeAll"
    BY <1>1, <1>7 DEF ThenResume, Goto
  <2>3. SleepsFor(t, due[t])'
    BY <1>7, <2>1 DEF SleepsFor
  <2>4. CallGiven(t)'
    BY <1>7 DEF TimeInv, CallGiven
  <2>5. Fresh(t)' /\ WaitsItsTicks(t)'
    BY <2>1, <2>2, <2>3, GroupLabels DEF Fresh, WaitsItsTicks
  <2>. QED BY <2>4, <2>5 DEF Goal
<1>8. ASSUME TestBits(t) PROVE Goal
  <2>1. pc[t] = "testBits" /\ call[t].op = "wait"
    BY <1>8, GroupLabels DEF TestBits, At, GInv, GroupCalls, InWindow, Window, InSet, InTest,
       InSyncSet, InSyncTest
  <2>2. due[t] = call[t].wait /\ due[t] \in Tick
    BY <1>1, <2>1 DEF TimeInv, Fresh
  <2>3. \/ \E bits : ReturnBits(t, bits)
        \/ /\ call[t].wait # 0 /\ vTaskPlaceOnUnorderedEventList(t, call[t].wait)
           /\ ThenResume(t, "yieldUnless") /\ UNCHANGED <<call, due>>
    BY <1>8 DEF TestBits
  <2>4. CASE \E bits : ReturnBits(t, bits)
    BY <1>3, <2>4
  <2>5. CASE /\ call[t].wait # 0 /\ vTaskPlaceOnUnorderedEventList(t, call[t].wait)
             /\ ThenResume(t, "yieldUnless") /\ UNCHANGED <<call, due>>
    <3>1. PICK n \in Tick \ {0} : n = call[t].wait
      BY <2>2, <2>5
    <3>. QED BY <1>7, <2>2, <2>5, <3>1
  <2>. QED BY <2>3, <2>4, <2>5
<1>9. ASSUME SyncTest(t) PROVE Goal
  <2>1. pc[t] = "syncTest" /\ call[t].op = "sync"
    BY <1>9, GroupLabels DEF SyncTest, At, GInv, GroupCalls, InWindow, Window, InSet, InTest,
       InSyncSet, InSyncTest
  <2>2. call[t].wait = portMAX_DELAY /\ portMAX_DELAY \in Tick \ {0}
    <3>1. call[t] \in SyncCall
      BY <1>1, <2>1, CallTypes
    <3>2. portMAX_DELAY \in Tick \ {0}
      BY TasksAssumption DEF portMAX_DELAY, Tick
    <3>. QED BY <3>1, <3>2 DEF SyncCall
  <2>3. \/ \E bits : ReturnBits(t, bits)
        \/ /\ vTaskPlaceOnUnorderedEventList(t, call[t].wait)
           /\ ThenResume(t, "yieldUnless") /\ UNCHANGED <<call, due>>
    BY <1>9 DEF SyncTest
  <2>4. CASE \E bits : ReturnBits(t, bits)
    BY <1>3, <2>4
  <2>5. CASE /\ vTaskPlaceOnUnorderedEventList(t, call[t].wait)
             /\ ThenResume(t, "yieldUnless") /\ UNCHANGED <<call, due>>
    <3>1. PICK n \in Tick \ {0} : n = call[t].wait /\ n = portMAX_DELAY
      BY <2>2
    <3>. QED BY <1>7, <2>5, <3>1
  <2>. QED BY <2>3, <2>4, <2>5
<1>10. Goal
  BY <1>4, <1>5, <1>6, <1>8, <1>9 DEF GroupContinue
<1>. QED BY <1>1, <1>10, OthersKeepTheirTime DEF TimeInv, Goal

LEMMA NextKeepsTime ==
    ASSUME WaitersAreLeftAlone, GInv, GInv', TimeInv, [GroupNext]_allVars
    PROVE  TimeInv'
<1>1. CASE UNCHANGED allVars
  <2>1. UNCHANGED <<pc, after, call, due, eventList, eventValue, stateList, xItemValue, xTickCount>>
    BY <1>1 DEF allVars, vars, groupVars, controlVars, listVars, timeVars
  <2>. QED BY <2>1 DEF TimeInv, CallGiven, Fresh, WaitsItsTicks, SleepsFor, Remaining, InWindow
<1>2. CASE SchedulerStep
  BY <1>2, SchedulerKeepsTime
<1>3. ASSUME NEW t \in Task, GroupCall(t) \/ GroupContinue(t) PROVE TimeInv'
  BY <1>3, CallKeepsTime, ContinueKeepsTime
<1>. QED BY <1>1, <1>2, <1>3 DEF GroupNext

LEMMA AlwaysTimeInv ==
    ASSUME WaitersAreLeftAlone
    PROVE  GroupSpec => []TimeInv
<1>1. GroupInit => TimeInv
  <2>. SUFFICES ASSUME GroupInit, NEW t \in Task
                PROVE  CallGiven(t) /\ Fresh(t) /\ WaitsItsTicks(t)
    BY DEF TimeInv
  <2>. QED BY DEF GroupInit, CallGiven, Fresh, WaitsItsTicks, NoCall
<1>2. GInv /\ GInv' /\ TimeInv /\ [GroupNext]_allVars => TimeInv'
  BY NextKeepsTime
<1>. QED BY <1>1, <1>2, AlwaysGInv, PTL DEF GroupSpec

(***************************************************************************)
(* A wait that returns without its bits has waited its ticks, across every *)
(* wrap of the tick count and also when ticks were pended; one without a   *)
(* timeout never does, and the bits were not set at the last look.         *)
(***************************************************************************)
THEOREM NobodyGivesUpEarly ==
    ASSUME WaitersAreLeftAlone
    PROVE  GroupSpec => GivesUpForGoodReason
<1>1. ASSUME GInv, TimeInv, [GroupNext]_allVars, NEW t \in Task, call[t].op = "wait",
             call'[t] = NoCall, ~Met(call[t], uxReturn')
      PROVE  due[t] = 0 /\ call[t].wait # portMAX_DELAY /\ ~Met(call[t], uxEventBits)
  <2>1. /\ call \in [Task -> CallType] /\ call'[t] # call[t]
    BY <1>1 DEF GInv, GroupTypes, NoCall
  <2>2. PICK u \in Task : GroupCall(u) \/ GroupContinue(u)
    <3>1. ~UNCHANGED allVars /\ ~SchedulerStep
      BY <1>1, <2>1, SchedulerStepIsNext DEF allVars, groupVars, KeepGroup
    <3>. QED BY <1>1, <3>1 DEF GroupNext
  <2>3. u = t
    BY <1>1, <2>1, <2>2, GroupLeavesOthers DEF LeavesOthers
  <2>4. ~GroupCall(t) /\ ~SyncSet(t) /\ ~SyncTest(t) /\ ~SetBitsSuspended(t)
    <3>1. ~GroupCall(t)
      BY <1>1 DEF GroupCall, xEventGroupSetBits, xEventGroupClearBits, xEventGroupWaitBits,
         xEventGroupSync, Begin, NoCall
    <3>2. call[t].op # "sync" /\ call[t].op # "set"
      BY <1>1
    <3>3. pc[t] \in {"setBits", "syncSet", "syncTest"} => ~InWindow(t)
      BY <1>1, <3>2, GroupLabels
      DEF GInv, GroupCalls, Window, InSet, InTest, InSyncSet, InSyncTest
    <3>. QED BY <3>1, <3>3, GroupLabels
            DEF SyncSet, SyncTest, SetBitsSuspended, At, InWindow
  <2>5. CASE TestBits(t)
    <3>1. pc[t] = "testBits"
      BY <2>5 DEF TestBits, At
    <3>2. due[t] = call[t].wait
      BY <1>1, <3>1 DEF TimeInv, Fresh
    <3>3. Met(call[t], uxEventBits) \/ call[t].wait = 0
      BY <2>1, <2>5 DEF TestBits
    <3>4. uxReturn' = uxEventBits
      BY <2>1, <2>5 DEF TestBits, ReturnBits
    <3>. QED BY <1>1, <3>2, <3>3, <3>4, TasksAssumption DEF portMAX_DELAY
  <2>6. CASE FinishWait(t)
    <3>1. pc[t] = "run" /\ t = pxCurrentTCB /\ call[t] # NoCall
      BY <2>6 DEF FinishWait, At
    <3>2. eventList[t] # Group
      BY <1>1, <2>6, AtRunStep DEF FinishWait, At
    <3>3. ~InWindow(t) /\ Waits(t)
      BY <1>1, <3>1, GroupLabels, ApartFromObjects
      DEF GInv, GroupCalls, Window, InSet, InTest, InSyncSet, InSyncTest, Outside
    <3>4. CASE eventValue[t].released
      <4>1. uxReturn' = eventValue[t].bits /\ Met(call[t], eventValue[t].bits)
        BY <2>6, <3>3, <3>4 DEF FinishWait, ReturnBits, Waits
      <4>. QED BY <1>1, <4>1
    <3>5. CASE ~eventValue[t].released
      <4>1. uxReturn' = uxEventBits
        BY <2>6, <3>5 DEF FinishWait, ReturnBits
      <4>2. due[t] = 0 /\ call[t].wait # portMAX_DELAY
        BY <1>1, <3>2, <3>3, <3>5 DEF TimeInv, WaitsItsTicks
      <4>. QED BY <1>1, <4>1, <4>2
    <3>. QED BY <3>4, <3>5
  <2>. QED BY <2>2, <2>3, <2>4, <2>5, <2>6 DEF GroupContinue
<1>2. GInv /\ TimeInv /\ [GroupNext]_allVars =>
          [\A t \in Task :
               call[t].op = "wait" /\ call'[t] = NoCall /\ ~Met(call[t], uxReturn') =>
                   /\ due[t] = 0 /\ call[t].wait # portMAX_DELAY
                   /\ ~Met(call[t], uxEventBits)]_allVars
  BY <1>1
<1>. QED BY <1>2, AlwaysGInv, AlwaysTimeInv, PTL DEF GroupSpec, GivesUpForGoodReason
---------------------------------------------------------------------------
(* The rendezvous *)

\* Every member has a bit of its own, which is used for nothing else.
OwnBits ==
    /\ \A t, u \in Member : SyncBit[t] = SyncBit[u] => t = u
    /\ \A bits \in BitsToSet \union BitsToClear \union BitsToWaitFor : bits \intersect SyncBits = {}

\* In the call that found everybody there.
Found(t) == call[t].op = "sync" /\ call[t].met

\* The bits of the members say who waits.  A member that is alone sets its bit for nobody.
BitsTell ==
    \A t \in Member :
        /\ Phase(t) = "in" => SyncBit[t] \in uxEventBits
        /\ SyncBit[t] \in uxEventBits => Phase(t) = "in" \/ Member = {t}

\* When somebody found everybody there, nobody waits any more.
AllAreFree == (\E t \in Member : Found(t)) => \A u \in Member : Phase(u) # "in"

MeetingInv == BitsTell /\ AllAreFree

Phases == [t \in Member |-> Phase(t)]

\* What a step that is none of the rendezvous leaves alone.
Aside(u) ==
    /\ Phase(u)' = Phase(u)
    /\ Found(u)' => Found(u)
    /\ SyncBit[u] \in uxEventBits' <=> SyncBit[u] \in uxEventBits

MeetingStep == MeetingInv' /\ [\E t \in Member : Meeting!Arrive(t) \/ Meeting!Depart(t)]_Phases

LEMMA StepsAside ==
    ASSUME MeetingInv, \A u \in Member : Aside(u)
    PROVE  MeetingStep
<1>1. \A u \in Member : Phase(u)' = Phase(u)
  BY DEF Aside
<1>2. BitsTell'
  BY <1>1 DEF MeetingInv, BitsTell, Aside
<1>3. AllAreFree'
  BY <1>1 DEF MeetingInv, AllAreFree, Aside
<1>4. Phases' = Phases
  BY <1>1 DEF Phases
<1>. QED BY <1>2, <1>3, <1>4 DEF MeetingStep, MeetingInv

\* A member that has come and was not released is in the event list, once it has gone there.
LEMMA WhoWaitsIsThere ==
    ASSUME GInv, TimeInv, NEW u \in Task, call[u].op = "sync", ~InWindow(u),
           ~eventValue[u].released
    PROVE  eventList[u] = Group
<1>1. call[u] \in SyncCall
  BY CallTypes DEF GInv, GroupTypes
<1>2. call[u].wait = portMAX_DELAY
  BY <1>1 DEF SyncCall
<1>. QED BY <1>2 DEF TimeInv, WaitsItsTicks

LEMMA WhoFoundIsCurrent ==
    ASSUME GInv, NEW u \in Task, Found(u)
    PROVE  InWindow(u) /\ u = pxCurrentTCB
<1>1. ~Outside(u)
  BY DEF Found, Outside, NoCall
<1>2. ~Waits(u)
  BY DEF Found, Waits
<1>. QED BY <1>1, <1>2 DEF GInv, GroupCalls, Window

\* The task in the group's code, and what it says of the rendezvous.
LEMMA WindowOf ==
    ASSUME GInv, NEW t \in Task, At(t, "setBits") \/ At(t, "testBits") \/ At(t, "syncSet")
                                 \/ At(t, "syncTest")
    PROVE  /\ InWindow(t) /\ Window(t) /\ t = pxCurrentTCB /\ ~eventValue[t].released
           /\ pc[t] = "setBits" => InSet(t)
           /\ pc[t] = "testBits" => InTest(t)
           /\ pc[t] = "syncSet" => InSyncSet(t)
           /\ pc[t] = "syncTest" => InSyncTest(t)
<1>1. InWindow(t)
  BY GroupLabels DEF At, InWindow
<1>. QED BY <1>1 DEF GInv, GroupCalls, Window, InSet, InTest, InSyncSet, InSyncTest

\* The application's calls.
LEMMA CallIsAside ==
    ASSUME OwnBits, GInv, TimeInv, MeetingInv, NEW t \in Task, GroupCall(t)
    PROVE  MeetingStep
<1>1. /\ call \in [Task -> CallType] /\ Member \subseteq Task
      /\ call[t] = NoCall /\ ~eventValue[t].released /\ NoCall.op = "none"
  <2>1. call[t] = NoCall
    BY DEF GroupCall, xEventGroupSetBits, xEventGroupClearBits, xEventGroupWaitBits,
       xEventGroupSync, Begin
  <2>2. ~InWindow(t) /\ ~Waits(t)
    BY <2>1 DEF GInv, GroupCalls, Window, InSet, InTest, InSyncSet, InSyncTest, Waits, NoCall
  <2>3. ~eventValue[t].released
    BY <2>2 DEF GInv, GroupCalls, Outside
  <2>. QED BY <2>1, <2>3, GroupAssumption DEF GInv, GroupTypes, NoCall
<1>2. ASSUME NEW args, NEW n, NEW label, Begin(t, args, n, label),
             args.op = "sync" => ~args.set /\ ~args.met
      PROVE  MeetingStep
  <2>1. /\ call' = [call EXCEPT ![t] = args] /\ UNCHANGED <<eventValue, uxEventBits>>
    BY <1>2 DEF Begin
  <2>2. ASSUME NEW u \in Member, u # t PROVE Aside(u)
    <3>1. call'[u] = call[u]
      BY <1>1, <2>1, <2>2
    <3>. QED BY <2>1, <3>1 DEF Aside, Phase, Found
  <2>3. ASSUME t \in Member PROVE Aside(t)
    <3>1. call'[t] = args
      BY <1>1, <2>1
    <3>2. Phase(t) = "out" /\ Phase(t)' = "out" /\ ~Found(t)'
      BY <1>1, <1>2, <2>1, <3>1 DEF Phase, Found
    <3>. QED BY <2>1, <3>2 DEF Aside
  <2>. QED BY <2>2, <2>3, StepsAside
<1>3. ASSUME NEW bits \in BitsToClear, xEventGroupClearBits(t, bits) PROVE MeetingStep
  <2>1. /\ UNCHANGED <<call, eventValue>> /\ uxEventBits' = uxEventBits \ bits
    BY <1>3 DEF xEventGroupClearBits
  <2>2. bits \intersect SyncBits = {}
    BY DEF OwnBits
  <2>3. ASSUME NEW u \in Member PROVE Aside(u)
    BY <2>1, <2>2 DEF Aside, Phase, Found, SyncBits
  <2>. QED BY <2>3, StepsAside
<1>4. ASSUME NEW bits \in BitsToSet, xEventGroupSetBits(t, bits) PROVE MeetingStep
  <2>1. PICK args : args.op = "set" /\ Begin(t, args, 0, "setBits")
    BY <1>4 DEF xEventGroupSetBits
  <2>. QED BY <1>2, <2>1
<1>5. ASSUME NEW bits, NEW n, NEW clear, NEW all, xEventGroupWaitBits(t, bits, clear, all, n)
      PROVE  MeetingStep
  <2>1. PICK args : args.op = "wait" /\ Begin(t, args, n, "testBits")
    BY <1>5 DEF xEventGroupWaitBits
  <2>. QED BY <1>2, <2>1
<1>6. ASSUME xEventGroupSync(t) PROVE MeetingStep
  <2>1. PICK args : ~args.set /\ ~args.met /\ Begin(t, args, portMAX_DELAY, "syncSet")
    BY <1>6 DEF xEventGroupSync
  <2>. QED BY <1>2, <2>1
<1>. QED BY <1>3, <1>4, <1>5, <1>6 DEF GroupCall

\* xEventGroupSetBits with bits of the application's: no member meets its condition by them.
LEMMA SetBitsIsAside ==
    ASSUME OwnBits, GInv, TimeInv, MeetingInv, NEW t \in Task, SetBitsSuspended(t)
    PROVE  MeetingStep
<1>1. InSet(t) /\ Window(t) /\ Member \subseteq Task
  BY WindowOf, GroupAssumption DEF SetBitsSuspended, At
<1>. DEFINE now == uxEventBits \union call[t].bits
            R == {u \in Waiting : Met(call[u], now)}
<1>2. call[t].bits \intersect SyncBits = {} /\ call[t].op = "set"
  BY <1>1 DEF InSet, TimeInv, CallGiven, OwnBits
<1>3. /\ uxEventBits' = now \ ClearedFor(R) /\ Release(t, R, now)
      /\ call' = [call EXCEPT ![t] = NoCall] /\ call \in [Task -> CallType]
  BY DEF SetBitsSuspended, SetBits, GInv, GroupTypes
<1>4. ASSUME NEW u \in R
      PROVE  u \in Task /\ call[u].op = "wait" /\ call[u].bits \intersect SyncBits = {}
  <2>1. u \in Task /\ eventList[u] = Group /\ Met(call[u], now)
    BY <1>4 DEF Waiting
  <2>2. Waits(u)
    BY <2>1, WindowIsReady DEF GInv, GroupCalls, Outside
  <2>3. call[u].op # "sync"
    <3>1. SUFFICES ASSUME call[u].op = "sync" PROVE FALSE
      OBVIOUS
    <3>2. call[u] \in SyncCall
      BY <2>1, <3>1, CallTypes DEF GInv, GroupTypes
    <3>3. call[u].all /\ call[u].bits = SyncBits
      BY <3>2 DEF SyncCall
    <3>4. SyncBits \subseteq now
      BY <2>1, <3>3 DEF Met
    <3>5. SyncBits \subseteq uxEventBits
      BY <1>2, <3>4
    <3>. QED BY <2>1, <3>3, <3>5 DEF GInv, NobodyWaitsForSetBits, Waiting, Met
  <2>4. call[u].op = "wait" /\ call[u].bits \in BitsToWaitFor
    BY <2>1, <2>2, <2>3 DEF Waits, TimeInv, CallGiven
  <2>. QED BY <2>1, <2>4 DEF OwnBits
<1>. HIDE DEF R
<1>5. ClearedFor(R) \intersect SyncBits = {}
  BY <1>4 DEF ClearedFor
<1>6. ASSUME NEW u \in Member PROVE Aside(u)
  <2>1. SyncBit[u] \in uxEventBits' <=> SyncBit[u] \in uxEventBits
    BY <1>2, <1>3, <1>5 DEF SyncBits
  <2>2. CASE u = t
    <3>1. call'[t].op # "sync"
      BY <1>1, <1>3, <2>2 DEF NoCall
    <3>2. Phase(t) = "out" /\ Phase(t)' = "out" /\ ~Found(t)'
      BY <1>2, <3>1 DEF Phase, Found
    <3>. QED BY <2>1, <2>2, <3>2 DEF Aside
  <2>3. CASE u # t /\ u \in R
    <3>1. call'[u] = call[u] /\ call[u].op = "wait"
      BY <1>1, <1>3, <1>4, <2>3
    <3>2. Phase(u) = "out" /\ Phase(u)' = "out" /\ ~Found(u)'
      BY <3>1 DEF Phase, Found
    <3>. QED BY <2>1, <3>2 DEF Aside
  <2>4. CASE u # t /\ u \notin R
    <3>1. call'[u] = call[u]
      BY <1>1, <1>3, <2>4
    <3>2. eventValue'[u] = eventValue[u]
      BY <1>1, <1>3, <2>4 DEF Release
    <3>. QED BY <2>1, <3>1, <3>2 DEF Aside, Phase, Found
  <2>. QED BY <2>2, <2>3, <2>4
<1>. QED BY <1>6, StepsAside

\* xEventGroupWaitBits is none of the rendezvous.
LEMMA TestBitsIsAside ==
    ASSUME OwnBits, GInv, TimeInv, MeetingInv, NEW t \in Task, TestBits(t)
    PROVE  MeetingStep
<1>1. InTest(t) /\ Window(t) /\ Member \subseteq Task
  BY WindowOf, GroupAssumption DEF TestBits, At
<1>2. call[t].op = "wait" /\ call[t].bits \intersect SyncBits = {}
  BY <1>1 DEF InTest, TimeInv, CallGiven, OwnBits
<1>3. /\ call \in [Task -> CallType] /\ eventValue \in [Task -> ValueType]
  BY DEF GInv, GroupTypes
<1>4. /\ call' \in {call, [call EXCEPT ![t] = NoCall]}
      /\ eventValue' \in {eventValue, [eventValue EXCEPT ![t] = NotReleased]}
      /\ uxEventBits' \in {uxEventBits, uxEventBits \ call[t].bits}
  BY DEF TestBits, ReturnBits, NotPlaced, vTaskPlaceOnUnorderedEventList
<1>5. ASSUME NEW u \in Member PROVE Aside(u)
  <2>1. SyncBit[u] \in uxEventBits' <=> SyncBit[u] \in uxEventBits
    BY <1>2, <1>4 DEF SyncBits
  <2>2. CASE u = t
    <3>1. call'[t].op # "sync"
      BY <1>1, <1>2, <1>3, <1>4 DEF NoCall
    <3>2. Phase(t) = "out" /\ Phase(t)' = "out" /\ ~Found(t)'
      BY <1>2, <3>1 DEF Phase, Found
    <3>. QED BY <2>1, <2>2, <3>2 DEF Aside
  <2>3. CASE u # t
    <3>1. call'[u] = call[u] /\ eventValue'[u] = eventValue[u]
      BY <1>1, <1>3, <1>4, <2>3
    <3>. QED BY <2>1, <3>1 DEF Aside, Phase, Found
  <2>. QED BY <2>2, <2>3
<1>. QED BY <1>5, StepsAside

\* A member that was released, or found everybody there, leaves.
LEMMA Leaves ==
    ASSUME MeetingInv, NEW t \in Member, Phase(t) = "free", Phase(t)' = "out", ~Found(t)',
           \A u \in Member \ {t} : Phase(u)' = Phase(u) /\ (Found(u)' => Found(u)),
           \/ UNCHANGED uxEventBits
           \/ Found(t) /\ uxEventBits' \intersect SyncBits = {}
    PROVE  MeetingStep
<1>1. Meeting!Depart(t)
  <2>1. Phases' = [Phases EXCEPT ![t] = "out"] /\ Phases[t] = "free"
    BY DEF Phases
  <2>. QED BY <2>1 DEF Meeting!Depart, Phases
<1>2. \A u \in Member : Phase(u)' = "in" => Phase(u) = "in" /\ u # t
  OBVIOUS
<1>3. BitsTell'
  <2>1. CASE UNCHANGED uxEventBits
    <3>1. \A u \in Member : u # t => Phase(u)' = Phase(u)
      OBVIOUS
    <3>2. SyncBit[t] \in uxEventBits => Member = {t}
      BY DEF MeetingInv, BitsTell
    <3>. QED BY <1>2, <2>1, <3>1, <3>2 DEF MeetingInv, BitsTell
  <2>2. CASE Found(t) /\ uxEventBits' \intersect SyncBits = {}
    <3>1. \A u \in Member : Phase(u)' # "in"
      BY <1>2, <2>2 DEF MeetingInv, AllAreFree
    <3>. QED BY <2>2, <3>1 DEF BitsTell, SyncBits
  <2>. QED BY <2>1, <2>2
<1>4. AllAreFree'
  BY <1>2 DEF MeetingInv, AllAreFree
<1>. QED BY <1>1, <1>3, <1>4 DEF MeetingStep, MeetingInv

\* The bit of a member that comes, and who is released.
LEMMA SyncSetMeets ==
    ASSUME OwnBits, GInv, TimeInv, MeetingInv, NEW t \in Task, SyncSet(t)
    PROVE  MeetingStep
<1>1. /\ InSyncSet(t) /\ Window(t) /\ t = pxCurrentTCB /\ ~eventValue[t].released
      /\ t \in Member /\ Member \subseteq Task
  BY WindowOf, GroupAssumption DEF SyncSet, At, InSyncSet
<1>. DEFINE now == uxEventBits \union {SyncBit[t]}
            all == SyncBits \subseteq now
            R == {u \in Waiting : Met(call[u], now)}
<1>2. /\ uxEventBits' = now \ ClearedFor(R) /\ Release(t, R, now)
      /\ call' = [call EXCEPT ![t] = [call[t] EXCEPT !.set = TRUE, !.met = all]]
      /\ call \in [Task -> CallType]
  BY DEF SyncSet, SetBits, GInv, GroupTypes
<1>3. call[t] \in SyncCall /\ Phase(t) = "out" /\ ~Found(t)
  BY <1>1, <1>2, CallTypes DEF InSyncSet, Phase, Found
<1>4. /\ call'[t].op = "sync" /\ call'[t].set = TRUE /\ call'[t].met = all
      /\ \A u \in Task \ {t} : call'[u] = call[u]
  <2>1. /\ [call[t] EXCEPT !.set = TRUE, !.met = all].op = "sync"
        /\ [call[t] EXCEPT !.set = TRUE, !.met = all].set = TRUE
        /\ [call[t] EXCEPT !.set = TRUE, !.met = all].met = all
    BY <1>3 DEF SyncCall
  <2>. QED BY <1>2, <2>1
<1>5. /\ t \notin R
      /\ \A u \in R : /\ u \in Task /\ call[u].op \in {"wait", "sync"}
                      /\ call[u].op = "sync" => all /\ call[u].clear /\ call[u].bits = SyncBits
                      /\ call[u].op = "wait" => call[u].bits \intersect SyncBits = {}
  <2>1. t \notin Waiting
    BY <1>1, WindowIsReady DEF GInv, Waiting
  <2>2. ASSUME NEW u \in R
        PROVE  /\ u \in Task /\ call[u].op \in {"wait", "sync"}
               /\ call[u].op = "sync" => all /\ call[u].clear /\ call[u].bits = SyncBits
               /\ call[u].op = "wait" => call[u].bits \intersect SyncBits = {}
    <3>1. u \in Task /\ eventList[u] = Group /\ Met(call[u], now)
      BY DEF Waiting
    <3>2. Waits(u)
      BY <3>1, WindowIsReady DEF GInv, GroupCalls, Outside
    <3>3. ASSUME call[u].op = "sync" PROVE all /\ call[u].clear /\ call[u].bits = SyncBits
      <4>1. call[u] \in SyncCall
        BY <1>2, <3>1, <3>3, CallTypes
      <4>2. call[u].all /\ call[u].clear /\ call[u].bits = SyncBits
        BY <4>1 DEF SyncCall
      <4>. QED BY <3>1, <4>2 DEF Met
    <3>4. ASSUME call[u].op = "wait" PROVE call[u].bits \intersect SyncBits = {}
      BY <3>1, <3>4 DEF TimeInv, CallGiven, OwnBits
    <3>. QED BY <3>1, <3>2, <3>3, <3>4 DEF Waits
  <2>. QED BY <2>1, <2>2
<1>6. ASSUME NEW u \in Member, u # t
      PROVE  SyncBit[u] \in now <=> SyncBit[u] \in uxEventBits
  BY <1>1, <1>6 DEF OwnBits
<1>7. /\ \A u \in Task : u \in R => eventValue'[u].released
      /\ \A u \in Task : u \notin R => eventValue'[u] = eventValue[u]
  BY <1>2 DEF Release
<1>8. all <=> \A u \in Member \ {t} : SyncBit[u] \in uxEventBits
  BY <1>1, <1>6 DEF SyncBits
<1>9. ASSUME NEW u \in Member, u # t PROVE SyncBit[u] \in uxEventBits <=> Phase(u) = "in"
  BY <1>1, <1>9 DEF MeetingInv, BitsTell
<1>. HIDE DEF R, now, all
<1>10. CASE ~all
  <2>1. ClearedFor(R) \intersect SyncBits = {}
    BY <1>5, <1>10 DEF ClearedFor
  <2>2. Phase(t)' = "in" /\ ~Found(t)'
    BY <1>1, <1>4, <1>5, <1>7, <1>10 DEF Phase, Found
  <2>3. ASSUME NEW u \in Member, u # t
        PROVE  Phase(u)' = Phase(u) /\ ~Found(u)'
    <3>1. call'[u] = call[u]
      BY <1>1, <1>4, <2>3
    <3>2. Phase(u)' = Phase(u)
      BY <1>1, <1>5, <1>7, <1>10, <3>1 DEF Phase
    <3>3. ~Found(u)
      BY <1>1, <2>3, WhoFoundIsCurrent
    <3>. QED BY <3>1, <3>2, <3>3 DEF Found
  <2>4. Meeting!Arrive(t)
    <3>1. ~\A u \in Member \ {t} : Phases[u] = "in"
      BY <1>8, <1>9, <1>10 DEF Phases
    <3>2. Phases[t] = "out" /\ Phases' = [Phases EXCEPT ![t] = "in"]
      BY <1>1, <1>3, <2>2, <2>3 DEF Phases
    <3>. QED BY <3>1, <3>2 DEF Meeting!Arrive, Phases
  <2>5. BitsTell'
    <3>1. SyncBit[t] \in uxEventBits'
      BY <1>1, <1>2, <2>1 DEF SyncBits, now
    <3>2. \A u \in Member : u # t => (SyncBit[u] \in uxEventBits' <=> SyncBit[u] \in uxEventBits)
      BY <1>2, <1>6, <2>1 DEF SyncBits
    <3>. QED BY <1>9, <2>2, <2>3, <3>1, <3>2 DEF BitsTell
  <2>6. AllAreFree'
    BY <2>2, <2>3 DEF AllAreFree
  <2>. QED BY <1>1, <2>4, <2>5, <2>6 DEF MeetingStep, MeetingInv
<1>11. CASE all
  <2>1. Phase(t)' = "free"
    BY <1>1, <1>4, <1>11 DEF Phase
  <2>2. ASSUME NEW u \in Member, u # t PROVE Phase(u)' = "free" /\ u \in R /\ call[u].op = "sync"
    <3>1. u \in Task /\ Phase(u) = "in" /\ call'[u] = call[u]
      BY <1>1, <1>4, <1>8, <1>9, <1>11, <2>2
    <3>2. call[u].op = "sync" /\ ~eventValue[u].released
      BY <3>1 DEF Phase
    <3>3. ~InWindow(u)
      BY <1>1, <2>2, <3>1 DEF GInv, GroupCalls, Window
    <3>4. u \in Waiting
      BY <3>1, <3>2, <3>3, WhoWaitsIsThere DEF Waiting
    <3>5. call[u].all /\ call[u].bits = SyncBits
      <4>1. call[u] \in SyncCall
        BY <1>2, <3>1, <3>2, CallTypes
      <4>. QED BY <4>1 DEF SyncCall
    <3>6. u \in R
      BY <1>11, <3>4, <3>5 DEF R, Met, all
    <3>. QED BY <1>7, <3>1, <3>2, <3>6 DEF Phase
  <2>3. \A u \in Member : Phase(u)' = "free"
    BY <2>1, <2>2
  <2>4. Meeting!Arrive(t)
    <3>1. \A u \in Member \ {t} : Phases[u] = "in"
      BY <1>8, <1>9, <1>11 DEF Phases
    <3>2. Phases[t] = "out" /\ Phases' = [u \in Member |-> "free"]
      BY <1>1, <1>3, <2>3 DEF Phases
    <3>. QED BY <3>1, <3>2 DEF Meeting!Arrive, Phases
  <2>5. BitsTell'
    <3>1. ASSUME NEW u \in Member, u # t PROVE uxEventBits' \intersect SyncBits = {}
      BY <1>2, <1>5, <2>2, <3>1 DEF ClearedFor
    <3>2. Member = {t} \/ uxEventBits' \intersect SyncBits = {}
      BY <1>1, <3>1
    <3>. QED BY <2>3, <3>2 DEF BitsTell, SyncBits
  <2>6. AllAreFree'
    BY <2>3 DEF AllAreFree
  <2>. QED BY <1>1, <2>4, <2>5, <2>6 DEF MeetingStep, MeetingInv
<1>. QED BY <1>10, <1>11

LEMMA SyncTestMeets ==
    ASSUME GInv, MeetingInv, NEW t \in Task, SyncTest(t)
    PROVE  MeetingStep
<1>1. /\ InSyncTest(t) /\ t = pxCurrentTCB /\ ~eventValue[t].released
      /\ t \in Member /\ Member \subseteq Task /\ call[t].op = "sync" /\ call[t].set
  BY WindowOf, GroupAssumption DEF SyncTest, At, InSyncTest
<1>2. /\ call \in [Task -> CallType] /\ eventValue \in [Task -> ValueType]
  BY DEF GInv, GroupTypes
<1>3. CASE /\ call[t].met
           /\ uxEventBits' = uxEventBits \ SyncBits
           /\ ReturnBits(t, uxEventBits \union SyncBits)
           /\ NotPlaced
  <2>1. /\ call' = [call EXCEPT ![t] = NoCall] /\ UNCHANGED eventValue
    BY <1>3 DEF ReturnBits, NotPlaced
  <2>2. call'[t].op # "sync"
    BY <1>1, <1>2, <2>1 DEF NoCall
  <2>3. Phase(t) = "free" /\ Phase(t)' = "out" /\ Found(t) /\ ~Found(t)'
    BY <1>1, <1>3, <2>2 DEF Phase, Found
  <2>4. \A u \in Member \ {t} : Phase(u)' = Phase(u) /\ (Found(u)' => Found(u))
    BY <1>1, <1>2, <2>1 DEF Phase, Found
  <2>5. uxEventBits' \intersect SyncBits = {}
    BY <1>3
  <2>. QED BY <1>1, <2>3, <2>4, <2>5, Leaves
<1>4. CASE /\ ~call[t].met
           /\ vTaskPlaceOnUnorderedEventList(t, call[t].wait)
           /\ UNCHANGED <<uxEventBits, call, due>>
  <2>1. eventValue' = [eventValue EXCEPT ![t] = NotReleased]
    BY <1>4 DEF vTaskPlaceOnUnorderedEventList
  <2>2. /\ ~eventValue'[t].released
        /\ \A u \in Member : u # t => eventValue'[u] = eventValue[u]
    BY <1>1, <1>2, <2>1 DEF NotReleased
  <2>3. Phase(t)' = "in" /\ Phase(t) = "in"
    BY <1>1, <1>4, <2>2 DEF Phase
  <2>4. ASSUME NEW u \in Member PROVE Aside(u)
    <3>1. Phase(u)' = Phase(u)
      BY <1>4, <2>2, <2>3 DEF Phase
    <3>. QED BY <1>4, <3>1 DEF Aside, Found
  <2>. QED BY <2>4, StepsAside
<1>. QED BY <1>3, <1>4 DEF SyncTest

\* Who waited in xEventGroupSync was released, and leaves.
LEMMA FinishWaitMeets ==
    ASSUME OwnBits, GInv, TimeInv, MeetingInv, NEW t \in Task, FinishWait(t)
    PROVE  MeetingStep
<1>1. /\ pc[t] = "run" /\ t = pxCurrentTCB /\ call[t] # NoCall /\ Member \subseteq Task
      /\ UNCHANGED <<timeVars, listVars, controlVars>>
      /\ eventValue' = [eventValue EXCEPT ![t] = NotReleased]
      /\ call' = [call EXCEPT ![t] = NoCall]
      /\ \/ eventValue[t].released /\ UNCHANGED uxEventBits
         \/ /\ ~eventValue[t].released
            /\ uxEventBits' = IF Met(call[t], uxEventBits) /\ call[t].clear
                              THEN uxEventBits \ call[t].bits ELSE uxEventBits
  BY GroupAssumption DEF FinishWait, At, ReturnBits
<1>2. eventList[t] # Group
  BY AtRunStep DEF FinishWait, At
<1>3. ~InWindow(t) /\ Waits(t)
  BY <1>1, <1>2, GroupLabels, ApartFromObjects
  DEF GInv, GroupCalls, Window, InSet, InTest, InSyncSet, InSyncTest, Outside
<1>4. /\ call \in [Task -> CallType] /\ eventValue \in [Task -> ValueType]
  BY DEF GInv, GroupTypes
<1>5. call'[t].op # "sync"
  BY <1>1, <1>4 DEF NoCall
<1>6. Phase(t)' = "out" \/ t \notin Member
  BY <1>5 DEF Phase
<1>7. ~Found(t)'
  BY <1>5 DEF Found
<1>8. \A u \in Member \ {t} : Phase(u)' = Phase(u) /\ (Found(u)' => Found(u))
  BY <1>1, <1>4 DEF Phase, Found
<1>9. CASE call[t].op = "sync"
  <2>1. eventValue[t].released /\ t \in Member
    BY <1>2, <1>3, <1>9, WhoWaitsIsThere DEF Waits
  <2>2. Phase(t) = "free"
    BY <1>9, <2>1 DEF Phase
  <2>. QED BY <1>1, <1>6, <1>7, <1>8, <2>1, <2>2, Leaves
<1>10. CASE call[t].op = "wait"
  <2>1. call[t].bits \intersect SyncBits = {}
    BY <1>10 DEF TimeInv, CallGiven, OwnBits
  <2>2. uxEventBits' \in {uxEventBits, uxEventBits \ call[t].bits}
    BY <1>1
  <2>3. ASSUME NEW u \in Member PROVE SyncBit[u] \in uxEventBits' <=> SyncBit[u] \in uxEventBits
    BY <2>1, <2>2 DEF SyncBits
  <2>4. Phase(t) = "out"
    BY <1>10 DEF Phase
  <2>5. \A u \in Member : Aside(u)
    BY <1>6, <1>7, <1>8, <2>3, <2>4 DEF Aside
  <2>. QED BY <2>5, StepsAside
<1>. QED BY <1>3, <1>9, <1>10 DEF Waits

LEMMA NextMeets ==
    ASSUME OwnBits, GInv, TimeInv, MeetingInv, [GroupNext]_allVars
    PROVE  MeetingStep
<1>1. ASSUME UNCHANGED <<call, eventValue, uxEventBits>> PROVE MeetingStep
  BY <1>1, StepsAside DEF Aside, Phase, Found
<1>2. CASE UNCHANGED allVars
  BY <1>1, <1>2 DEF allVars, groupVars
<1>3. CASE SchedulerStep
  BY <1>1, <1>3, SchedulerStepIsNext DEF KeepGroup
<1>4. ASSUME NEW t \in Task, GroupCall(t) PROVE MeetingStep
  BY <1>4, CallIsAside
<1>5. ASSUME NEW t \in Task, GroupContinue(t) PROVE MeetingStep
  BY <1>5, SetBitsIsAside, TestBitsIsAside, FinishWaitMeets, SyncSetMeets, SyncTestMeets
  DEF GroupContinue
<1>. QED BY <1>2, <1>3, <1>4, <1>5 DEF GroupNext

(***************************************************************************)
(* xEventGroupSync implements a barrier: nobody leaves before everybody    *)
(* has come, round after round, when the bits of the members serve nothing *)
(* else and no member is suspended or deleted.                             *)
(***************************************************************************)
THEOREM SyncIsABarrier ==
    ASSUME WaitersAreLeftAlone, OwnBits
    PROVE  GroupSpec => ImplementsBarrier
<1>1. ASSUME GroupInit PROVE MeetingInv /\ Meeting!BarrierInit
  <2>1. \A u \in Member : Phase(u) = "out" /\ ~Found(u)
    BY <1>1, GroupAssumption DEF GroupInit, Phase, Found, NoCall
  <2>2. BitsTell /\ AllAreFree
    BY <1>1, <2>1 DEF GroupInit, BitsTell, AllAreFree
  <2>. QED BY <2>1, <2>2 DEF MeetingInv, Meeting!BarrierInit
<1>2. GInv /\ TimeInv /\ MeetingInv /\ [GroupNext]_allVars => MeetingInv' /\ MeetingStep
  BY NextMeets DEF MeetingStep
<1>3. MeetingStep =>
          [\E t \in Member : Meeting!Arrive(t) \/ Meeting!Depart(t)]_([t \in Member |-> Phase(t)])
  BY DEF MeetingStep, Phases
<1>. QED BY <1>1, <1>2, <1>3, AlwaysGInv, AlwaysTimeInv, PTL
        DEF GroupSpec, ImplementsBarrier, Meeting!BarrierSpec
===========================================================================
