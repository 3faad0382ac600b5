# A verification project for the N200 SDK: FreeRTOS and uC/OS-II on the N200

This directory holds TLA+ models of the SDK's operating system layer, the TLC
configurations that check them, and theorems about them with proofs for TLAPS.
Paths below are relative to the repository; `tasks.c`, `list.c`, `queue.c`,
`timers.c` and `event_groups.c` are those of `software/FreeRTOSv9.0.0/Source/`,
`heap_4.c` that of its `portable/MemMang/`, `port.c` and `portasm.S` those of its
`portable/GCC/N200/`, `n200_func.c` is `bsp/nuclei-n200/n200/drivers/n200_func.c`,
and the `os_*.c` files are those of `software/ucosii/source/`.

Contents: 1 the system, 2 the modules, 3 the runs, 4 fairness, 5 the proofs,
6 what is only model-checked, 7 disagreements between code and documentation,
8 assumptions, 9 what is not modelled, 10 the plan.

## 1. The system

The SDK is a board support package for a small RISC-V microcontroller (one
core, no cache coherence to think about) with two operating systems on top of
it, and examples. What has logic of its own, and what state it keeps:

| Component | State | Operations | Hard behaviour |
|---|---|---|---|
| Scheduler (`tasks.c`) | ready, delayed, overflow, suspended, pending-ready and termination lists; tick count; `xNextTaskUnblockTime`; suspension depth and pended ticks; `xYieldPending`; priorities; notification state and value | create, delete, delay, delay until, suspend, resume, priority set, suspend all, resume all, tick, switch, notify, wait, take, interrupt-safe twins | interrupts between any two critical sections; switches *inside* critical sections; wrap of the tick count; work put off while the scheduler is suspended |
| Port (`port.c`, `portasm.S`) | `uxCriticalNesting`, the ECLIC threshold `mth`, the timer comparator | enter and exit critical, mask and unmask for interrupts, yield (ECALL), tick handler, timer set-up | one counter for all tasks, not saved by the context switch |
| Kernel lists (`list.c`) | a ring of items with an end marker, an index and a count | insert at end, insert sorted, remove, next entry, set value | removal of the item the index is at; equal values; the value of the end marker |
| Machine timer (`n200_func.c`, `port.c`) | 64-bit count read in words, comparator | `get_timer_value`, set-up, tick | overflow of the low word between two loads; ticks that come late |
| Queues, semaphores, mutexes (`queue.c`) | ring buffer, two event lists, lock counts, mutex holder | send, overwrite, receive, peek, from tasks and interrupts; lock, unlock; reset | the lock counts, blocking with timeout, priority inheritance |
| Software timers (`timers.c`) | two timer lists, a command queue | start, reset, stop, change period, delete, expire | wrap of the tick count, commands that come late, a task that sends to itself |
| Event groups (`event_groups.c`) | bits, an unordered event list | set, wait, sync, clear | several waiters released by one call, bits cleared after the release |
| Heap (`heap_4.c`) | the free list | malloc, free | splitting and merging, preemption in the middle of a free, sizes that wrap |
| uC/OS-II (`software/ucosii`) | ready table, lock and interrupt nesting, control blocks of tasks and events, wait lists | the calls of `os_core.c`, `os_task.c`, `os_time.c`, `os_sem.c`, `os_mbox.c`, `os_q.c`, `os_mutex.c` | posts that race a timeout; a priority that moves between tables; a switch at every tick |
| ECLIC access, start-up | registers | single writes | levels and nesting |

How they interact. A task calls the kernel; the kernel protects its lists
either by a critical section (the port raises `mth` to 96, above the level of
the tick and of every interrupt that may call the kernel) or by suspending the
scheduler (interrupts still come, but leave what they want done in
`xPendingReadyList`, `uxPendedTicks` and `xYieldPending`). A switch is an ECALL
that happens at once. Interrupts call the `FromISR` functions and the tick
handler. Every list of the kernel is one of `list.c`. The queues, timers and
event groups are clients of the scheduler's event lists; the timers are a task
with a queue. uC/OS-II masks all interrupts in its critical sections; its tick
handler calls `task_switch` in every case, and the ECALL of `OS_TASK_SW` does.

What makes each correct:

- *Scheduler*: the most urgent ready task runs; nobody sleeps past his wake
  time or wakes early; what was put off is made up; no notification is lost.
- *Port*: while any task is in a section nothing that calls the kernel comes
  in; when nobody is, interrupts are open.
- *Lists*: a ring of exactly the items in it; tasks of one priority in turn;
  sorted lists sorted, and first come first served.
- *Machine timer*: a read returns a time of the call; as many ticks as periods.
- *Queues*: first in, first out, nothing lost; nobody waits for what is there;
  the holder of a mutex is as urgent as who waits for it, and no longer than that.
- *Timers*: every callback when it is due, once for each period.
- *Event groups*: nobody waits for bits that are set or leaves for nothing; nobody
  leaves a rendezvous before everybody came.
- *Heap*: no byte lost, no byte given twice, no refusal while there is room.
- *uC/OS-II*: tables that agree; nothing posted is lost or taken twice; the most
  urgent ready task runs unless the scheduler is locked.

`PROJECT.json` lists every component, and under `hazards` the places in the
code where these are at risk.

## 2. The modules

    Port  <-  Tasks  <-  MCTasks                    (TLC)
                 ^ <- Queue        <-  MCQueue          BoundedFifo (abstract)
                 ^ <- EventGroups  <-  MCEventGroups    Barrier (abstract)
                 ^ <- Tasks_proofs <-  Queue_proofs, EventGroups_proofs
    List  <-  ReadyList  <-  TaskLists  <-  MCTaskLists, TaskLists_proofs
                                                        RoundRobin (abstract)
      ^ <-  SortedList  (instantiated by TaskLists)
    Timers        <-  MCTimers, Timers_proofs           TimerService (abstract)
    Heap4         <-  MCHeap4, Heap4_proofs
    MachineTimer  <-  MachineTimer_proofs
    UcosTasks     <-  UcosEvents  <-  MCUcos, Ucos_proofs

A module of proofs extends the module that it is about; `Queue_proofs` and
`EventGroups_proofs` also extend `Tasks_proofs`, whose theorems they carry over.

The names are those of the source. Definitions marked "Variant" are plausible
mistakes in the operator that follows them; nothing in the specifications uses
them, they are there to see that the properties notice.

### Port

`uxCriticalNesting`, `mth` and, as a history variable, `held[t]`: how many
sections each task has entered and not left. `vPortEnterCritical`,
`vPortExitCritical` and `vPortSetup` are the functions of these names.
`WholeCriticalSection` is an enter and its exit with no switch between them, in
one step. `InterruptMaskSection` is the mask that `FromISR` functions take. The
threshold is the constant of the build, 6 << 4 = 96; the tick's level and those
of interrupts that may call the kernel are below it. The first task starts with
`mth` = 96: the critical sections of the `xTaskCreate` calls made before the
start count up and down from 0xaaaaaaaa and never reach zero.

### Tasks

The scheduler. A step belongs to the running task, at its program point
`pc[t]`, or to an interrupt. The code between two places where an interrupt can
come in is one action: a critical section, a stretch under `vTaskSuspendAll`, a
check outside both. A call of several such pieces is several actions:
`after[t]` says what follows, `arg[t]` keeps the argument.

| Call | Actions |
|---|---|
| `taskENTER_CRITICAL`, `taskEXIT_CRITICAL` | `UserEnterCritical`, `UserExitCritical` |
| `vTaskSuspendAll`, `xTaskResumeAll` | `vTaskSuspendAll`, `UserResumeAll`, `MovePendingReady`, `ReplayTick` (once per pended tick), `FinishResumeAll`, `ExitCritical` |
| `vTaskDelay`, `vTaskDelayUntil` | the action of the name, `DelayCurrent` or `DelayCurrentUntil`, `xTaskResumeAll` as above, `Yield` if that did not |
| `vTaskSuspend` | the action of the name, `ResetUnblockTime`, `Yield` when a task suspends itself |
| `vTaskResume`, `xTaskResumeFromISR` | one action; `ExitCritical` when it was switched out in its section |
| `vTaskPrioritySet` | one action, and `ExitCritical` |
| `xTaskCreate` | the action of the name, `CreateYield` |
| `vTaskDelete` | the action of the name, `Yield`; `IdleCheckTermination` and `IdleReap` of the idle task |
| `ulTaskNotifyTake`, `xTaskNotifyWait` | the first section, `ExitCritical`, the second section (`TakeNotification`, `FinishNotifyWait`) |
| `xTaskNotify`..., `xTaskNotifyGive` | `xTaskGenericNotify`; `NotifyFromISR`; `xTaskNotifyStateClear` |
| tick interrupt | `TimerTick`, or `TimerTickPended` with the scheduler suspended |
| `taskYIELD` | `Yield` |

Two points deserve attention. First, `portYIELD` inside a critical section
(`xTaskResumeAll`, `vTaskResume`, `vTaskPrioritySet`, the notification calls)
switches at once and leaves the section open: `YieldThenExit` models that, and
the task does its `vPortExitCritical` in `ExitCritical` when it runs again.
Secondly, lists are sets here: `stateList[t]` is the list that holds the task's
state item, `eventList[t]` the list of its event item (`"pending"` or one of
`ObjectLists`, which `Queue` and `EventGroups` put it in). The order in a delayed
list is by `xItemValue`; the order of tasks of the same priority is left open
(any of the highest priority may be selected) and is the subject of `ReadyList`.
Variables `userSuspended` and `held` are history: no action reads them except as
bounds.

### Queue, BoundedFifo

The storage is the array with the indices that `pcWriteTo` and `pcReadFrom` point
to. `call[t]` holds what a task in a call keeps on its stack: the operation, the
queue, the item, the ticks that are left and when they began. A call that blocks
is the loop of the source, one action for each piece between two places where an
interrupt can come in:

| Code | Action |
|---|---|
| the first critical section of `xQueueGenericSend`, `xQueueGenericReceive` | `xQueueGenericSend`, `xQueueGenericReceive` begin the call; `SendItem`, `ReceiveItem`, or `SendFailsOrWaits`, `ReceiveFailsOrWaits` with `vTaskSetTimeOutState` |
| `vTaskSuspendAll`, `prvLockQueue` | `SuspendAllToWait`, `prvLockQueue` |
| `xTaskCheckForTimeOut` | `CheckForTimeOut` |
| `prvIsQueueFull`, `prvIsQueueEmpty` | `TestQueue` |
| `vTaskPriorityInherit` | the action of the name |
| `vTaskPlaceOnEventList` | the action of the name |
| the two halves of `prvUnlockQueue` | `UnlockTx`, `UnlockRx`, then `xTaskResumeAll` of `Tasks` |
| the return of a call that timed out | `ReturnExpired` |
| `xQueueGenericSendFromISR`, `xQueueReceiveFromISR` | one action each: on a queue that is locked they count in `cTxLock`, `cRxLock` |
| `xQueueReset` | one action, and `ExitCritical` |

`waiters[l]` is the event list in its order and `eventPriority[t]` the value it is
sorted by, which `vTaskPriorityInherit` rewrites in place. Inheritance,
disinheritance, `uxBasePriority` and `uxMutexesHeld` are those of `tasks.c`. A
semaphore is a queue without item size. History `due[t]` counts the ticks until
the call of `t` may give up, independently of the tick count and its wraps. History `sent`
is the item of the last call that succeeded in sending one.
`BoundedFifo` is the promise: sequences, no storage, no tasks, and what was last put
in and taken out. The refinement mapping reads the storage from `pcReadFrom` on. Because
`sent` is mapped too, a send that changes nothing is no stutter: an item that was accepted
and is not in the sequence is a violation, also one that should have replaced another.

### EventGroups, Barrier

The value of a waiter's event list item is what says how its wait ended: the
setter leaves there the bits it found with `eventUNBLOCKED_DUE_TO_BIT_SET`
(`eventValue`). `SetBitsSuspended` is the loop of `xEventGroupSetBits`, which
releases everybody whose condition is met and clears at the end; `TestBits` and
`SyncSet`, `SyncTest` are what a waiter does under `vTaskSuspendAll`, `FinishWait`
what it does after it was blocked. Bits are members of a set. `Barrier` is the
promise of `xEventGroupSync`.

### Timers, TimerService

The timer task: an action is what it does between two points at which the tick
count may change or a command may arrive: `prvGetNextExpireTime`,
`prvProcessTimerOrBlockTask`, `prvProcessExpiredTimer`, `prvSwitchTimerLists`
(one expired timer a step), `Receive`, `SampleForCommand`, `Handle`. Lists are
sequences in their order. Commands carry the tick of their call. Blocking on the
command queue is one step here (`wake` counts to the end of the wait): that a
command sent in the middle of it wakes the task is what `Queue` shows.
`TimerService` counts down to each expiry, without lists, wraps or commands that
come late; a timer's `due` is read from the list it is in, with the wrap that may
lie between, or from the restart that is under way.

### Heap4

Blocks by address with their sizes, the free list as a sequence, sizes modulo
`SizeMod`. `pvPortMalloc` works under `vTaskSuspendAll` and is one action;
`vPortFree` clears the allocated bit before it suspends the scheduler and is two,
`Mark` and `Release`. History `given` remembers what was asked for at each pointer.

### List, ReadyList, SortedList, TaskLists, RoundRobin

`List` has the pointers of a ring and one action for every function or macro of
`list.c` and `list.h` that changes a list; `ListSpec` makes the calls in any
order. `ReadyList` calls them as `tasks.c` does for the ready list of one
priority; `RoundRobin` is the abstract promise, a queue of tasks that are
served in turn, and `Order` the refinement mapping: the sequence in which each
task is the one `After` the task before it, and the first the one after the index. `SortedList` calls them as a delayed list does. `TaskLists`
composes the two: the tasks of one priority move between their ready list and
the delayed list, each task's item in at most one of them.

### MachineTimer

The 64-bit count and the two halves of every load of it, the comparator, the
tick handler with its static variable and its first call, and
`get_timer_value` in a task that the handler may preempt. The set-up and the
first tick load `*mtime` with no second look, in either order of the halves.

### UcosTasks, UcosEvents

uC/OS-II. Every action is one critical section, or `OS_Sched`, which has one of
its own; a service that ends in `OS_Sched`, and a pend that has a second section
after it, say so in `pc[t]`. The ready table and the wait lists are sets of
priorities. The tick handler, with `OSTimeTick`, `OSIntExit` and `task_switch`, is
`time_handler`; the hook that posts the semaphore of the timer task comes before
it in the same interrupt. An event that is not a mutex is a number of things to
take, since a post hands its thing to one task or adds it: what a message says,
and the ring pointers of `os_q.c`, are abstracted. `credit` is history: posts less
takes. A mutex has its holder and the holder's own priority, and moves the holder
in the ready table, or in the wait list that its `OSTCBEventPtr` names.

### The MC modules

Model values and the definitions that a `.cfg` cannot write.

## 3. The runs

Every run gives its constants in the `.cfg` and takes between a second and two and
a half minutes on two cores.

| Run | What it asks | Shows |
|---|---|---|
| `Notify` | every notification action, from tasks and interrupts, with and without timeout, interleaved with sections of the application | `NestingIsSum`, `SectionsMaskInterrupts`, `BlockedWaitersAreNotified`, `SuspendedSchedulerIsolates` |
| `Lifecycle` | creation, deletion, suspension, resumption (from tasks and interrupts), priority changes, delays of every length and periods across the wrap | `TypeOK`, `HighestPriorityRuns`, `SelectionFindsTask`, `DelayedAreNotDue`, `NothingLeftPending`, `WakesOnTheTick` |
| `Lists` | three tasks of one priority that are selected, delayed, woken and suspended | `ListsOK`, `SortedAndFair`, `ImplementsRoundRobin` |
| `TimerRead` | a word of 4 values, period 3, times up to 13 | `ReadDuringTheCall`, `TicksCountPeriods` |
| `Queue` | two items, both ends, tasks and interrupts that send and receive, a reset | `QueueIsSound`, `NobodyWaitsForAnItem`, `NobodyWaitsForRoom`, `ImplementsFifo` |
| `Mailbox` | a queue of one item that two tasks and interrupts overwrite with one of two values, while both tasks peek and one receives; under fairness | `ImplementsFifo`, `LockedQueueIsUnlocked`, `PutOffWorkIsDone` |
| `Mutex` | two tasks with a priority between theirs, a mutex, a timeout of 2 ticks with tries again | `HolderIsAsUrgent`, `InheritedOnlyByHolders`, `NeverTimesOutEarly` |
| `EventGroups` | three tasks, two of one priority: waits in all four modes with a timeout, set, clear, rendezvous | `GroupIsSound`, `GivesUpForGoodReason`, `ImplementsBarrier` |
| `Timers` | a periodic and a one-shot timer, a queue of two commands, a timer task that falls behind | `TimersAreSound`, `SleepsThroughNothing`, `ImplementsTimerService` |
| `Heap4` | sizes on both sides of the alignment, and sizes that would wrap, in every order | `HeapIsWhole`, `MemoryIsNotShared`, `FailsOnlyForWantOfRoom` |
| `Ucos` | three tasks with a semaphore, a mailbox, a queue and a mutex; creation, deletion, suspension, priority changes; posts from the tick | `TablesAgree`, `HighestReadyRuns`, `WaitListsAreExact`, `NothingIsLost`, `HolderIsAsUrgent`, `LockedSchedulerStays` |
| `TimerStop` | an interrupt stops a periodic timer | that the timer may run again (section 7) |

What the main properties say, and why they are not obvious:

- `HighestPriorityRuns`: whenever a ready task is more urgent than the running
  one, either a switch is pending (`xYieldPending`) or the task was just made
  by `xTaskCreate`, which compares priorities only after it has left its
  critical section. It is required in *every* state, also while the scheduler
  is suspended and while the running task is on its way into a delayed list.
  `QueueIsSound` and `GroupIsSound` require it again, of tasks that queues and
  event groups wake.
- `SelectionFindsTask`: `uxTopReadyPriority` is never below a ready task, and
  the idle task is always ready. Without the first a ready task is invisible to
  the selection, without the second its loop runs into its assertion.
- `DelayedAreNotDue`: a task of the delayed list wakes later than now, one of
  the overflow list after the wrap, and the cached `xNextTaskUnblockTime` is
  not later than any wake time. The cache is recomputed on some paths only, and
  the two lists are exchanged when the count wraps.
- `WakesOnTheTick`: a delayed task that a tick makes ready has exactly that
  wake time; ticks replayed by `xTaskResumeAll` included.
- `NothingLeftPending`: with the scheduler running, `xPendingReadyList` is
  empty and pended ticks exist only inside the loop that replays them.
- `PutOffWorkIsDone`: a task in `xPendingReadyList` is moved on, and a switch
  asked for while the scheduler was suspended is made: liveness.
- `SuspendedSchedulerIsolates`: under `vTaskSuspendAll` the running task stays
  and interrupts leave the lists and the time alone.
- `NestingIsSum`, `SectionsMaskInterrupts`: one counter that nobody saves, and
  tasks that are switched out inside their sections; still the counter is the
  number of open sections, and the second half of a section that was interrupted
  by a yield is as protected as the first.
- `BlockedWaitersAreNotified`: a task blocked for a notification is WAITING,
  and one in `ulTaskNotifyTake` has nothing to take: none came unseen.
- `ListsOK`, `SortedAndFair`, `ImplementsRoundRobin`: both rings stay whole and
  disjoint; the delayed list is sorted with equal times in order of arrival; the
  ready list serves its tasks in turn although the index moves back when its item
  leaves, which is what makes that refinement more than a walk.
- `ReadDuringTheCall`: the value returned lies between the time of the call and
  that of the return, with any number of overflows between the loads.
- `TicksCountPeriods`: whenever no tick is due, the ticks counted are the
  periods gone by, however late the interrupts were.
- `NobodyWaitsForAnItem`, `NobodyWaitsForRoom`: if a task waits, every item (or
  free place) has a task that is awake and on its way to it, or is counted in the
  lock and `prvUnlockQueue` will wake one for it. This is an invariant, true
  between any two steps of two tasks and an interrupt.
- `ImplementsFifo`: the ring with its two indices, used from both ends and by
  interrupts in the middle of a blocking call, is a sequence; in `Mailbox`, that an
  overwrite leaves the new one of two values, and only it, whoever peeks, waits or takes.
- `LockedQueueIsUnlocked`: nobody keeps a queue locked, whatever interrupts do.
- `HolderIsAsUrgent`, `InheritedOnlyByHolders`: no inversion while a task is in the
  mutex's event list, and the inherited priority is not kept: who holds nothing has
  its base priority, and `uxMutexesHeld` is right.
- `NeverTimesOutEarly`: a call that gives up has waited all its ticks, by a count
  that knows no wraps, however often it was woken for nothing.
- `GroupIsSound`: nobody is in the event list while the bits he waits for are set,
  although one `xEventGroupSetBits` releases several and clears for all at the end.
- `GivesUpForGoodReason`: a wait that ends without its bits had a timeout, waited
  all of it, and at its last look they were not set. (A setter may come between the
  timeout and that look.)
- `ImplementsBarrier`: round after round nobody leaves `xEventGroupSync` before
  everybody has come, also when a fast task is back before the slow ones left.
- `ImplementsTimerService`: each callback comes when its timer is due, counted from
  the moment the command was sent, once for each period; for a timer that is met
  late in the list, on the exchange of the lists, or by a late command.
- `SleepsThroughNothing`: while the timer task is blocked no command waits and no
  timer is due, though it decided to sleep from what it had seen before.
- `TimersAreSound`: with the lists, that `configASSERT( xResult )` holds: the
  restart of a late timer finds room in the queue.
- `HeapIsWhole`, `MemoryIsNotShared`, `FailsOnlyForWantOfRoom`: the blocks tile the
  heap and free neighbours are joined; what was given out is aligned, as large as
  asked for and overlaps nothing, header or memory; and no request fails that a
  free block could hold, sizes near the wrap of `size_t` included.
- `TablesAgree`: the ready table holds exactly the tasks that wait for nothing,
  sleep not and are not suspended, and the priority table names every task.
- `HighestReadyRuns`: with the scheduler unlocked the running task is the most
  urgent, unless it is just before `OS_Sched`: no service forgets it.
- `WaitListsAreExact`: a wait list holds exactly the tasks inside a pend that were
  neither served nor sent away; one that timed out stays until it runs.
- `NothingIsLost`: posts less takes are what is in the event plus what was handed to
  tasks that have not run since; nobody waits for an event that has something. A
  post that meets a waiter whose time is over is the interesting case.
- `LockedSchedulerStays`: every tick calls `task_switch`, also with the scheduler
  locked, and it must then "switch" to the running task.

### Bounds

| Bound | Value | Why it is enough |
|---|---|---|
| tasks | idle, `a` at 1, `b` at 2; in `Mutex` `b` at 3; a third one in `EventGroups` | a running task, one more and one less urgent, with priority changes to make two equal; the gap in `Mutex` is where an inversion would be; three make a setter release two |
| `TickMod` | 2 to 5 | delays of every length, also the longest, from every tick; the count wraps many times in every run |
| `OverflowMod` | 2 in `Mutex`, else 1 | `xNumOfOverflows` is read by `xTaskCheckForTimeOut` only; 2 values tell "wrapped" from "not" |
| waits in `Queue`, `Mailbox` | with `TickMod` 2 the wait of 1 is `portMAX_DELAY` | try once or wait for ever; waits that end, and tries again after a wake-up for nothing, are those of `Mutex` (2 of 4 ticks) and `EventGroups` (1 of 3) |
| mutexes | one | a second one multiplies the states of `Mutex` by more than ten; with waits of 1 tick of 3 the run took 3.1 million states and found the same. `OnlyHoldersInherit` is proved for any number |
| `MaxPended` | 1 or 2 | two ticks are replayed in one `xTaskResumeAll`, also across the wrap |
| `MaxSuspendDepth`, `MaxNesting` | 1 or 2 | the nested and the outermost case |
| `MaxNotify` | 1 | nothing, something; the value of a notification is not otherwise read |
| `uxLength`, `Item` | 2 or 1, with two items | room at both ends of the ring, empty, full; two items tell order, and the old from the new in a queue of one that is overwritten |
| `ReceiveModes` | both tasks receive; in `Mailbox` `a` also peeks and `b` only peeks | the waiters of both kinds in one list; the one receiver empties the queue between overwrites |
| `MaxLock` | 1 or 2, with `LockValues` 256 | an interrupt, or two, during a lock; the wrap of the count at 128 is far |
| two timers, `TickMod` 5, periods 2, 3 and 4 | | both lists in use, timers that expire together, a period of the whole range |
| `MaxBusy`, `MaxDelay` | 3 and 1, together below `TickMod` | the timer task is late by more than a period, commands are a tick old; a wrap of lateness would be lost by the code (section 8) |
| `QueueLength`, `Reserved` | 2 and 1 | the queue may be full to the place that the restart needs |
| heap of 33 bytes, header 2, alignment 2, `SizeMod` 128 | | up to seven blocks; the array is not aligned, at either end |
| uC/OS-II: three tasks, `Lowest` 5 | | priority 4 is free to change to, 0 is the mutex's; the mutex is for the most and the least urgent task, with the third between them |
| `MaxLock`, `Timeouts`, `Delays` of uC/OS-II | 1, {0, 1}, {1} | delays are counters, not times: 1 is the last tick of any; a longer one only adds ticks at which nothing is due |
| capacities | 2, 1, 1 | a semaphore that counts, a full mailbox and queue |
| `MaxTime` | 13 | three overflows of a word of 4 values, four periods |

The tasks of `Lists` and the items of `Queue` are interchangeable, and those runs use
their permutations as symmetry; their temporal properties are refinements in safety
form (`[][...]`), for which it is sound. The other runs use none: the tasks have
different priorities.

Deadlock is not checked in the runs of `Tasks` and of the modules on top of it. The
system may indeed come to a stop: when every task is blocked with a section open the
idle task has nothing to do and the timer is masked (section 7). The other runs do
check it.

## 4. Fairness

`QueueFairSpec` is used by `Mailbox`. It assumes:

- weak fairness of `QueueContinue(t)`, of `Continue(t)` and of a `Yield(t)` that ends
  a call: kernel code is straight-line, and the processor executes it while its
  task runs;
- strong fairness of `UserExitCritical(t)` and `UserResumeAll(t)`: an
  application leaves the sections and suspensions it enters, as the API
  requires; strong, because it can be switched out in between;
- strong fairness of `TimerTick`: the timer keeps counting and its interrupt
  stays pending, so a threshold that opens again and again lets it in.

Nothing is assumed of the application's other calls, of other interrupts, or
that a threshold opens at all.

## 5. The proofs

`tlapm` checks all of them. They hold for every finite set of tasks, queues and events,
every number of priorities, every width of the tick count and of a word,
every length of queue and size of heap, all depths of nesting and suspension, and every
choice of the calls the application makes, under two kinds of condition.

The named assumptions of the modules, which TLC evaluates on every run: `PortAssumption`,
`TasksAssumption`, `ListAssumption`, `TimerAssumption`, `QueueAssumption`,
`TaskListsAssumption`, `TimersAssumption`, `GroupAssumption`, `UcosAssumption`,
`UcosEventAssumption`, `HeapAssumption`, `HeapFits`. `TimersAssumption` has a condition on
time, `MaxBusy + MaxDelay <= TickMod - 1`: no command waits for a whole turn of the tick
count (section 8).

Hypotheses of single theorems, about how the application uses the kernel. They hold in the
configurations of section 3 that check the same property:

- `CountsFit` (wake-ups and types of queues): `MaxLock < LockValues \div 2`, so many calls from
  interrupts on a locked queue as an `int8_t` counts (section 7, 18).
- `NoMutex` (preemption with queues): there are queues and semaphores only, since with
  mutexes it is false (section 7, 7).
- `NewPriorities = {}`, `SharedByTwo`, `WaitsWithEmptyHands` (`HolderIsAsUrgent` of queues):
  the application changes no priorities, a mutex has two users, and nobody blocks on one
  mutex while he holds another. Without each of them it is false (section 7, 6, 9 and 19).
  The last two are demanded of the behaviour, not of the constants.
- `Discipline` (uC/OS-II): what section 8 says of `Ucos`. Without each part of it some
  property is false (section 7, 14 to 16).
- `WaitersAreLeftAlone` (timing and meeting in event groups): nobody suspends or deletes a
  task that waits for bits; one that is suspended and resumed gives up early.
- `OwnBits` (meeting): each member has a bit of its own that serves nothing else.
- `RoomForRestarts` (timers, except sleeping): the application leaves the command queue a
  place for each auto-reload timer, of which there are finitely many, and no interrupt or
  callback sends commands for one. A flooded queue fails `configASSERT( xResult )` (section
  7, 12). A command sent by an interrupt can meet a restart under way (section 7, 1), and
  then a timer has more messages in the queue than the invariant counts.

### The scheduler (`Tasks_proofs`)

**Types and program points** (`TypeCorrect`, `ControlCorrect`). `TypeOK` is not
inductive: that `DelayCurrentUntil` stays in the tick range needs that `arg[t]` is a tick
at that program point, that the suspension depth stays a natural number needs that a task
at `resumeAll` is running and the depth is not zero. `ControlInv` says these things;
`IInv == TypeOK /\ ControlInv` is inductive, with one lemma per action.

**Critical sections** (`NestingCorrect`, `SectionsAreMasked`). The inductive invariant is
`SInv`, `NestingIsSum` with `MaskFollowsNesting`; the first is about the cardinality of
the set of open sections, and every step opens one, closes one or leaves them
(`PortMoves`). `IInv` is needed to know that a task that exits has entered.

**Suspension** (`PendingWorkIsDone`, `SuspensionIsolates`). The point is that while pended
ticks are being replayed nothing else can happen (`OnlyReplay`): the task is inside a
section, so by `SectionsMaskInterrupts` nothing comes in, and at that program point it
makes no other call.

**Delays** (`NeverOverdue`, `WakesAtItsTime`). `DelayedAreNotDue` is inductive with
`IInv`. Every step either takes tasks out of the delayed lists at most, or puts one in for
a delay that is not zero, or is a tick (`ListMoves`); one lemma for each of the three. At
the wrap the delayed list must be empty, since it holds only wake times greater than the
largest tick: that is where the exchange is right.

**Preemption** (`PreemptionCorrect`, `SelectionCorrect`). `HighestPriorityRuns` is
inductive together with `TopBound`, that `uxTopReadyPriority` bounds the ready tasks: a
selection that starts below one would choose the wrong task. Steps are sorted into those
that make nobody ready (`Quiet`), those that switch from a bound (`SwitchChooses`), and
those that make a task ready and yield if it is urgent enough (`SectionKeeps`,
`NoSwitchKeeps`). `SelectionCorrect` adds `IdleInv`: the idle task makes no call but the
clean-up of deleted tasks and nobody may suspend or delete it.

**Notifications** (`NotificationsReachWaiters`). `NInv` adds `WaitsInSection` to
`BlockedWaitersAreNotified`: between the write of WAITING and the move to the delayed list
the task is inside its section, so no notification falls between the two.

**Leaving** (`BlockedTasksLeave`). `RInv` says of a running task that is in no ready list
that it is about to yield (`RunsOrLeaves`), that a delay follows at once
(`DelaysAtOnce`), and who is where (`NotifiedInWait`, `OnObjects`). Queues and event
groups need it: a task that looks at a queue again runs, so it is ready.

The steps that another module adds to the scheduler (`ObjectStep`: a task placed in an
event list, moved out of one, raised or lowered) keep
`KInv == PInv /\ RInv /\ DelayedAreNotDue`. So the theorems above hold of the scheduler
inside the composed modules as well (`SchedulerStaysCorrect` states it for event groups).

### Event groups (`EventGroups_proofs`)

**Waits** (`GroupCorrect`). `GInv == KInv /\ GroupTypes /\ GroupCalls /\
NobodyWaitsForSetBits`. `GroupCalls` says that what a call does between
`vTaskSuspendAll` and `xTaskResumeAll` has the scheduler to itself, that a task outside
has no item in the list, and that one between has waited; with it nobody's bits change
between the look at them and the move to the list.

**Time** (`NobodyGivesUpEarly`). `TimeInv` follows the ghost `due` of every wait: as long
as the task is delayed it is the distance from the tick count to its wake time plus the
ticks pended (`WaitsItsTicks`), so a wake-up by the tick comes when it is zero. The facts
on delays of `Tasks_proofs` are used across the wrap of the tick count.

**Meeting** (`SyncIsABarrier`). The mapping to `Barrier` is that of `EventGroups`.
`MeetingInv` says that the members' bits tell which of them have arrived and wait
(`BitsTell`), and that once all have, the bits are clear and everyone is free
(`AllAreFree`). Each step then maps to an arrival, a departure or a stutter.

### Queues (`Queue_proofs`)

`QInv == IInv /\ RInv /\ QueueTypes /\ WaitersInv /\ QueueCalls` is the common ground.
`WaitersInv` ties the sequences of waiters to the tasks' `eventOf`, without repetition;
`QueueCalls` says at which program points a task holds a lock or a section, so that two
tasks are never inside one queue's unlock loop.

**Time** (`CallsNeverTimeOutEarly`). What the ghost of elapsed ticks and the pair of
overflow count and time on entering say of each other, at every program point of the
call, for every width of the tick count.

**Inheritance** (`OnlyHoldersInherit`). `HoldersInv`: `uxMutexesHeld` is the cardinality
of the set of mutexes that name the task, and a task above its base priority has one.

**Inversion** (`HolderOfASharedMutex`). In `UrgentInv` everyone in the event list of a
mutex is covered, by a holder as urgent as himself; hence a mutex that nobody holds has an
empty event list, and who takes it has nobody to cover. A give takes one waiter off, and
there is no other, since the giver is the other user. A task goes back to its base priority
only with its last mutex. A task is raised only as a holder, and a holder is in no event
list of another mutex, so nobody loses his cover by being raised. Between `TestQueue` and
the placement the scheduler is suspended and no interrupt gives a mutex, so the holder that
the task has raised is still the holder when it enters the list.

**Order** (`QueuesAreFifos`). `RingInv` says that the items from `pcReadFrom` on,
`uxMessagesWaiting` of them and wrapped at the length, end where `pcWriteTo` stands. The
map to `BoundedFifo` reads them off; every action maps to a send of the very item that the
call brought, a receive, an overwrite, a reset or a stutter. It needs facts on the remainder and no induction.

**Wake-ups** (`ReceiversAreWoken`, `SendersAreWoken`). For every side of every queue that
never loses a wake-up (`Reliable`), `WakeInv` has a counting argument: the stock that
could serve a waiter is at most those who will look at the queue again before they block,
plus the wake-ups that the lock still counts (`Enough`). With one more fact about a task
between its test of the queue and its block (`WaiterOK`, `TestedOK`) that gives both
properties: the classic hazard of queues, a waiter placed after the event that it waits
for. An unlock loop takes the count down by waking or by finding nobody; `LocksFit` is
where `CountsFit` is used.

**Preemption** (`QueuesStaySound`). `HighestPriorityRuns` with `TopBound`, carried through
the steps of queues by the lemmas of `Tasks_proofs`: a section that wakes somebody and
yields if he is more urgent (`WakingSection`), an interrupt that switches or leaves a
switch pending, an unlock that only adds to `xPendingReadyList`, and steps that make nobody
ready. The types of `QueueTypeOK` follow from `QInv`, `HoldersInv` and `LocksFit`; the
length of a list of waiters is the number of tasks in it because none is in it twice.

### uC/OS-II (`Ucos_proofs`)

`UcosInv` has the types, what `OSPrioCur` and `OSPrioHighRdy` are at each program point
(`CurInv`), how deletion, creation and pending leave the tables half done inside their
sections (`DeleteInv`, `CreateInv`, `PendInv`), the wait lists (`WaitInv`) and mutexes
(`MutexInv`), and `HighestReadyRuns`. It is inductive under `Discipline` and gives
`TablesAlwaysAgree`, `HighestReadyAlwaysRuns`, `LockedSchedulerAlwaysStays`,
`WaitListsAreAlwaysExact` and `HolderIsAlwaysAsUrgent`. `NothingIsEverLost` needs
`CreditInv` as well: what was posted is in the event or with tasks that a post served
and that have not noticed yet.

### Heap (`Heap4_proofs`)

`HInv` says that the blocks tile the array (`Whole`), that the free list has exactly the
free ones in the order of addresses (`Lists`), no two of them neighbours (`Apart`), that
`xFreeBytesRemaining` is the number of bytes in free blocks, counted as a set of
addresses, and that what was given out starts behind a header of an allocated block
(`GivenOK`). Lemmas on splitting a block and joining two give the four cases of
`prvInsertBlockIntoFreeList` (between, joined with the one before, the one behind, both),
then `pvPortMalloc` and `vPortFree`, then `HeapStaysWhole`, `MemoryIsNeverShared`,
`FailsOnlyForRoom`.

### Software timers (`Timers_proofs`)

**Sleep** (`TimersSleepSafely`, without hypothesis). `TimeInv` is inductive. `ListsInv`:
the two lists are sorted, without repetition and disjoint. `MessagesInv`: the tick that a
start carries and the age of the command add up to the real time, give or take one turn of
the count. `TaskInv`: what the timer task read (`xNextExpireTime`, whether the list was
empty, the sampled time) is still so at every point where it relies on it. `DueInv`: no
timer in a list is later than the timer task was kept away plus the age of a command, and
when it is blocked none is due before the wait ends. `ClockInv` is what makes the arithmetic
of two lists right: the time since the last sample is below one turn as long as a timer
runs. `NextTime` has one lemma for each action; those that put a timer into a list go
through lemmas about a sorted insertion at the place that the loop finds.

**Assertion and deletion** (`TimersStaySound`). `configASSERT( xResult )` is about a
number of entries in a queue and `DeletedIsForgotten` about what is in it, so the invariant
counts: `RoomInv` bounds the entries plus the auto-reload timers that are in a list or in
hand (each may need an entry for its restart) by the length of the queue. `OneMessage` says
that an auto-reload timer has one message at most and a restart only while it is in no list,
`ExistInv` that no message follows a delete. Both use `RoomForRestarts`.

**Service** (`TimersImplementService`). With `TimeInv` and `ReloadInv`, each action maps
to a step of `TimerService`: the tick lowers every `due` by one, in the lists and in
restarts alike; `Receive` of a command of the application is `TakeUp`, that of a restart
changes nothing; `Handle` is `Start`, `ChangePeriod` or `Stop`; an expiry and one pass of
the loop of `prvSwitchTimerLists` are `Expire`. A timer that is due again while the task
catches up goes from the list into a restart with the same `due`, which is where the three
ways of catching up meet. The exchange of the lists keeps every `due`, because the clock
that they refer to is counted from the wrap before the last sample.

### Lists (`TaskLists_proofs`)

For any finite set of items and of tasks. A list is described by its pointers
(`IsList`), so that the lemmas serve the ready list, the delayed list and `List`.

**Rings** (`RingCorrect`, `ListsStayWhole`). "One ring" is stated by closed sets: every set
of nodes that has the end marker and is closed under `pxNext` is the whole ring. In that
form an insertion and a removal keep it (`RingLinked`, `RingUnlinked`) without an induction
over a path. The loop of `vListInsert` is stated in the same way (`Passed`), and
`LoopStops` shows that it stops, in the list, between values that are not greater and
greater ones.

**Arrival** (`DelayedListIsFair`). `Fair` compares neighbours only, so a removal joins two
pairs by transitivity (`BeforeIsTransitive`), and a new item comes behind those of its
value because the loop stops before a *greater* one. `Arrivals` says that the history has
every item of the list once.

**Turns** (`ReadyListServesInTurn`). `Turn` says of a sequence that it has every task of
the ready list once, that each is what a selection from the one before returns, and that
the last is the one at the index or, with the index at the end marker, the one before it.
There is one such sequence (`OrderIs`). `TurnServed`, `TurnJoined` and `TurnLeft` give the
sequence after each of the operations, so that `Order` moves as `RoundRobin` allows. The
case that makes the proof worth its length is a removal of the item at the index: the index
steps back, possibly to the end marker, and the next selection must still be the task whose
turn it was.

### Machine timer (`MachineTimer_proofs`)

`ReadCorrect`, `TicksCorrect`: for every width of a word and every period. `ReaderInv` says
what the loaded halves bound, `TickInv` that the comparator is the base plus the ticks times
the period.

## 6. What is only model-checked

- Liveness (`LockedQueueIsUnlocked`, `PutOffWorkIsDone`): TLAPS does not
  reason about fairness or ENABLED here.
- Every invariant and action property of the passing runs has a theorem. That of
  `HolderIsAsUrgent` of `Queue` has three hypotheses besides `CountsFit` (section 5), without
  which it is false: more users of a mutex, or nested ones, are not covered by it.
- `StopIsFinal` of `Timers` is false (section 7, 1).

## 7. Where the code and what is said of it disagree

A run shows the first; the others were met while the modules were written, several of
them by TLC with a property in its stronger form.

1. `include/timers.h:561` says "Stopping a timer ensures the timer is not in the
   active state." A timer that is late is started again by a command that the timer
   task sends to its own queue (`timers.c:519`). A stop that an interrupt or a
   callback has sent before is handled first, and then the restart: the stopped
   timer is active again (`TimerStop`).
2. `port.c:96` says "Each task maintains its own interrupt status in the critical
   nesting variable." There is one `uxCriticalNesting` for all tasks, and neither
   it nor `mth` is switched: a task that is in no section runs masked because
   another was switched out inside one. `NestingIsSum` is what holds instead.
3. `include/task.h:959` says of `vTaskSuspend` that a suspended task "will never
   get any microcontroller processing time". `vTaskSuspend` leaves `ucNotifyState`
   at WAITING, and a notification makes the task ready.
4. `include/task.h:653` says of `vTaskDelay` "Delay a task for a given number of
   ticks." `xTaskResumeAll` yields inside its section, so the task that comes next
   runs with the timer masked; if that is the idle task, no tick comes any more
   and no delay ends. In the same way a task that blocks in `ulTaskNotifyTake` or
   `xTaskNotifyWait` masks the tick and the interrupts up to the API level until
   another task lets it run again. `tasks.c:4214` says "All ports are written to
   allow a yield in a critical section".
5. `tasks.c:185` says that tasks of one priority "get an equal share of the
   processor time." A task that leaves its ready list and rejoins it before the
   next selection is selected again ahead of a peer that was ready all the time.
6. `tasks.c:2827` says that a task is placed in an event list "in priority order
   so the highest priority task is the first to be woken by the event."
   `vTaskPrioritySet` (`tasks.c:1510`) and inheritance write a new value into the
   item where it stands, so the order is lost when a waiter's priority changes.
7. `tasks.c:3827` says that after the inherited priority is gone "a context switch
   should occur when the last mutex is returned whether a task is waiting on it or
   not". `xQueueGenericSend` looks at that result (`xYieldRequired`) only when nobody
   waits. If somebody does, and is no more urgent than the giver, there is no switch,
   though a third task between the giver's base priority and the inherited one (whose
   waiter has timed out) may be ready: it waits for the next tick.
8. `xQueueReset` wakes one sender (`queue.c:303`) though there is room for several.
   And a task that was woken for an item and is suspended or deleted before it takes
   it leaves the item to nobody: the others stay blocked until the next send.
9. A task that gives up waiting for a mutex leaves the holder at the inherited
   priority (`tasks.c:3708`), until the mutex is given. Inheritance is not passed on
   to a task that the holder waits for.
10. `xTaskCheckForTimeOut` is never early (`NeverTimesOutEarly`); it is late by a whole
    wrap for a task that was kept from running for one.
11. `vTaskMissedYield` in `prvUnlockQueue` has no effect of its own: with the scheduler
    suspended, as it is there, `xTaskRemoveFromEventList` moves the task to
    `xPendingReadyList` and `xTaskResumeAll` compares priorities again.
12. Timers: when an application fills the command queue to its last place and a timer
    is late, `configASSERT( xResult )` fails and loops with interrupts disabled. A
    steady flood of commands keeps the timer task in its inner loop
    (`timers.c:731`), and timers do not expire meanwhile.
13. `vEventGroupDelete` frees the group of a waiter that has timed out and has yet to
    look at it again (`event_groups.c:433`).
14. uC/OS-II, `os_task.c:126`: `OSTaskChangePrio` of another task that was just served,
    and has not run since, enters it again into the wait list that its
    `OSTCBEventPtr` still names. The next post then goes to a task that does not wait
    (`ChangedByOthers = {middle}` in `Ucos.cfg` shows it in seven steps), though
    `OS_EventTaskRdy` "is used to ready a task that was waiting for an event to occur"
    (`os_core.c:1004`). Likewise a task that was given the mutex while it was suspended
    is raised, on the next `OSMutexPend`, in that mutex's own wait list
    (`os_mutex.c:484`).
15. uC/OS-II, `os_mutex.c:620`: when the last waiter has gone (timeout, deletion) or the
    holder blocked meanwhile, `OSMutexPost` lowers the holder and returns without
    `OS_Sched`: a more urgent ready task waits for the next tick
    (`HolderMayBlock = TRUE` shows it).
16. uC/OS-II: changing one's priority with the scheduler locked leaves `OSPrioCur` stale
    until the next tick. An interrupt other than the tick that posts would let the next
    tick switch with the scheduler locked; the repository has no such handler.
17. `port.c:274`: 32768 / 200 is 163 after rounding, so 200 ticks are a little less than
    a second. `eclic_get_nlbits` (`n200_func.c:211`) has no return statement.
18. `queue.c:1508` adds one to a count of type `int8_t` for every send from an interrupt
    while the queue is locked. The 128th makes it negative, and `prvUnlockQueue`, which
    counts down to zero, then wakes nobody: the tasks that wait stay blocked though there
    are items. The theorems on wake-ups say so in their hypothesis `CountsFit`.
19. A mutex is given with the scheduler suspended, and its giver takes it again at once.
    The task it woke is on `xPendingReadyList`. A third one, more urgent than the giver, may
    be left in the event list, and nothing raises the holder, who inherits only when a task
    comes to wait (`queue.c:1386`). TLC shows it with three users of one mutex.

## 8. Assumptions of the models

- Interrupts that call the kernel have the tick's level or wait behind it. The
  tick handler sets MIE and does not raise `mth`, so an interrupt of a higher level
  that called the kernel could come in while the tick changes the lists; no
  handler of `Demo/main.c` does. Interrupts above the mask (those at the
  highest level, whose control byte 0x7F exceeds 0x60) are not kept out by critical
  sections and must not call the kernel.
- The save and restore of registers in `portasm.S` and its twin of uC/OS-II is
  faithful. There `task_switch` runs in the ECALL, inside the section of `OS_Sched`;
  nothing but its `OS_EXIT_CRITICAL` is left when the task comes back.
- The configuration of `Demo/FreeRTOSConfig.h`: preemption, no co-routines, no
  tickless idle, no queue sets, no recursive mutexes, no `xTaskAbortDelay`,
  `configIDLE_SHOULD_YIELD` 0, generic task selection. The hooks of the
  demonstration change no kernel state. uC/OS-II: `OS_ARG_CHK_EN` 0, priorities up
  to 63, the hooks compiled in.
- An application calls functions as the API requires: blocking functions only
  with the scheduler running, kernel calls that may switch outside its own
  critical sections, notifications only to tasks that exist, a mutex given by its
  holder.
- `mtime` counts on its own and a load of a word is atomic.
- `Queue`: no task is suspended or deleted inside a queue call, and only one sends
  where there is a reset (section 7, 8). Tasks and queues are finitely many, and two
  queues share no event list.
- `ObjectLabels`: the program points of the code of queues and event groups are apart
  from those of the scheduler.
- `Heap4`: `HeapFits`, that the array has room for a block behind its alignment and in
  front of the end marker, and is smaller than the bit that marks a block as allocated.
  `prvHeapInit` relies on both.
- `Timers`: commands for auto-reload timers come from tasks that the timer task
  preempts, so never between its lateness and its restart (section 7, 1); the
  application leaves `Reserved` places of the queue; the timer task is not kept from
  running for a whole wrap of the tick count.
- `Ucos`: tasks change their own priority, not that of others, with the scheduler
  unlocked and holding no mutex; a holder neither sleeps nor waits, and is not
  suspended or deleted; the task that is suspended, deleted or changes its priority
  does not use the mutex (section 7, 14 to 16); a task blocks, suspends or deletes
  itself only with the scheduler unlocked, as the services check or require.

## 9. What is not modelled

- `queue.c`: creation and deletion, queue sets, recursive mutexes, the registry;
  `tasks.c`: `vTaskEndScheduler` (the port stops), queries that change nothing
  (`uxTaskGetSystemState`, `eTaskGetState`, names, statistics), trace macros, stack
  checks; `event_groups.c`: `vEventGroupDelete`, and the `FromISR` functions, which
  have the timer task make the calls that are modelled.
- uC/OS-II: event flags (`os_flag.c`), timers (`os_tmr.c`), memory partitions
  (`os_mem.c`); creation and deletion of events, pending on several events,
  `OS_POST_OPT_NO_SCHED`, statistics, `OSTimeDlyHMSM` (a conversion to `OSTimeDly`),
  the ring pointers of `os_q.c`.
- `heap_1.c` to `heap_3.c` and `heap_5.c` (no Makefile builds them), `croutine.c`
  (compiles to nothing), the upstream common demonstration and network code
  (lwIP, uIP, FreeTCPIP: most of the repository's lines, vendored and not built).
- Board headers, linker scripts, stubs, single register writes of `n200_func.c`,
  start-up code, the examples and benchmarks: straight-line I/O without a protocol.
- The ratio of ticks to real time.

## 10. The plan

Done: the modules of section 2 and the proofs of section 5. Next, in this order:

1. Models of `os_flag.c` (waits on all or any of several bits, with consumption),
   `os_tmr.c` (the wheel) and `os_mem.c`.
2. Two mutexes, and three tasks on one, in `Queue`, as far as section 7 lets properties
   hold; several senders.

## Running

    tlc -config Notify.cfg MCTasks             (and Lifecycle)
    tlc -config Lists.cfg MCTaskLists
    tlc -config TimerRead.cfg MachineTimer
    tlc -config Queue.cfg MCQueue              (and Mailbox, Mutex)
    tlc -config EventGroups.cfg MCEventGroups
    tlc -config Timers.cfg MCTimers            (and TimerStop)
    tlc -config Heap4.cfg MCHeap4
    tlc -config Ucos.cfg MCUcos
    tlapm Tasks_proofs.tla                     (and the other *_proofs;
                                                Queue_proofs takes ten to fifteen minutes)
