------------------------------- MODULE Port -------------------------------
(***************************************************************************)
(* The N200 port layer of FreeRTOS: critical sections and the ECLIC        *)
(* interrupt threshold (portable/GCC/N200/port.c).                         *)
(*                                                                         *)
(* The port keeps one nesting counter for the whole system.  It is neither *)
(* saved nor restored by the context switch of portasm.S, and neither is   *)
(* the threshold register mth; a task that is switched out inside a        *)
(* critical section therefore leaves both to the task that runs next.      *)
(***************************************************************************)
EXTENDS Naturals, FiniteSets

CONSTANTS
    Task,        \* every task control block the system can ever use
    MaxNesting   \* how deep the application nests taskENTER_CRITICAL

ASSUME PortAssumption ==
    /\ IsFiniteSet(Task)
    /\ MaxNesting \in Nat \ {0}

VARIABLES
    uxCriticalNesting,  \* the global counter of port.c
    mth,                \* the ECLIC threshold: interrupts of a level at or below it wait
    held                \* history: how many sections each task entered and has not left

portVars == <<uxCriticalNesting, mth, held>>

\* configMAX_SYSCALL_INTERRUPT_PRIORITY << 4, above the level of the machine timer
SyscallMask == 96

\* The timer and the interrupts that may call the kernel are let through.
InterruptsEnabled == mth = 0

(***************************************************************************)
(* xPortStartScheduler runs vPortSetup, which clears the counter.  The     *)
(* threshold still has the value that the xTaskCreate calls before the     *)
(* start left: their vPortExitCritical never counts down to zero from      *)
(* 0xaaaaaaaa, so the first task starts with the timer masked.             *)
(***************************************************************************)
vPortSetup ==
    /\ uxCriticalNesting = 0
    /\ mth = SyscallMask
    /\ held = [t \in Task |-> 0]

vPortEnterCritical(t) ==
    /\ mth' = SyscallMask
    /\ uxCriticalNesting' = uxCriticalNesting + 1
    /\ held' = [held EXCEPT ![t] = @ + 1]

\* Variant: leaves every section at once.
vPortExitAll(t) ==
    /\ uxCriticalNesting > 0
    /\ uxCriticalNesting' = 0
    /\ mth' = 0
    /\ held' = [held EXCEPT ![t] = @ - 1]

vPortExitCritical(t) ==
    /\ uxCriticalNesting > 0
    /\ uxCriticalNesting' = uxCriticalNesting - 1
    /\ mth' = IF uxCriticalNesting = 1 THEN 0 ELSE mth
    /\ held' = [held EXCEPT ![t] = @ - 1]

\* Variant: opens the threshold whatever the counter says.
UnmaskingSection ==
    /\ mth' = 0
    /\ UNCHANGED <<uxCriticalNesting, held>>

\* An enter and the matching exit with no context switch between them.
WholeCriticalSection ==
    /\ mth' = IF uxCriticalNesting = 0 THEN 0 ELSE SyscallMask
    /\ UNCHANGED <<uxCriticalNesting, held>>

\* xPortSetInterruptMask and vPortClearInterruptMask around an interrupt-safe call.
InterruptMaskSection ==
    /\ InterruptsEnabled
    /\ UNCHANGED portVars

\* The critical sections that are open, of every task, running or not.
OpenSections == {s \in Task \X (1 .. MaxNesting) : s[2] <= held[s[1]]}

PortTypeOK ==
    /\ uxCriticalNesting \in Nat
    /\ mth \in {0, SyscallMask}
    /\ held \in [Task -> 0 .. MaxNesting]
===========================================================================
