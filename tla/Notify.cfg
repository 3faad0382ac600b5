\* Notifications between two tasks and from interrupts, with and without a timeout.
SPECIFICATION Spec
CONSTANTS
    idle = idle
    a = a
    b = b
    Idle = idle
    Task = {idle, a, b}
    MaxNesting = 2
    MaxPriority = 2
    TickMod = 5
    OverflowMod = 1
    InitialPriority <- StepPriority
    Unborn = {}
    MaxPended = 1
    MaxSuspendDepth = 1
    MaxNotify = 1
    Delays = {2}
    Periods = {}
    NotifyWaits = {0, 2, 4}
    NotifyActions = {"eNoAction", "eSetBits", "eIncrement", "eSetValueWithOverwrite", "eSetValueWithoutOverwrite"}
    Notifiable = {a, b}
    IsrNotifiable = {a, b}
    Suspendable = {}
    IsrResumable = {}
    Deletable = {}
    NewPriorities = {}
    ObjectLists = {}
    ObjectLabels = {}
INVARIANTS
    NestingIsSum
    SectionsMaskInterrupts
    BlockedWaitersAreNotified
PROPERTIES
    SuspendedSchedulerIsolates
CHECK_DEADLOCK FALSE
