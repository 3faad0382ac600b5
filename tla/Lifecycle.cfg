\* Creation, deletion, suspension, resumption and changes of priority in every state, with delays
\* of every length and periodic delays across the wrap of the tick count.
SPECIFICATION Spec
CONSTANTS
    idle = idle
    a = a
    b = b
    Idle = idle
    Task = {idle, a, b}
    MaxNesting = 1
    MaxPriority = 2
    TickMod = 3
    OverflowMod = 1
    InitialPriority <- StepPriority
    Unborn = {b}
    MaxPended = 2
    MaxSuspendDepth = 1
    MaxNotify = 1
    Delays = {1, 2}
    Periods = {2}
    NotifyWaits = {}
    NotifyActions = {}
    Notifiable = {}
    IsrNotifiable = {}
    Suspendable = {b}
    IsrResumable = {b}
    Deletable = {b}
    NewPriorities = {1, 2}
    ObjectLists = {}
    ObjectLabels = {}
INVARIANTS
    TypeOK
    HighestPriorityRuns
    SelectionFindsTask
    DelayedAreNotDue
    NothingLeftPending
PROPERTIES
    WakesOnTheTick
CHECK_DEADLOCK FALSE
