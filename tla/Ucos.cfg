\* Three tasks with a semaphore, a mailbox, a queue and a mutex.
SPECIFICATION UcosSpec
CONSTANTS
    idle = idle
    urgent = urgent
    middle = middle
    late = late
    sem = sem
    mbox = mbox
    queue = queue
    mutex = mutex
    NoTask = NoTask
    Reserved = Reserved
    Task = {idle, urgent, middle, late}
    Idle = idle
    Lowest = 5
    FirstPrio <- StartPrio
    Event = {sem, mbox, queue, mutex}
    Kind <- Kinds
    Pip <- Pips
    Capacity <- Capacities
    MaxLock = 1
    Delays = {1}
    Deletable = {middle}
    Suspendable = {middle}
    Changeable = {middle}
    ChangedByOthers = {}
    NewPrios = {2, 4}
    HolderMayBlock = FALSE
    Timeouts = {0, 1}
    Pends <- Waits
    TickPosts = {sem}
    Counts = {0}
INVARIANTS
    TablesAgree
    HighestReadyRuns
    WaitListsAreExact
    NothingIsLost
    HolderIsAsUrgent
PROPERTIES
    LockedSchedulerStays
