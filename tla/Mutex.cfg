\* A mutex, with a timeout that may pass while the waiter tries again.
SPECIFICATION QueueSpec
CONSTANTS
    idle = idle
    a = a
    b = b
    queue = queue
    qSend = qSend
    qReceive = qReceive
    Idle = idle
    Task = {idle, a, b}
    MaxNesting = 1
    MaxPriority = 3
    TickMod = 4
    OverflowMod = 2
    InitialPriority <- WidePriority
    Unborn = {}
    MaxPended = 1
    MaxSuspendDepth = 1
    MaxNotify = 1
    Delays = {1}
    Periods = {}
    NotifyWaits = {}
    NotifyActions = {}
    Notifiable = {}
    IsrNotifiable = {}
    Suspendable = {}
    IsrResumable = {}
    Deletable = {}
    NewPriorities = {}
    ObjectLists = {qSend, qReceive}
    ObjectLabels = {"suspendAll", "lockQueue", "check", "test", "inherit", "place",
                    "unlockTx", "unlockRx"}
    Queue = {queue}
    Sized = {}
    Mutex = {queue}
    uxLength <- OneItem
    Item = {}
    xTasksWaitingToSend <- SendList
    xTasksWaitingToReceive <- ReceiveList
    SendWaits = {0}
    ReceiveWaits = {2}
    CopyPositions = {"queueSEND_TO_BACK"}
    ReceiveModes <- BothReceive
    SendingTasks = {a, b}
    IsrSends = {}
    IsrReceives = {}
    Resettable = {}
    LockValues = 256
    MaxLock = 2
INVARIANTS
    HolderIsAsUrgent
    InheritedOnlyByHolders
    NeverTimesOutEarly
CHECK_DEADLOCK FALSE
