\* Items sent and received, from tasks and interrupts, at both ends; a reset.
SPECIFICATION QueueSpec
CONSTANTS
    idle = idle
    a = a
    b = b
    queue = queue
    qSend = qSend
    qReceive = qReceive
    Idle = idle
    Task = {idle, a, b}
    MaxNesting = 1
    MaxPriority = 2
    TickMod = 2
    OverflowMod = 1
    InitialPriority <- StepPriority
    Unborn = {}
    MaxPended = 1
    MaxSuspendDepth = 1
    MaxNotify = 1
    Delays = {}
    Periods = {}
    NotifyWaits = {}
    NotifyActions = {}
    Notifiable = {}
    IsrNotifiable = {}
    Suspendable = {}
    IsrResumable = {}
    Deletable = {}
    NewPriorities = {}
    ObjectLists = {qSend, qReceive}
    ObjectLabels = {"suspendAll", "lockQueue", "check", "test", "inherit", "place",
                    "unlockTx", "unlockRx"}
    Queue = {queue}
    Sized = {queue}
    Mutex = {}
    uxLength <- TwoItems
    Item = {m, n}
    xTasksWaitingToSend <- SendList
    xTasksWaitingToReceive <- ReceiveList
    SendWaits = {0, 1}
    ReceiveWaits = {0, 1}
    CopyPositions = {"queueSEND_TO_BACK", "queueSEND_TO_FRONT"}
    ReceiveModes <- BothReceive
    SendingTasks = {a}
    IsrSends = {queue}
    IsrReceives = {queue}
    Resettable = {queue}
    LockValues = 256
    MaxLock = 2
INVARIANTS
    QueueIsSound
    NobodyWaitsForAnItem
    NobodyWaitsForRoom
PROPERTIES
    ImplementsFifo
CHECK_DEADLOCK FALSE
SYMMETRY ItemSymmetry
