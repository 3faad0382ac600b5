\* A queue of one item that is overwritten, under fairness.
SPECIFICATION QueueFairSpec
CONSTANTS
    idle = idle
    a = a
    b = b
    queue = queue
    qSend = qSend
    qReceive = qReceive
    Idle = idle
    Task = {idle, a, b}
    MaxNesting = 1
    MaxPriority = 2
    TickMod = 2
    OverflowMod = 1
    InitialPriority <- StepPriority
    Unborn = {}
    MaxPended = 1
    MaxSuspendDepth = 1
    MaxNotify = 1
    Delays = {}
    Periods = {}
    NotifyWaits = {}
    NotifyActions = {}
    Notifiable = {}
    IsrNotifiable = {}
    Suspendable = {}
    IsrResumable = {}
    Deletable = {}
    NewPriorities = {}
    ObjectLists = {qSend, qReceive}
    ObjectLabels = {"suspendAll", "lockQueue", "check", "test", "inherit", "place",
                    "unlockTx", "unlockRx"}
    Queue = {queue}
    Sized = {queue}
    Mutex = {}
    uxLength <- OneItem
    Item = {m, n}
    xTasksWaitingToSend <- SendList
    xTasksWaitingToReceive <- ReceiveList
    SendWaits = {0}
    ReceiveWaits = {1}
    CopyPositions = {"queueOVERWRITE"}
    ReceiveModes <- OneReceivesBothPeek
    SendingTasks = {a, b}
    IsrSends = {queue}
    IsrReceives = {}
    Resettable = {}
    LockValues = 256
    MaxLock = 1
PROPERTIES
    ImplementsFifo
    LockedQueueIsUnlocked
    PutOffWorkIsDone
CHECK_DEADLOCK FALSE
