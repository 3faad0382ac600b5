\* Tasks that set, clear and wait for bits, and meet.
SPECIFICATION GroupSpec
CONSTANTS
    idle = idle
    a = a
    b = b
    third = third
    group = group
    ready = ready
    steady = steady
    here = here
    there = there
    yonder = yonder
    Idle = idle
    Task = {idle, a, b, third}
    MaxNesting = 1
    MaxPriority = 2
    TickMod = 3
    OverflowMod = 1
    InitialPriority <- TrioPriority
    Unborn = {}
    MaxPended = 1
    MaxSuspendDepth = 1
    MaxNotify = 1
    Delays = {}
    Periods = {}
    NotifyWaits = {}
    NotifyActions = {}
    Notifiable = {}
    IsrNotifiable = {}
    Suspendable = {}
    IsrResumable = {}
    Deletable = {}
    NewPriorities = {}
    ObjectLists = {group}
    ObjectLabels = {"setBits", "testBits", "syncSet", "syncTest"}
    Group = group
    Bit = {ready, steady, here, there, yonder}
    BitsToSet = {{ready}, {ready, steady}}
    BitsToClear = {{ready, steady}}
    BitsToWaitFor = {{ready, steady}}
    BitWaits = {1}
    Member = {a, b, third}
    SyncBit <- TrioBits
    SettingTasks = {b}
    WaitingTasks = {a, third}
INVARIANTS
    GroupIsSound
PROPERTIES
    GivesUpForGoodReason
    ImplementsBarrier
CHECK_DEADLOCK FALSE
