\* A periodic timer that an interrupt stops.
SPECIFICATION Spec
CONSTANTS
    periodic = periodic
    once = once
    Off = Off
    None = None
    Timer = {periodic}
    AutoReload = {periodic}
    InitialPeriod <- Three
    Periods = {}
    TickMod = 5
    QueueLength = 2
    Reserved = 1
    IsrTimers = {periodic}
    MaxDelay = 0
    MaxBusy = 3
INVARIANTS
    StopIsFinal
