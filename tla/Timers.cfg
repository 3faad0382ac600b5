\* A periodic and a one-shot timer across wraps of the tick count.
SPECIFICATION Spec
CONSTANTS
    periodic = periodic
    once = once
    Off = Off
    None = None
    Timer = {periodic, once}
    AutoReload = {periodic}
    InitialPeriod <- TwoAndThree
    Periods = {4}
    TickMod = 5
    QueueLength = 2
    Reserved = 1
    IsrTimers = {once}
    MaxDelay = 1
    MaxBusy = 3
INVARIANTS
    TimersAreSound
    SleepsThroughNothing
PROPERTIES
    ImplementsTimerService
