\* Reads of the timer across overflows of its low word, and late ticks.
SPECIFICATION Spec
CONSTANTS
    WORD = 4
    PERIOD = 3
    MaxTime = 13
INVARIANTS
    ReadDuringTheCall
    TicksCountPeriods
