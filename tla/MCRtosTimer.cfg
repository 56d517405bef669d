SPECIFICATION RtosFairSpec
CONSTANTS
    SlotCount = 2
    BusCap = 3
    TimerIds = {0, 1, 2}
    Repeats <- MCRepeats
    FreedReads = {0}
    MayFail = TRUE
    SharedIds = FALSE
INVARIANTS
    RtosTypeOK
    ExpiredHasTick
    DroppedIsStuck
    TickPointsToOwner
PROPERTIES
    StaleTickHarmless
    OneShotEnds
CHECK_DEADLOCK TRUE
