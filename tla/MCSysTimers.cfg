SPECIFICATION Spec
CONSTANTS
    Tasks = {}
    Fns = {f1}
    Topics = {}
    Args = {a1}
    Nil = Nil
    Main = Main
    AssertFn = AssertFn
    NoArg = NoArg
    TASK_TIMER_ID_MAX = 1
    MSG_TIMER_ID_MAX = 5
    MaxMessages = 1
    SlotCount = 2
    BusCap = 2
    TimerIds <- MCTimerIds
    Repeats <- MCRepeats
    FreedReads = {0}
    MayFail = FALSE
    SharedIds = FALSE
INVARIANTS
    TimersBooked
PROPERTIES
    StopStops
CHECK_DEADLOCK TRUE
