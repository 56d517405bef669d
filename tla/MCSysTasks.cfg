SPECIFICATION Spec
CONSTANTS
    Tasks = {t1, t2}
    Fns = {f1}
    Topics = {m1}
    Args = {a1}
    Nil = Nil
    Main = Main
    AssertFn = AssertFn
    NoArg = NoArg
    TASK_TIMER_ID_MAX = 3
    MSG_TIMER_ID_MAX = 4
    MaxMessages = 1
    SlotCount = 2
    BusCap = 2
    TimerIds <- MCTimerIds
    Repeats <- NoRepeats
    FreedReads = {0}
    MayFail = TRUE
    SharedIds = FALSE
SYMMETRY Symmetry
INVARIANTS
    WaitsBooked
PROPERTIES
    WakesForCause
    KeepsPromise
CHECK_DEADLOCK TRUE
