SPECIFICATION FairSpec
CONSTANTS
    Tasks = {t1}
    Fns = {f1}
    Topics = {m1}
    Args = {a1}
    Nil = Nil
    Main = Main
    AssertFn = AssertFn
    NoArg = NoArg
    TASK_TIMER_ID_MAX = 2
    MSG_TIMER_ID_MAX = 4
    MaxMessages = 1
    SlotCount = 2
    BusCap = 2
    TimerIds <- MCTimerIds
    Repeats <- NoRepeats
    FreedReads = {0}
    MayFail = FALSE
    SharedIds = FALSE
PROPERTIES
    TimedWaitEnds
    MessageWakes
    FailureRestarts
CHECK_DEADLOCK TRUE
