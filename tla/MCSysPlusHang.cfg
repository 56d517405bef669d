SPECIFICATION FairSpec
CONSTANTS
    Task = {a}
    Name = {n}
    Topic = {n}
    Kinds = {x, y}
    AnyKind = AnyKind
    MaxSent = 3
    TimerFails = FALSE
PROPERTIES
    WaitMsgEnds
CHECK_DEADLOCK FALSE
