SPECIFICATION FairSpec
CONSTANTS
    Task = {a, b}
    Name = {n}
    Topic = {n}
    Kinds = {x, y}
    AnyKind = AnyKind
    MaxSent = 3
    TimerFails = TRUE
INVARIANTS
    QueuesAreExact
    AnyMessageWakes
    TimeoutIsOfThisWait
PROPERTIES
    WaitAnyEnds
CHECK_DEADLOCK FALSE
