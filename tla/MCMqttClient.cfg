SPECIFICATION FairSpec
CONSTANTS
    QUEUE_LENGTH = 2
    BUF_LEN_MAX = 4
    MaxCalls = 2
    MaxFaults = 1
    MaxPackets = 1
    MaxPings = 1
INVARIANTS
    NotForgotten
    KeptAlive
    ScriptNotMisled
PROPERTIES
    ComesBack
CHECK_DEADLOCK FALSE
