SPECIFICATION FairSpec
CONSTANTS
    Sizes <- MCSizes
    None = None
    Other = Other
    SOH_LEN = 1
    STX_LEN = 2
    SnMod = 2
    Garbage = {0, 1}
    MaxFaults = 3
    MaxTries = 10
INVARIANTS
    HeldFits
    InStep
PROPERTIES
    KeepsCopy
    FilesArrive
CHECK_DEADLOCK FALSE
