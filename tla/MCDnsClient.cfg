SPECIFICATION FairSpec
CONSTANTS
    Requests = {1, 2, 3}
    Names = {"m", "n"}
    nameOf <- MCNameOf
    wants6 <- MCWants6
    MAX_DNS_SERVER = 3
    Servers = {0, 1}
    DNS_TRY_MAX = 2
    None = None
    MaxDowns = 1
INVARIANTS
    ListsInOrder
    TimerDrives
PROPERTIES
    GivenUpAfterAll
    RequestsEndInTheEnd
    KeepsPromise
CHECK_DEADLOCK FALSE
