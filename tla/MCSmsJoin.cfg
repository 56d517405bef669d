SPECIFICATION FairSpec
CONSTANTS
    Msgs = {"a", "b", "c", "s"}
    refNum <- MCRef
    maxNum <- MCMax
    Empty = Empty
    LONG_SMS_CMAX = 4
    CLEAN_MAX = 2
    BusMax = 1
    MaxFaults = 1
INVARIANTS
    TextWhole
    TableInOrder
PROPERTIES
    MessagesArrive
CHECK_DEADLOCK FALSE
