SPECIFICATION FairSpec
CONSTANTS
    Ctrl = {a}
    Names = {d}
    Literal = Literal
    None = None
    MAX_SOCK_NUM = 2
    MaxIp = 2
    MaxCalls = 2
    MaxTx = 1
    MaxLink = 1
    Readers = {a}
    ResetsClosing = FALSE
    PcbsRunOut = FALSE
INVARIANTS
    DataAnnounced
PROPERTIES
    RequestsEnd
    SocketsReturn
CHECK_DEADLOCK FALSE
