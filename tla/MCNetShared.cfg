SPECIFICATION Spec
CONSTANTS
    Ctrl = {a, b}
    Names = {d}
    Literal = Literal
    None = None
    MAX_SOCK_NUM = 2
    MaxIp = 1
    MaxCalls = 3
    MaxTx = 0
    MaxLink = 0
    Readers = {}
    ResetsClosing = FALSE
    PcbsRunOut = FALSE
SYMMETRY CtrlSymmetry
INVARIANTS
    CommandsInTime
    NoOrphanSocket
    OnlineIsConnected
CHECK_DEADLOCK FALSE
