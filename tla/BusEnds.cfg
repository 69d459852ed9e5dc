CONSTANTS
    Callers = {c1, c2}
    Handles = {}
    IdSpace = 4
    TxCap = 2
    RxCap = 1
    UnwatchCap = 1
    WatchCap = 1
    SocketCap = 1
    MaxRequests = 2
    MaxChanges = 0
    Failures = TRUE
SPECIFICATION FairSpec
PROPERTY CallsReturn
CHECK_DEADLOCK FALSE
