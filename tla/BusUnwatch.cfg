CONSTANTS
    Callers = {c1}
    Handles = {h1}
    IdSpace = 4
    TxCap = 2
    RxCap = 1
    UnwatchCap = 1
    WatchCap = 1
    SocketCap = 2
    MaxRequests = 1
    MaxChanges = 0
    Failures = FALSE
SPECIFICATION FairSpec
PROPERTY DroppedWatchesAreRemoved
CHECK_DEADLOCK FALSE
