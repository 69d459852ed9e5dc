CONSTANTS
    Callers = {c1, c2, c3}
    Handles = {h1}
    IdSpace = 3
    TxCap = 2
    RxCap = 1
    UnwatchCap = 1
    WatchCap = 1
    SocketCap = 2
    MaxRequests = 4
    MaxChanges = 1
    Failures = TRUE
SPECIFICATION Spec
SYMMETRY Symmetry
INVARIANTS
    TypeOK
    ReplyReachesItsCall
    IdsUnderWayDiffer
    WaitingCallsAreServed
    EntriesAreAccounted
    NoLostWakeup
PROPERTY ImplementsRpc
CHECK_DEADLOCK FALSE
