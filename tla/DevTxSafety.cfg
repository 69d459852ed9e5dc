CONSTANTS
    t1 = t1
    t2 = t2
    Tasks = {t1, t2}
    DEVICE_COUNT = 3
    Orders <- OneOrTwo
    MaxCalls = 4
    MaxCancels = 1
SPECIFICATION Spec
SYMMETRY Symmetry
INVARIANTS
    TypeOK
    IdsMatchDevices
    ReturnedDevicesAreStored
    TransactionsAreAccounted
PROPERTY ImplementsRegistry
CHECK_DEADLOCK FALSE
