CONSTANTS
    t1 = t1
    t2 = t2
    Tasks = {t1, t2}
    DEVICE_COUNT = 3
    Orders <- OneOrTwo
    MaxCalls = 4
    MaxCancels = 0
SPECIFICATION FairSpec
PROPERTY CallsEnd
CHECK_DEADLOCK FALSE
