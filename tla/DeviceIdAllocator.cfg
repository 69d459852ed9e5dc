\* 33 bytes of flags, so that the cursor needs its second byte; ids at the ends
\* and in the middle may be given back.
CONSTANTS
    DEVICE_COUNT = 264
    Releasable = {0, 130, 263}
SPECIFICATION Spec
INVARIANTS
    TypeOK
    ScannedAreTaken
    StoredFormIsFaithful
PROPERTIES
    ImplementsIdAllocator
    AllocateReturns
