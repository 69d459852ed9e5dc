SPECIFICATION Spec
CONSTANTS
  None = None
  Tasks = {t1, t2}
  Ports = {p1, p2}
\* References to Notify objects: one in the map for each port, one for each task
\* and one of the thread; so one is free whenever one is made.
  Notifies = {1, 2, 3, 4, 5}
  MaxRing = 2
  MaxCancels = 1
  MaxUnbindErrors = 1
\* An index more than there are threads, so that they can be used up by errors.
  Threads = {1, 2, 3}
  Indexes = {1, 2, 3, 4}
  Addresses = {1, 2, 3}
  MaxGrantErrors = 2
\* Three users of two devices, one without direct I/O.
  Users = {1, 2, 3}
  Devices = {1, 2}
  Direct = {1, 2}
  MaxLoopErrors = 3
  Handles = {1, 2, 3, 4}
SYMMETRY Symmetry
INVARIANTS
  ChannelsAreRegistered
  EventsAreNotLost
  MemoryIsOwn
  AttachedIsOwn
  AbortedWithTheLast
CHECK_DEADLOCK FALSE
