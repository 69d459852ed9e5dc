SPECIFICATION Spec
CONSTANTS
  Tasks = {t1, t2}
  Devices = {d1, d2}
  Domids = {1, 2}
  MaxCreates = 3
  MaxLifeErrors = 2
  MaxCancels = 1
  MaxAdds = 1
  MaxTearErrors = 1
  DevIds = {0, 1, 2}
  BlkIds = {0, 1}
  Configs <- MCConfigs
  MaxLength = 2
  MaxCalls = 4
  Addresses <- MCAddresses
  Hardware <- MCHardware
  Resources <- MCResources
  Irqs <- MCIrqs
  MaxWanted = 2
  MaxPciErrors = 1
SYMMETRY Symmetry
INVARIANTS
  ReturnedAreWhole
  LeftoversAreExplained
  NothingRemains
  DevicesAreWhole
  PreparedAreWhole
PROPERTIES
  NodesAreTornDown
  BackendsAreNotTaken
CHECK_DEADLOCK FALSE
