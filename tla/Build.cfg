SPECIFICATION PartSpec
CONSTANTS
  PageShift = 2
  LevelShift = 2
  VirtBits = 10
  RoundShift = 5
  ExtraPages = 2
  SuperShift = 2
  SuperBatch = 3
  Images <- MCImages
  Files <- MCFiles
  Streams <- MCStreams
INVARIANTS
  TablesAgree
  MemoryAgrees
  KernelIsTheImage
PROPERTIES
  BuildsEnd
CHECK_DEADLOCK FALSE
