CONSTANTS
  BlockSize = 2
  DeviceBlocks = 2
  MaxLog = 5
  MaxLogs = 2
  Appends = {2, 3}
  Reads = {2}
  MaxPast = 1
  MaxFaults = 1
SPECIFICATION FairSpec
CHECK_DEADLOCK FALSE
INVARIANTS
  CacheHoldsLog
  RoundWritesAll
  ReadsAreInPlace
  MutexDiscipline
PROPERTIES
  AppendReachesDevice
  CallsReturn
