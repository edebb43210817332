CONSTANTS
  BlockSize = 2
  WCacheBlocks = 3
  RCacheBlocks = 2
  DeviceBlocks = 5
  MaxLog = 8
  MaxAppend = 7
  MaxInt = 255
  Faults = {}
  MaxSpurious = 0
SPECIFICATION FairSpec
PROPERTIES
  AppendReturns
CHECK_DEADLOCK FALSE
