CONSTANTS
  BlockSize = 2
  WCacheBlocks = 3
  RCacheBlocks = 2
  DeviceBlocks = 5
  MaxLog = 8
  MaxAppend = 7
  MaxInt = 255
  Faults = {"write_error", "read_error", "open_error"}
  MaxSpurious = 0
SPECIFICATION FairSpec
INVARIANTS
  NothingLost
  CacheCoherent
PROPERTIES
  Durable
  RefinesAppendLog
  CallsReturn
CHECK_DEADLOCK FALSE
