CONSTANTS
  BlockSize = 2
  WCacheBlocks = 2
  RCacheBlocks = 1
  DeviceBlocks = 3
  MaxLog = 6
  MaxAppend = 5
  MaxInt = 3
  Faults = {"write_error", "read_error", "short_read", "open_error", "no_memory"}
  MaxSpurious = 1
SPECIFICATION Spec
INVARIANTS
  InBounds
  RaceFree
  AbortsOnlyWhenFull
CHECK_DEADLOCK FALSE
