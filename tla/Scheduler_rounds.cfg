CONSTANTS
  MaxThreads = 4
SPECIFICATION FairSpec
INVARIANTS
  TypeOK
  FreesTheDead
  RingIsWhole
  NeverCrashes
PROPERTIES
  LeavesAtMostOne
  NoStarvation
CHECK_DEADLOCK FALSE
