CONSTANTS
  Words = {1, 2, 3, 4, 5}
  Length <- MCLength
  Word = 8
  Overhead = 10
  NodeSize = 40
  StateSize = 24
  Capacity = 480
  MaxItems = 5
SPECIFICATION Spec
CHECK_DEADLOCK FALSE
INVARIANTS
  TypeOK
  IsSearchTree
  CountersAgree
PROPERTIES
  
  DeathLeavesOrder
