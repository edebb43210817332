CONSTANTS
  WordSize = 64
  GrowBase = 1
  k1 = k1
  k2 = k2
  k3 = k3
  Keys = {k1, k2, k3}
  Vals = {"v1", "v2"}
  HashOf <- MCHashOf
  MaxRecords = 5
  Faults = {"read", "memory", "device"}
SPECIFICATION Spec
INVARIANTS
  RecordsAccountedFor
PROPERTIES
  RefinesKVStore
CHECK_DEADLOCK FALSE
