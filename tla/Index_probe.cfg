CONSTANTS
  WordSize = 64
  GrowBase = 1
  Hashes = {0, 1, 3, 6, 7, 18}
  MaxOff = 1
  MayRunOut = TRUE
SPECIFICATION CallsSpec
INVARIANTS
  TableIsSound
  StoresAreFound
