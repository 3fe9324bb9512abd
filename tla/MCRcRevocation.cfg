SPECIFICATION Spec
CONSTANTS
  Uid = {u1}
  Key = {k1}
  SlotCount = 1
  MaxGeneration = 2
  MaxCounter = 4
  EarlierKey = k1
  Interleaved = TRUE
  WritesFail = FALSE
  StorageFaults = FALSE
  Decays = FALSE
CHECK_DEADLOCK FALSE
PROPERTIES
  RevocationHolds
