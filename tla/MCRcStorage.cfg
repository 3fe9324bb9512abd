SPECIFICATION Spec
CONSTANTS
  Uid = {u1, u2}
  Key = {k1, k2}
  SlotCount = 2
  MaxGeneration = 2
  MaxCounter = 3
  EarlierKey = k1
  Interleaved = TRUE
  WritesFail = TRUE
  StorageFaults = TRUE
  Decays = TRUE
SYMMETRY Symmetric
VIEW Relevant
CHECK_DEADLOCK FALSE
INVARIANTS
  StorageTypeOK
  OneSlotPerAircraft
  FlownKeyIsPaired
  WrappedIsReadable
PROPERTIES
  ActsAsRegistry
  MigrationIsExact
