SPECIFICATION Spec
CONSTANTS
  Streams <- OneSpeed
  First <- Stable
  EsiLimit = 14
  Overhead = 1
  CacheBudget = 3
  EntryFloor = 1
  DefaultInterval = 3
  NoMeta = NoMeta
  NoFile = NoFile
  NoCheckpoint = NoCheckpoint
  Codes = 2
  MaxEmitted = 22
  MaxMissed = 1
  MaxScans = 2
  MaxResends = 1
  MaxRestarts = 1
  LastDisturbance = 6
INVARIANTS
  NoRepairWithoutLoss
PROPERTIES
  EventuallyComplete
  Implements
CHECK_DEADLOCK FALSE
