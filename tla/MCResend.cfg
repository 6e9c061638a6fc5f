SPECIFICATION Spec
CONSTANTS
  Streams <- TwoSpeeds
  First <- Stable
  EsiLimit = 14
  Overhead = 1
  CacheBudget = 3
  EntryFloor = 1
  DefaultInterval = 3
  NoMeta = NoMeta
  NoFile = NoFile
  NoCheckpoint = NoCheckpoint
  Codes = 2
  MaxEmitted = 22
  MaxMissed = 0
  MaxScans = 1
  MaxResends = 1
  MaxRestarts = 0
  LastDisturbance = 6
PROPERTY
  EventuallyComplete
CHECK_DEADLOCK FALSE
