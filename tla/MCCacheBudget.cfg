SPECIFICATION Spec
CONSTANTS
  Streams <- TwoSpeeds
  EsiLimit = 3
  MaxEsi = 3
  Overhead = 1
  CacheBudget = 4
  EntryFloor = 1
  NoMeta = NoMeta
  NoFile = NoFile
  NoCheckpoint = NoCheckpoint
  MaxFrames = 6
  MaxStreak = 1
INVARIANT
  CacheWithinBudget
CHECK_DEADLOCK FALSE
