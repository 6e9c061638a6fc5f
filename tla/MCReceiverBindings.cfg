SPECIFICATION BSpec
CONSTANTS
  Streams <- MCStreams
  EsiLimit = 3
  MaxEsi = 3
  Overhead = 1
  CacheBudget = 4
  EntryFloor = 1
  NoMeta = NoMeta
  NoFile <- Default
  NoCheckpoint = NoCheckpoint
  MaxFrames = 6
  MaxStreak = 2
  Abis = {"c", "jni", "wasm", "rust"}
  StreakLimit = 2
  Buffers = {b1}
  Null = Null
INVARIANTS
  TypeOK
  NoMixing
  OfferedIsReceived
  FrameAccounting
  ProgressHonest
  AnnouncedOnce
  CompleteIsUsable
  BuffersAccounted
PROPERTIES
  DescriptorImmutable
  MonotoneProgress
CHECK_DEADLOCK FALSE
