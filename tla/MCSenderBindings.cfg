SPECIFICATION BSpec
CONSTANTS
  Layouts <- MCLayouts
  Intervals <- MCIntervals
  DefaultInterval = 3
  EsiLimit = 6
  MaxFrames = 27
  Hosts <- MCHosts
  Counts = {0, 1, 2, 3, 5}
  MaxBatch = 3
  ScratchCodes = 2
  Rooms = {0, 1, 3}
  Window = 3
  MaxSamples = 5
INVARIANTS
  BindingsTypeOK
  FreshSymbols
  SourceBeforeRepair
  Lockstep
  DescriptorRotation
  HandsOutWhatItTakes
  RateIsLive
CHECK_DEADLOCK FALSE
