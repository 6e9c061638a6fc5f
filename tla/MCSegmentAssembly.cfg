SPECIFICATION Spec
CONSTANTS
  MinSymbolSize = 64
  MaxSymbolSize = 65528
  MaxObjectBytes = 33554432
  MaxOriginalBytes = 268435456
  MaxSegmentCount = 131072
  MaxBlockSymbols = 56403
  MaxTotalSymbols = 524288
  MaxInMemory = 268435456
  Files <- MCFiles
  SymbolSizes = {64, 88, 176, 256, 1000, 65528}
  Nothing = Nothing
  NoSender = NoSender
  NoRoot = NoRoot
INVARIANTS
  TypeOK
  OfferUnderstood
  OneRevision
  ReassembledIsFile
PROPERTIES
  StoredStays
CHECK_DEADLOCK FALSE
