SPECIFICATION Spec
CONSTANTS
  movie = movie
  photo = photo
  song = song
  Roots <- ThreeRoots
  Count <- ThreeFiles
  Need = 2
  None = None
  MaxTasks = 2
  MaxFailures = 1
  MaxUndeleted = 1
  MaxResets = 1
INVARIANTS
  MergeReadsFiles
  IgnoredArrived
  SavedOnce
PROPERTIES
  NothingDropped
CHECK_DEADLOCK FALSE
