SPECIFICATION Spec
CONSTANTS
  movie = movie
  photo = photo
  song = song
  Roots <- ThreeRoots
  Count <- ThreeFiles
  Need = 2
  None = None
  MaxTasks = 2
  MaxFailures = 0
  MaxUndeleted = 0
  MaxResets = 0
INVARIANT
  AllArrivedMerged
CHECK_DEADLOCK FALSE
