SPECIFICATION CSpec
CONSTANTS
  movie = movie
  Roots <- OneRoot
  Count <- OneLarge
  Need = 2
  None = None
  MaxTasks = 1
  MaxFailures = 0
  MaxUndeleted = 0
  MaxResets = 1
  MaxJobs = 1
  MaxLeaves = 1
  MaxErrors = 2
INVARIANT
  CameraFollowsView
PROPERTY
  FileSaved
CHECK_DEADLOCK FALSE
