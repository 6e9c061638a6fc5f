SPECIFICATION Spec
CONSTANTS
  Segments = 2
  None = None
  MaxImports = 2
  MaxBegins = 2
  MaxSelects = 1
  MaxFailures = 0
INVARIANT
  StopMeansStop
CHECK_DEADLOCK FALSE
