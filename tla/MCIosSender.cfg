SPECIFICATION Spec
CONSTANTS
  Segments = 2
  None = None
  MaxImports = 2
  MaxBegins = 2
  MaxSelects = 1
  MaxFailures = 1
INVARIANTS
  TypeOK
  OneLoop
  QuietWhenIdle
PROPERTIES
  PlaysWhatItNames
CHECK_DEADLOCK FALSE
