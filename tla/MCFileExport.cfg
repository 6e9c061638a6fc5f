SPECIFICATION Spec
CONSTANTS
  Revisions <- MCRevisions
  Small <- MCSmall
  MaxNames = 2
  MaxFailures = 1
  MaxCrashes = 1
INVARIANTS
  TypeOK
  HoldsWhatWasSent
  NoPartialOutput
PROPERTIES
  NeverOverwritten
  RetrySucceeds
