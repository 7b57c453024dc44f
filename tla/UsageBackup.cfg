SPECIFICATION Spec
CONSTANTS
  MaxEvents = 2
  Masks <- MCMasks
  Limit = 2
  BatchSize = 1
  Choices <- MCChoices
  MaxFiles = 2
  Scenarios <- MCScenarios
INVARIANTS
  Accounted
  BackupsCover
PROPERTY
  BackupsCatchUp
CHECK_DEADLOCK FALSE
