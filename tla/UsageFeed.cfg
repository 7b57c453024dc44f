SPECIFICATION FairSpec
CONSTANTS
  MaxId = 4
  BatchSize = 2
  PageLimit = 3
  MaxInTransit = 1
  MaxFailures = 1
INVARIANTS
  NoneSkipped
PROPERTY
  CatchesUp
