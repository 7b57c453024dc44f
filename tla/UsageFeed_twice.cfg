SPECIFICATION Spec
CONSTANTS
  MaxId = 3
  BatchSize = 2
  PageLimit = 2
  MaxInTransit = 1
  MaxFailures = 1
INVARIANT
  EventsCountedOnce
