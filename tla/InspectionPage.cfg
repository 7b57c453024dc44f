SPECIFICATION PageSpec
CONSTANTS
  Filters = {"accountInvalid", "quotaExhausted", "requestError"}
  PageSize = 1
  Scenarios <- MCScenarios
  Rank <- MCRank
  Outcomes <- MCOutcomes
  Copies <- MCCopies
  Clean <- MCClean
  Edits <- MCEdits
INVARIANTS
  StatusTrue
  TableTrue
  
  SavedAsTyped
CHECK_DEADLOCK FALSE
