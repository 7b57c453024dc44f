SPECIFICATION FairSpec
CONSTANTS
  NumWorkers = 2
  MaxAccounts = 3
  MaxRuns = 2
  AccountsIn <- MCAccountsIn
  Providers <- MCProviders
  ProviderOf <- MCProviderOf
  ProviderCap = 1
  RefreshCap = 1
INVARIANTS
  ActionsSeeWholeRun
  StoppedOnlyOnRequest
  HeldRunBeginsNoMore
  ProgressMatchesWork
PROPERTIES
  ImplementsLifecycle
  StopEndsRun
  RunEnds
