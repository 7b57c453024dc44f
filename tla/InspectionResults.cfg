SPECIFICATION Spec
CONSTANTS
  solo = solo
  left = left
  right = right
  Accounts <- MCAccounts
  FileOf <- MCFileOf
  Pools <- MCPools
  first = first
  second = second
  Requests <- MCRequests
  AtATime <- MCAtATime
  ManualOn <- MCManualOn
  VerdictsOf <- MCVerdictsOf
SYMMETRY MCSymmetry
INVARIANTS
  CountsMatchRows
  RowsTellAccounts
PROPERTIES
  RefreshKeepsAccounts
