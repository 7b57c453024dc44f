SPECIFICATION Spec
CONSTANTS
  Accounts <- MCAccounts
  FileOf <- MCFileOf
  AnswersTo <- MCAnswersTo
  Starts <- MCStarts
  MaxConfirmations = 2
INVARIANTS
  NoFlipFlop
  ActionsFollowState
  FileDeletedOnce
  ConfirmedSinceClear
