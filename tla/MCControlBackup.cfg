SPECIFICATION FairSpec
CONSTANTS
  c1 = c1
  c2 = c2
  Call = {c1, c2}
  Keep = 2
  None = None
  MaxVersion = 2
  Budgets <- MCBudgets
CHECK_DEADLOCK FALSE
PROPERTIES
  ToldMeansSaved
  NeverWithoutBackup
  CallsReturn
  ChangesAreSaved
