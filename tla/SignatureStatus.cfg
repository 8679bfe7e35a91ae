SPECIFICATION Spec
CONSTANTS
  MaxHeight = 3
  MaxReorgs = 1
  Lifetime = 1
INVARIANT ToldStands
INVARIANT HistoryRemembers
CHECK_DEADLOCK FALSE
