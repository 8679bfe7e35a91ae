SPECIFICATION JoinSpec
CONSTANTS
  Children = 3
  MaxCalls = 2
  MaxSleeps = 1
  MaxYields = 1
INVARIANT CallsDoNotOverlap
INVARIANT NothingCancelledHalfway
CHECK_DEADLOCK FALSE
