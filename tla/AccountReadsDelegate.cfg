SPECIFICATION ReadSpec
CONSTANTS
  MaxHeight = 2
  MaxReorgs = 1
  Lifetime = 0
  Keys = {k1, k2}
  Commitment = "confirmed"
INVARIANT DelegateListsDelegated
CHECK_DEADLOCK FALSE
