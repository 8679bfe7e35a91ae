SPECIFICATION ReadSpec
CONSTANTS
  MaxHeight = 2
  MaxReorgs = 1
  Lifetime = 0
  Keys = {k1, k2}
  Commitment = "confirmed"
INVARIANT ReadTypeOK
INVARIANT AbsentUnlessUndecodable
PROPERTY ReadsNeverGoBack
CHECK_DEADLOCK FALSE
