SPECIFICATION Spec
CONSTANTS
  MaxHeight = 4
  MaxReorgs = 1
  Lifetime = 3
  Commitment = "confirmed"
  MinConfirmed = 2
  RootedCount = 5
  TicksPerSecond = 2
  SignatureLimit = 1
  ConfirmationLimit = 1
  MaxCall = 2
CHECK_DEADLOCK FALSE
INVARIANT NotFoundMeansUnseen
