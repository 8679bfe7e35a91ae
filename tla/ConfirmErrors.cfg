SPECIFICATION ConfirmSpec
CONSTANTS
  MaxHeight = 5
  MaxReorgs = 1
  Lifetime = 2
  MaxEarly = 1
  Commitment = "finalized"
INVARIANT VerdictSound
INVARIANT PollsOnlyAccepted
INVARIANT MissedOnlyInWindow
INVARIANT DurableWaitsFullLifetime
INVARIANT ErrorTellsTheTruth
PROPERTY UnableSettles
PROPERTY Termination
CHECK_DEADLOCK FALSE
