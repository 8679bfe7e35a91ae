SPECIFICATION UseSpec
CONSTANTS
  MaxHeight = 4
  MaxReorgs = 1
  Lifetime = 2
  Commitment = "confirmed"
  TicksPerSecond = 2
  Limit = 1
  MaxCall = 1
INVARIANT UseTypeOK
INVARIANT AnswerMeansProgressOrStall
INVARIANT HashStaysUsable
INVARIANT RetriedAirdropIsTheSame
PROPERTY Termination
CHECK_DEADLOCK FALSE
