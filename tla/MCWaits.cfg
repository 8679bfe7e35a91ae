SPECIFICATION MCSpec
CONSTANTS
  Balances = {enough, other}
  NoBalance = NoBalance
  Timeout = 2
  Last = 2
  MaxCall = 2
  Validators = {v1, v2}
  MaxStake = 2
  Threshold = 60
  StakeTimeout = 1
INVARIANT AnswerIsHonest
INVARIANT StakeTypeOK
INVARIANT VerdictFitsLastReply
PROPERTY BalanceWaitEnds
PROPERTY ArrivalEnds
PROPERTY StakeWaitEnds
CHECK_DEADLOCK FALSE
