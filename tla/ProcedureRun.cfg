SPECIFICATION Spec
CONSTANTS
  NoRequest = NoRequest
  Requests = {r1, r2}
  Instances = {i1, i2}
  LogMaxLevel = 1
  MaxLevel = 2
  MaxSteps = 2
INVARIANT NoRecordLost
INVARIANT FaithfulReply
PROPERTY ImplementsService
PROPERTY EveryRequestAnswered
CHECK_DEADLOCK FALSE
