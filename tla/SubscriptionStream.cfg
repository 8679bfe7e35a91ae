SPECIFICATION Spec
CONSTANTS
  Streams = {s1, s2}
  MaxMessages = 2
PROPERTY ImplementsStreams
PROPERTY HoldsUpOnlyWhileQuiet
CHECK_DEADLOCK FALSE
