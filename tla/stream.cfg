SPECIFICATION FairSpec
CONSTANTS
  Streams = {s1, s2}
  MaxUpdates = 2
  None = None
CHECK_DEADLOCK FALSE
INVARIANT AtMostOnce
PROPERTY Delivered
