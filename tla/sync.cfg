SPECIFICATION FairSpec
CONSTANTS
  MaxHeight = 2
  MaxCrashes = 2
  MaxPersists = 2
  Faults = {"fetch", "timeout"}
  None = None
INVARIANTS TypeOK NoGap CacheReached
PROPERTY BlocksExamined
