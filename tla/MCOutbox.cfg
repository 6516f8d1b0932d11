SPECIFICATION FairSpec
CONSTANTS
  f1 = f1
  f2 = f2
  NItems = 2
  Flushers = {f1, f2}
  MaxAttempts = 2
  MaxFaults = 1
INVARIANTS TypeOK NothingLost AttemptsBounded
PROPERTY Drains
CHECK_DEADLOCK FALSE
