SPECIFICATION FairSpec
CONSTANTS
  a1 = a1
  w1 = w1
  w2 = w2
  Agents = {a1}
  Workers = {w1, w2}
  Buckets = 2
  Concurrency = 2
  Stores = {"memory", "redis"}
  MaxFaults = 1
  MaxOverruns = 1
INVARIANTS ExecutionsBounded
PROPERTIES EndedStays TicksEnd
CHECK_DEADLOCK FALSE
