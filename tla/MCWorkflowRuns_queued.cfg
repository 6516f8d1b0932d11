SPECIFICATION FairSpec
CONSTANTS
  r1 = r1
  r2 = r2
  r3 = r3
  k1 = k1
  u1 = u1
  x1 = x1
  NoRun = NoRun
  Runs = {r1, r2}
  Tickers = {k1}
  Resumers = {}
  Cancellers = {}
  MaxConcurrentRuns = 1
  Buffering = TRUE
  Priority <- Prio
  WaitKinds = {TRUE}
  StoreFaults = FALSE
  MaxPauses = 1
PROPERTIES QueuedRunsStart
CHECK_DEADLOCK FALSE
