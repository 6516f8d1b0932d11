SPECIFICATION Spec
CONSTANTS
  r1 = r1
  r2 = r2
  r3 = r3
  k1 = k1
  u1 = u1
  x1 = x1
  NoRun = NoRun
  Runs = {r1, r2}
  Tickers = {k1}
  Resumers = {u1}
  Cancellers = {x1}
  MaxConcurrentRuns = 1
  Buffering = TRUE
  Priority <- Prio
  WaitKinds = {TRUE, FALSE}
  StoreFaults = TRUE
  MaxPauses = 1
INVARIANTS RunningHasExecutor PendingOwned
CHECK_DEADLOCK FALSE
