SPECIFICATION FairSpec
CONSTANTS
  r1 = r1
  r2 = r2
  r3 = r3
  k1 = k1
  u1 = u1
  x1 = x1
  NoRun = NoRun
  Runs = {r1, r2, r3}
  Tickers = {k1}
  Resumers = {}
  Cancellers = {}
  MaxConcurrentRuns = 2
  Buffering = FALSE
  Priority <- Prio
  WaitKinds = {TRUE}
  StoreFaults = FALSE
  MaxPauses = 2
INVARIANTS SoleExecutor
PROPERTIES TerminalFinal SleepersWake
CHECK_DEADLOCK FALSE
