SPECIFICATION AuditFairSpec
CONSTANTS
  c1 = c1
  c2 = c2
  c3 = c3
  c4 = c4
  Calls = {c1, c2, c3, c4}
  FailFast = {c1, c4}
  BypassCircuit = {c3, c4}
  NoRetry = {c3, c4}
  FailureThreshold = 2
  Cooldown = 3
  MaxConcurrent = 2
  MaxQueue = 1
  Capacity = 3
  Refill = 1
  TokenUnit = 2
  MaxHint = 2
  MaxAttempts = 2
  BaseDelay = 1
  MaxDelay = 1
  CallTimeout = 1
  MaxOrphans = 1
INVARIANTS TypeOK SlotsAccounted WaitersAccounted BreakerConsistent RateConforms
PROPERTIES LimiterIsFifoSemaphore TokensHonourRetryAfter Settles CooldownEnds
