SPECIFICATION Spec
CONSTANTS
  s1 = s1
  s2 = s2
  s3 = s3
  s4 = s4
  w1 = w1
  NoStep = NoStep
  EntryStep = s1
  Steps = {s1, w1, s2, s3, s4}
  NextStep <- Saga
  AltStep <- Saga
  Explicit = {s1, w1, s2, s3}
  OnError <- NoHandler
  Retries <- Retry2
  Budgeted = {s2}
  Fallback = {s3}
  Skippable = {s2}
  Keyed = {s2}
  Checked = {}
  Waits = {w1}
  Compensable = {s1, s2}
  Locking = FALSE
  DurableRepo = FALSE
  CostCeiling = 0
  MaxSteps = 8
  MaxCrashes = 2
  MaxResumes = 2
  MaxTies = 2
INVARIANTS CrashRepeats GatesHold SagaUnwound HistoryIsWalk
CHECK_DEADLOCK FALSE
