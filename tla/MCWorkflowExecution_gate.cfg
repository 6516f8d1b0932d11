SPECIFICATION Spec
CONSTANTS
  s1 = s1
  s2 = s2
  s3 = s3
  s4 = s4
  w1 = w1
  NoStep = NoStep
  EntryStep = s1
  Steps = {s1, w1, s2, s3}
  NextStep <- Gated
  AltStep <- Gated
  Explicit = {s1, w1, s2}
  OnError <- NoHandler
  Retries <- NoRetries
  Budgeted = {}
  Fallback = {}
  Skippable = {}
  Keyed = {}
  Checked = {}
  Waits = {w1}
  Compensable = {}
  Locking = TRUE
  DurableRepo = FALSE
  CostCeiling = 0
  MaxSteps = 8
  MaxCrashes = 1
  MaxResumes = 0
  MaxTies = 0
INVARIANTS GatesHold
CHECK_DEADLOCK FALSE
