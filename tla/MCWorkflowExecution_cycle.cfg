SPECIFICATION FairSpec
CONSTANTS
  s1 = s1
  s2 = s2
  s3 = s3
  s4 = s4
  w1 = w1
  NoStep = NoStep
  EntryStep = s1
  Steps = {s1, s2}
  NextStep <- Cycle
  AltStep <- CycleExit
  Explicit = {s1, s2}
  OnError <- BackTo1
  Retries <- Retry2
  Budgeted = {}
  Fallback = {s1}
  Skippable = {s2}
  Keyed = {}
  Checked = {s1}
  Waits = {}
  Compensable = {}
  Locking = TRUE
  DurableRepo = TRUE
  CostCeiling = 1
  MaxSteps = 5
  MaxCrashes = 2
  MaxResumes = 4
  MaxTies = 0
INVARIANTS RecordedWasExecuted
PROPERTIES RunsEnd
CHECK_DEADLOCK FALSE
