SPECIFICATION MCFairSpec
CONSTANTS
  MaxRuns = 3
  Length <- MCLength
  Cap = 1
  MaxReconnects = 1
  MaxStreams = 2
  MaxStops = 1
  MaxFaults = 2
INVARIANTS ViewComplete LeakBounded CursorExact Attended
PROPERTIES SessionSettles
CHECK_DEADLOCK FALSE
