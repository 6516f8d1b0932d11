SPECIFICATION Spec
CONSTANTS
  Founders <- Two
  Joiners = {3}
  Kinds <- AllKinds
  MaxEdits <- Edits
INVARIANTS SameOrder BehindOrigin Converged SyncComplete
CHECK_DEADLOCK FALSE
