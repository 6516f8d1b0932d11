SPECIFICATION FairSpec
CONSTANTS
  MaxContext = 4
  WindowSize = 2
  MaxSteps = 2
  ToolAttempts = 2
  SchemaRetries = 1
  VerifyAttempts = 1
  MaxRevisions = 1
  CheckpointInterval = 1
  MaxDelegations = 1
  Setups <- AllSetups
  MaxCalls = 2
  MaxCrashes = 1
  MaxSaveFailures = 1
  MaxFeedback = 1
INVARIANTS ConversationPaired EffectsRecorded DeniedNotCompleted
PROPERTY Returns
CHECK_DEADLOCK FALSE
