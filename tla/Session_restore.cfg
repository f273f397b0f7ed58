SPECIFICATION FairSessionSpec
CONSTANTS
  zero = zero
  d1 = d1
  d2 = d2
  Torn = Torn
  ZeroData = zero
  Data <- MCData
  SourceContents <- MCSource
  TargetContents <- MCPreviousCopy
  Attempts <- MCFirstAttempt
  SessionSize = 3
  BlockSize = 2
  Workers = {}
  AllocatorBlockNum = 1
  QueueSize = 2
  HasherEnabled = FALSE
  Incremental = FALSE
  CheckpointEnabled = TRUE
  SkipEmptyBlock = FALSE
  OpenMayFail = TRUE
  ReadMayFail = TRUE
  WriteMayFail = FALSE
  AllocMayTimeout = TRUE
  ClearCheckpointsOnSucceed = TRUE
  MaxRestarts = 1
  AbortAllowed = TRUE
  CrashAllowed = TRUE
  SaveMayFail = FALSE
INVARIANT CheckpointIsSound
PROPERTY TaskEnds
CHECK_DEADLOCK FALSE
