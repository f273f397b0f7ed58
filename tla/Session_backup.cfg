SPECIFICATION SessionSpec
CONSTANTS
  zero = zero
  d1 = d1
  d2 = d2
  Torn = Torn
  ZeroData = zero
  Data <- MCData
  SourceContents <- MCSource
  TargetContents <- MCPreviousCopy
  Attempts <- MCFirstAttempt
  SessionSize = 3
  BlockSize = 2
  Workers = {w1}
  AllocatorBlockNum = 2
  QueueSize = 2
  HasherEnabled = TRUE
  Incremental = TRUE
  CheckpointEnabled = TRUE
  SkipEmptyBlock = FALSE
  OpenMayFail = FALSE
  ReadMayFail = FALSE
  WriteMayFail = FALSE
  AllocMayTimeout = FALSE
  ClearCheckpointsOnSucceed = TRUE
  MaxRestarts = 1
  AbortAllowed = FALSE
  CrashAllowed = TRUE
  SaveMayFail = TRUE
INVARIANT TaskTypeOK
INVARIANT SucceedIsDurable
INVARIANT ChecksumsDescribeCopy
PROPERTY CopySpec
CHECK_DEADLOCK FALSE
