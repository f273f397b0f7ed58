SPECIFICATION SessionSpec
CONSTANTS
  zero = zero
  d1 = d1
  d2 = d2
  Torn = Torn
  ZeroData = zero
  Data <- MCData
  SourceContents <- MCSource
  TargetContents <- MCNewTarget
  Attempts <- MCFirstAttempt
  SessionSize = 3
  BlockSize = 2
  Workers = {w1}
  AllocatorBlockNum = 2
  QueueSize = 2
  HasherEnabled = TRUE
  Incremental = FALSE
  CheckpointEnabled = TRUE
  SkipEmptyBlock = FALSE
  OpenMayFail = FALSE
  ReadMayFail = TRUE
  WriteMayFail = FALSE
  AllocMayTimeout = FALSE
  ClearCheckpointsOnSucceed = TRUE
  MaxRestarts = 0
  AbortAllowed = FALSE
  CrashAllowed = FALSE
  SaveMayFail = FALSE
INVARIANT FailedSessionFails
CHECK_DEADLOCK FALSE
