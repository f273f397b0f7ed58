SPECIFICATION Spec
CONSTANTS
  zero = zero
  d1 = d1
  d2 = d2
  Torn = Torn
  ZeroData = zero
  Data <- MCData
  SourceContents <- MCSource
  TargetContents <- MCPreviousCopy
  Attempts <- MCFirstAttempt
  SessionSize = 5
  BlockSize = 2
  Workers = {w1}
  AllocatorBlockNum = 2
  QueueSize = 2
  HasherEnabled = TRUE
  Incremental = TRUE
  CheckpointEnabled = FALSE
  SkipEmptyBlock = TRUE
  OpenMayFail = FALSE
  ReadMayFail = FALSE
  WriteMayFail = FALSE
  AllocMayTimeout = FALSE
INVARIANT SuccessIsComplete
CHECK_DEADLOCK FALSE
