SPECIFICATION FairSpec
CONSTANTS
  zero = zero
  d1 = d1
  d2 = d2
  Torn = Torn
  ZeroData = zero
  Data <- MCData
  SourceContents <- MCSource
  TargetContents <- MCNewTarget
  Attempts <- MCFirstAttempt
  SessionSize = 4
  BlockSize = 2
  Workers = {w1, w2}
  AllocatorBlockNum = 1
  QueueSize = 2
  HasherEnabled = TRUE
  Incremental = FALSE
  CheckpointEnabled = FALSE
  SkipEmptyBlock = TRUE
  OpenMayFail = FALSE
  ReadMayFail = TRUE
  WriteMayFail = TRUE
  AllocMayTimeout = TRUE
PROPERTY ThreadsTerminate
CHECK_DEADLOCK FALSE
