SPECIFICATION Spec
CONSTANTS
  zero = zero
  d1 = d1
  d2 = d2
  Torn = Torn
  ZeroData = zero
  Data <- MCData
  SourceContents <- MCSource
  TargetContents <- MCPreviousCopy
  Attempts <- MCAttempts
  SessionSize = 5
  BlockSize = 2
  Workers = {w1, w2}
  AllocatorBlockNum = 2
  QueueSize = 2
  HasherEnabled = TRUE
  Incremental = TRUE
  CheckpointEnabled = TRUE
  SkipEmptyBlock = FALSE
  OpenMayFail = TRUE
  ReadMayFail = TRUE
  WriteMayFail = TRUE
  AllocMayTimeout = TRUE
INVARIANT TypeOK
INVARIANT BuffersIntact
INVARIANT ExactlyOnce
INVARIANT NoPushAfterFinish
INVARIANT PushNeverWaits
INVARIANT ProcessedIsDone
INVARIANT SuccessIsComplete
INVARIANT StatisticsAddUp
SYMMETRY WorkerSymmetry
CHECK_DEADLOCK FALSE
