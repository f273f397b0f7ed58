SPECIFICATION FairSpec
CONSTANTS
  Producers = {p1, p2}
  Consumers = {c1, c2}
  MaxSize = 2
  Items = 3
  Polling = TRUE
INVARIANT TypeOK
INVARIANT NoLostWakeup
PROPERTY AtomicFairSpec
CHECK_DEADLOCK FALSE
