CONSTANTS
  t1 = t1
  t2 = t2
  t3 = t3
  m1 = m1
  b1 = b1
  NULL = NULL
  Threads <- MCThreads
  Addrs <- OneMutex
  Buckets <- OneBucket
  Bucket <- Collide
  Calls <- TimedCalls
  MaxSpin = 0
  Ends = {"timeout", "intr"}
  MayFinalize = FALSE
  MaxCalls = 0
SPECIFICATION FairSpec
PROPERTIES
  NoStarvation
  EveryCallReturns
  ImplementsMutex
