CONSTANTS
  t1 = t1
  t2 = t2
  t3 = t3
  m1 = m1
  m2 = m2
  b1 = b1
  NULL = NULL
  Threads <- MCThreads
  Addrs <- TwoMutexes
  Buckets <- OneBucket
  Bucket <- Collide
  Calls <- Mixed
  Locks <- OneLock
  MaxSpin = 1
  Ends = {"timeout", "intr"}
  MayFinalize = TRUE
  MaxCalls = 0
SPECIFICATION LockSpec
SYMMETRY Symmetry
INVARIANTS
  QueuesExact
  EntriesAlive
  WaitersAnnounced
  NoLostWakeup
