CONSTANTS
  t1 = t1
  t2 = t2
  t3 = t3
  NULL = NULL
  Threads <- MCThreads
  MaxRounds = 2
SPECIFICATION FairSpec
INVARIANTS
  RecordsAlive
  NoLostWaiter
PROPERTIES
  ImplementsLock
  EveryLockSucceeds
\* Every thread stops after MaxRounds calls.
CHECK_DEADLOCK FALSE
