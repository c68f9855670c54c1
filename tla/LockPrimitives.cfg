CONSTANTS
  t1 = t1
  t2 = t2
  t3 = t3
  event = event
  once = once
  rw = rw
  rec = rec
  b1 = b1
  NULL = NULL
  Threads <- MCThreads
  Addrs = {event, once, rw, rec}
  Events = {event}
  Onces = {once}
  RWs = {rw}
  Recursives = {rec}
  Buckets <- OneBucket
  Bucket <- Collide
  Ends = {"intr"}
  MaxLevel = 2
  Workloads <- MCWorkloads
SPECIFICATION FairSpec
INVARIANTS
  SleepersCared
  PostsAlive
PROPERTIES ImplementsPrimitives WritersNotStarved EveryCallReturns
CHECK_DEADLOCK FALSE
