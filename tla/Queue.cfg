CONSTANTS
  t1 = t1
  t2 = t2
  t3 = t3
  NULL = NULL
  Threads = {t1, t2, t3}
  Conditions = {"not_empty", "not_full", "all_tasks_done"}
  maxsize = 2
  Kinds = {"block", "timed", "now"}
  MayShutDown = TRUE
SPECIFICATION FairSpec
INVARIANT NobodyForgotten
PROPERTIES ImplementsBuffer ShutdownFrees
CHECK_DEADLOCK FALSE
