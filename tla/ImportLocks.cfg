CONSTANTS
  t1 = t1
  t2 = t2
  t3 = t3
  a = a
  b = b
  c = c
  NULL = NULL
  Threads = {t1, t2, t3}
  Modules = {a, b, c}
  Imports <- Circle
  Wanted <- Ends
  MaxLoads <- FailOnce
SPECIFICATION Spec
INVARIANTS OneLoader WaitersWoken
PROPERTIES ImplementsLocks PartialOnlyInCircles
