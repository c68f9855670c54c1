CONSTANTS
  t1 = t1
  t2 = t2
  n1 = n1
  n2 = n2
  n3 = n3
  Threads = {t1, t2}
  Nodes = {n1, n2, n3}
  NULL = NULL
  DEFERRED_LIMIT = 1
  MaxSeq = 7
SPECIFICATION Spec
SYMMETRY Symmetry
CHECK_DEADLOCK FALSE
INVARIANTS FreedOnce WorkAnnounced
PROPERTIES ImplementsReclamation
