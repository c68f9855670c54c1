CONSTANTS
  t1 = t1
  t2 = t2
  t3 = t3
  i1 = i1
  i2 = i2
  NULL = NULL
  GLOBAL = GLOBAL
  Threads = {t1, t2, t3}
  Interps = {i1, i2}
  Interp <- Home
  Started = {t1, t2}
  Stoppers <- Asks
SPECIFICATION FairSpec
INVARIANTS CountdownExact SuspendedHasWaker HungHoldNothing
PROPERTIES ImplementsWorld StopsEnd
