--------------------------- MODULE MCThreadingLock --------------------------
(* A small instance of ThreadingLock for TLC: a threading.Lock and a mutex *)
(* of the interpreter whose waiters are in one bucket.                     *)
EXTENDS ThreadingLock, TLC

CONSTANTS t1, t2, t3, m1, m2, b1

MCThreads == {t1, t2, t3}
Symmetry == Permutations(MCThreads)
TwoMutexes == {m1, m2}
OneLock == {m2}
OneBucket == {b1}
Collide == [m \in Addrs |-> b1]

(* PyMutex_Lock; Lock.acquire(timeout=...).                                *)
Mixed ==
  {[timeout |-> "forever", signals |-> "ignore", python |-> FALSE],
   [timeout |-> "finite", signals |-> "handle", python |-> TRUE]}
=============================================================================
