------------------------------ MODULE MCPyMutex -----------------------------
(* A small instance of PyMutex for TLC.                                    *)
EXTENDS PyMutex

CONSTANTS t1, t2, t3, m1, b1

MCThreads == {t1, t2, t3}
OneMutex == {m1}
OneBucket == {b1}
Collide == [m \in Addrs |-> b1]

(* PyThread_acquire_lock_timed: a timed wait that fails when interrupted.  *)
TimedCalls == {[timeout |-> "finite", signals |-> "fail", python |-> FALSE]}
=============================================================================
