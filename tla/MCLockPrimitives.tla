-------------------------- MODULE MCLockPrimitives --------------------------
(* A small instance of LockPrimitives for TLC.                             *)
EXTENDS LockPrimitives

CONSTANTS t1, t2, t3, event, once, rw, rec, b1

MCThreads == {t1, t2, t3}
OneBucket == {b1}

(* All threads use one mutex, or an event and a once flag at a time.       *)
MCWorkloads ==
  {[t \in Threads |-> {a}] : a \in {rw, rec}}
  \union {(t1 :> {event, once}) @@ (t2 :> {once}) @@ (t3 :> {event})}
Collide == [a \in Addrs |-> b1]
=============================================================================
