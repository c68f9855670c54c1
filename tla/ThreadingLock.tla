--------------------------- MODULE ThreadingLock ----------------------------
(***************************************************************************)
(* threading.Lock (Modules/_threadmodule.c) in the free-threaded build: a  *)
(* PyMutex that any thread may release, beside the mutexes that only their *)
(* owners unlock.  Two threads that release the same acquisition at once   *)
(* may both succeed: the release that finds waiters stores the byte        *)
(* without looking at it again.                                            *)
(***************************************************************************)
EXTENDS PyMutex

CONSTANT Locks    \* the mutexes that belong to a threading.Lock

ASSUME ThreadingLockAssumption == Locks \subseteq Addrs

(* acquire() returns True; the thread goes on with the lock locked.        *)
AcquireReturns(t) ==
  /\ pc[t] = "held" /\ on[t] \in Locks
  /\ Return(t, "idle")
  /\ UNCHANGED <<lotVars, word, wakes, calls, finalizing>>

(* release() starts, in any thread: RuntimeError on an unlocked lock.      *)
ReleaseCalled(t, m) ==
  /\ pc[t] = "idle" /\ m \in Locks
  /\ IF word[m].locked
     THEN /\ on' = [on EXCEPT ![t] = m]
          /\ v' = [v EXCEPT ![t] = word[m]]
          /\ Goto(t, "unlock")
     ELSE UNCHANGED <<on, v, pc>>
  /\ UNCHANGED <<lotVars, word, call, spin, aged, handed, wakes, calls, finalizing>>

(* The compare-exchange of _PyMutex_TryUnlock: the lock is released, or    *)
(* the byte has changed and is looked at again.                            *)
TryUnlock(t) ==
  /\ pc[t] = "unlock" /\ on[t] \in Locks
  /\ ~ v[t].parked
  /\ \/ /\ word[on[t]] = v[t]
        /\ word' = [word EXCEPT ![on[t]] = Unlocked]
        /\ Return(t, "idle")
     \/ /\ word[on[t]] # v[t]
        /\ word[on[t]].locked
        /\ See(t)
        /\ UNCHANGED <<word, pc, on, call, spin, aged, handed>>
     \/ /\ ~ word[on[t]].locked
        /\ Return(t, "idle")    \* RuntimeError
        /\ UNCHANGED word
  /\ UNCHANGED <<lotVars, wakes, calls, finalizing>>

Acquiring(t) ==
  \/ \E m \in Addrs, c \in Calls : (c.python <=> m \in Locks) /\ Lock(t, m, c)
  \/ FastPath(t) \/ TryGrab(t) \/ Spin(t) \/ GiveUp(t) \/ SetParked(t) \/ Park(t)
  \/ Woken(t) \/ Expire(t) \/ Drain(t) \/ ParkFails(t) \/ Reload(t) \/ Age(t)

Releasing(t) ==
  \/ \E m \in Addrs : ReleaseCalled(t, m)
  \/ TryUnlock(t)
  \/ on[t] \notin Locks /\ (Unlock(t) \/ UnlockFast(t))
  \/ Unpark(t) \/ Wake(t)

LockStep(t) == Acquiring(t) \/ AcquireReturns(t) \/ Releasing(t)

LockNext == (\E t \in Threads : LockStep(t)) \/ Finalize

LockSpec == Init /\ [][LockNext]_vars

-----------------------------------------------------------------------------
(* A mutex of the interpreter keeps its one owner, and its unlock is never *)
(* fatal, although threads that release a lock of the same bucket twice, or*)
(* while it is being handed over, store bytes and dequeue waiters there.   *)
MutexesUndisturbed ==
  /\ \A m \in Addrs \ Locks : Exclusive(m)
  /\ NeverFatal

(* The mutexes of the interpreter.                                         *)
NativeMutexes == INSTANCE MutexSpec WITH
  Mutexes <- Addrs \ Locks,
  owner <- owners(Addrs \ Locks),
  wants <- requests(Addrs \ Locks)

(* Beside locks that strangers release the mutexes of the interpreter still*)
(* go only to threads that asked for them, from their owners or when free. *)
ImplementsMutexes == NativeMutexes!Spec

(* The inductive invariant.                                                *)
LockInv == WaitInv /\ MutexesUndisturbed
=============================================================================
