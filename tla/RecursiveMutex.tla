--------------------------- MODULE RecursiveMutex ---------------------------
(***************************************************************************)
(* _PyRecursiveMutex (Python/lock.c) and threading.RLock, which is one and *)
(* gives all its levels up while a condition variable waits.  Its PyMutex  *)
(* is the abstract one (MutexSpec): the lock bit, taken when it is free.   *)
(* The owner's identity is read by other threads without the mutex.        *)
(***************************************************************************)
EXTENDS LockWords

CONSTANT MaxLevel    \* bound: nested locks of one thread

ASSUME RecursiveMutexAssumption == MaxLevel \in Nat

VARIABLES
  thread,   \* m->thread, NULL for 0
  level,    \* m->level
  saved,    \* the count _release_save has returned to t, 0 for none
  depth     \* history: t's locks minus its unlocks

recVars == <<thread, level, saved, depth>>

RecInit ==
  /\ thread = [a \in Addrs |-> NULL]
  /\ level = [a \in Addrs |-> 0]
  /\ saved = [t \in Threads |-> 0]
  /\ depth = [t \in Threads |-> 0]

IsOwnedBy(a, t) == thread[a] = t

(* A first lock, or one of a thread that is inside.                        *)
RecursiveLock(t, a) ==
  /\ depth[t] < MaxLevel
  /\ depth' = [depth EXCEPT ![t] = @ + 1]
  /\ \/ pc[t] = "idle"
     \/ pc[t] = "inside" /\ doing[t] = "Recursive" /\ on[t] = a
  /\ on' = [on EXCEPT ![t] = a]
  /\ doing' = [doing EXCEPT ![t] = "Recursive"]
  /\ IF IsOwnedBy(a, t)
     THEN level' = [level EXCEPT ![a] = @ + 1] /\ Goto(t, "inside")
     ELSE UNCHANGED level /\ Goto(t, "mutex")
  /\ UNCHANGED <<lotVars, word, v, posts, thread, saved>>

TakeMutex(t) ==
  /\ pc[t] = "mutex"
  /\ ~ word[on[t]].locked
  /\ Set(t, [Zero EXCEPT !.locked = TRUE])
  /\ Goto(t, "stamp")
  /\ UNCHANGED <<lotVars, on, doing, v, posts, recVars>>

(* The owner is stored; _acquire_restore stores the saved count as well.   *)
Stamp(t) ==
  /\ pc[t] = "stamp"
  /\ thread' = [thread EXCEPT ![on[t]] = t]
  /\ level' = [level EXCEPT ![on[t]] = IF saved[t] = 0 THEN @ ELSE saved[t] - 1]
  /\ saved' = [saved EXCEPT ![t] = 0]
  /\ Goto(t, "inside")
  /\ UNCHANGED <<lotVars, word, on, doing, v, posts, depth>>

(* Mutant: the owner is cleared after the mutex is unlocked.               *)
RecursiveUnlockLate(t) ==
  /\ pc[t] = "inside" /\ doing[t] = "Recursive"
  /\ depth' = [depth EXCEPT ![t] = @ - 1]
  /\ IF level[on[t]] > 0
     THEN /\ level' = [level EXCEPT ![on[t]] = @ - 1]
          /\ UNCHANGED <<thread, pc>>
     ELSE /\ UNCHANGED <<thread, level>>
          /\ Goto(t, "drop")
  /\ UNCHANGED <<lotVars, word, on, doing, v, posts, saved>>

(* The outermost unlock clears the owner first.                            *)
RecursiveUnlock(t) ==
  /\ pc[t] = "inside" /\ doing[t] = "Recursive"
  /\ IsOwnedBy(on[t], t)
  /\ depth' = [depth EXCEPT ![t] = @ - 1]
  /\ IF level[on[t]] > 0
     THEN /\ level' = [level EXCEPT ![on[t]] = @ - 1]
          /\ UNCHANGED <<thread, pc>>
     ELSE /\ thread' = [thread EXCEPT ![on[t]] = NULL]
          /\ Goto(t, "drop")
          /\ UNCHANGED level
  /\ UNCHANGED <<lotVars, word, on, doing, v, posts, saved>>

(* _release_save: however deep it is, the mutex is unlocked.               *)
ReleaseSave(t) ==
  /\ pc[t] = "inside" /\ doing[t] = "Recursive"
  /\ IsOwnedBy(on[t], t)
  /\ saved' = [saved EXCEPT ![t] = level[on[t]] + 1]
  /\ level' = [level EXCEPT ![on[t]] = 0]
  /\ thread' = [thread EXCEPT ![on[t]] = NULL]
  /\ Goto(t, "drop")
  /\ UNCHANGED <<lotVars, word, on, doing, v, posts, depth>>

(* PyMutex_Unlock; after _release_save the thread comes back for its lock  *)
(* (_acquire_restore).                                                     *)
DropMutex(t) ==
  /\ pc[t] = "drop"
  /\ Set(t, Zero)
  /\ IF saved[t] = 0
     THEN Return(t)
     ELSE Goto(t, "mutex") /\ UNCHANGED <<on, doing, v>>
  /\ UNCHANGED <<lotVars, posts, recVars>>

RecursiveStep(t) ==
  TakeMutex(t) \/ Stamp(t) \/ RecursiveUnlock(t) \/ DropMutex(t)
=============================================================================
