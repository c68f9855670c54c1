----------------------------- MODULE MutexSpec ------------------------------
(***************************************************************************)
(* What a mutex promises to the threads that use it (PyMutex_Lock,         *)
(* PyMutex_Unlock and _PyMutex_LockTimed as their callers see them).  An   *)
(* owner releases the mutex or passes it to a thread that asked for it; a  *)
(* thread that asked may take a free mutex, overtaking others, or give up, *)
(* and what it was passed it can no longer give up.                        *)
(***************************************************************************)
CONSTANTS Threads, Mutexes, NULL

VARIABLES
  owner,   \* the thread that owns a mutex, or NULL
  wants    \* the mutex a thread has asked for, or NULL

Init ==
  /\ owner = [m \in Mutexes |-> NULL]
  /\ wants = [t \in Threads |-> NULL]

(* Only one request at a time, and none of what is already owned.          *)
Ask(t, m) ==
  /\ wants[t] = NULL
  /\ owner[m] # t
  /\ wants' = [wants EXCEPT ![t] = m]
  /\ UNCHANGED owner

Take(t, m) ==
  /\ wants[t] = m
  /\ owner[m] = NULL
  /\ owner' = [owner EXCEPT ![m] = t]
  /\ wants' = [wants EXCEPT ![t] = NULL]

GiveUp(t, m) ==
  /\ wants[t] = m
  /\ wants' = [wants EXCEPT ![t] = NULL]
  /\ UNCHANGED owner

Release(t, m) ==
  /\ owner[m] = t
  /\ owner' = [owner EXCEPT ![m] = NULL]
  /\ UNCHANGED wants

Pass(t, u, m) ==
  /\ owner[m] = t
  /\ wants[u] = m
  /\ owner' = [owner EXCEPT ![m] = u]
  /\ wants' = [wants EXCEPT ![u] = NULL]

Next ==
  \E t \in Threads, m \in Mutexes :
    \/ Ask(t, m) \/ Take(t, m) \/ GiveUp(t, m) \/ Release(t, m)
    \/ \E u \in Threads : Pass(t, u, m)

Spec == Init /\ [][Next]_<<owner, wants>>
=============================================================================
