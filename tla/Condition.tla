------------------------------ MODULE Condition ------------------------------
(***************************************************************************)
(* threading.Condition (Lib/threading.py): conditions that share one lock. *)
(* Whatever a thread does with the lock held is one action of it.  Each    *)
(* wait has a waiter lock of its own, which notify releases; a thread is   *)
(* in one wait at a time, so that the thread stands for its waiter lock.   *)
(***************************************************************************)
EXTENDS Naturals, Sequences, FiniteSets, SequencesExt

CONSTANTS Threads, Conditions, NULL

ASSUME ConditionAssumption == NULL \notin Conditions /\ IsFiniteSet(Threads)

VARIABLES
  pc,         \* "idle", "asleep" in a wait, "awake" and about to take the lock again
  on,         \* the condition a thread waits for, or NULL
  gotit,      \* gotit in wait()
  waiters,    \* condition._waiters
  notified    \* the threads whose waiter lock notify has released

conditionVars == <<pc, on, gotit, waiters, notified>>

ConditionTypeOK ==
  /\ pc \in [Threads -> {"idle", "asleep", "awake"}]
  /\ on \in [Threads -> Conditions \union {NULL}]
  /\ gotit \in [Threads -> BOOLEAN]
  /\ waiters \in [Conditions -> Seq(Threads)]
  /\ notified \subseteq Threads

ConditionInit ==
  /\ pc = [t \in Threads |-> "idle"]
  /\ on = [t \in Threads |-> NULL]
  /\ gotit = [t \in Threads |-> FALSE]
  /\ waiters = [c \in Conditions |-> <<>>]
  /\ notified = {}

(* Without the lock: waiter.acquire() succeeds or its time is over.  Until *)
(* the thread has the lock again a notification may still go to it.        *)
WakeUp(t) ==
  /\ pc[t] = "asleep"
  /\ t \in notified
  /\ pc' = [pc EXCEPT ![t] = "awake"]
  /\ gotit' = [gotit EXCEPT ![t] = TRUE]
  /\ UNCHANGED <<on, waiters, notified>>

TimeOut(t) ==
  /\ pc[t] = "asleep"
  /\ t \notin notified
  /\ pc' = [pc EXCEPT ![t] = "awake"]
  /\ UNCHANGED <<on, gotit, waiters, notified>>

(* With the lock again: who has not been notified in time takes its waiter *)
(* out of the list, if it is still there.                                  *)
Waiters(t) ==
  IF pc[t] = "awake" /\ ~ gotit[t]
  THEN [waiters EXCEPT ![on[t]] = RemoveFirst(@, t)]
  ELSE waiters

(* wait() begins: a new waiter, which gives the lock back.                 *)
Wait(t, c) ==
  /\ pc' = [pc EXCEPT ![t] = "asleep"]
  /\ on' = [on EXCEPT ![t] = c]
  /\ gotit' = [gotit EXCEPT ![t] = FALSE]
  /\ waiters' = [Waiters(t) EXCEPT ![c] = Append(@, t)]
  /\ notified' = notified \ {t}

(* The thread gives the lock back for good, after it has notified n[c] of  *)
(* the waiters of each condition.                                          *)
Notified(ws, n) ==
  UNION {{ws[c][i] : i \in {i \in DOMAIN ws[c] : i <= n[c]}} : c \in Conditions}

LeaveNotifying(t, n) ==
  /\ pc' = [pc EXCEPT ![t] = "idle"]
  /\ on' = [on EXCEPT ![t] = NULL]
  /\ gotit' = [gotit EXCEPT ![t] = FALSE]
  /\ waiters' = [c \in Conditions |-> SubSeq(Waiters(t)[c], n[c] + 1, Len(Waiters(t)[c]))]
  /\ notified' = (notified \ {t}) \union Notified(Waiters(t), n)

Leave(t) == LeaveNotifying(t, [c \in Conditions |-> 0])

-----------------------------------------------------------------------------
(* Who is in a wait of c, and who of them has been notified.               *)
Told(c) == {t \in Threads : on[t] = c /\ t \in notified}
Untold(c) == {t \in Threads : on[t] = c /\ t \notin notified}

(* Where a thread is, and what it has heard of notifications.              *)
PlaceInv ==
  \A t \in Threads :
    /\ pc[t] = "idle" <=> on[t] = NULL
    /\ gotit[t] => pc[t] = "awake" /\ t \in notified
    /\ t \in notified => on[t] # NULL

(* The list of a condition holds who waits for it and is not notified,     *)
(* once each.                                                              *)
ListInv ==
  \A c \in Conditions : IsInjective(waiters[c]) /\ ToSet(waiters[c]) = Untold(c)

ConditionInv == ConditionTypeOK /\ PlaceInv /\ ListInv
=============================================================================
