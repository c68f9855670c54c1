------------------------------ MODULE RawMutex ------------------------------
(***************************************************************************)
(* _PyRawMutex (Python/lock.c, Include/internal/pycore_lock.h): the        *)
(* word-sized mutex below the parking lot.  Its word packs a lock bit and  *)
(* a pointer to a list of waiters; every waiter is a record on the stack   *)
(* of the thread that waits, with a semaphore of its own.                  *)
(*                                                                         *)
(* One action is one atomic operation of the C code together with the      *)
(* thread-local work around it.  A waiter record is named by its thread: a *)
(* thread is in at most one _PyRawMutex_LockSlow at a time.                *)
(***************************************************************************)
EXTENDS Naturals, FiniteSets, Functions, Sequences

CONSTANTS
  Threads,    \* the threads that use the mutex
  NULL,       \* the null waiter pointer
  MaxRounds   \* bound: how many times a thread calls _PyRawMutex_Lock

ASSUME RawMutexAssumption ==
  /\ NULL \notin Threads
  /\ IsFiniteSet(Threads)
  /\ MaxRounds \in Nat

VARIABLES
  word,     \* m->v: the lock bit and the head of the waiter list
  next,     \* waiter.next of every thread's record
  sema,     \* the count of every record's semaphore
  alive,    \* is the record (and its semaphore) within its lifetime?
  pc,       \* where each thread is
  v,        \* the local v: the last value of the word the thread has seen
  after,    \* the local next_waiter of _PyRawMutex_UnlockSlow
  rounds    \* how many calls of _PyRawMutex_Lock each thread has made

vars == <<word, next, sema, alive, pc, v, after, rounds>>

Waiter == Threads \union {NULL}
Word   == [locked : BOOLEAN, head : Waiter]
Unlocked == [locked |-> FALSE, head |-> NULL]    \* _Py_UNLOCKED
Locked   == [locked |-> TRUE,  head |-> NULL]    \* _Py_LOCKED

(* Inside LockSlow the thread is at "load" .. "sleep"; it owns the mutex   *)
(* from "held" until its unlock has changed the word.                      *)
Slow    == {"load", "try", "sleep"}
Holding == {"held", "unlock_load", "unlock_try", "unlock_cas"}
Place   == {"idle", "wakeup", "fatal"} \union Slow \union Holding

TypeOK ==
  /\ word   \in Word
  /\ next   \in [Threads -> Waiter]
  /\ sema   \in [Threads -> 0 .. 1]    \* one wakeup per record at most
  /\ alive  \in [Threads -> BOOLEAN]
  /\ pc     \in [Threads -> Place]
  /\ v      \in [Threads -> Word]
  /\ after  \in [Threads -> Waiter]
  /\ rounds \in [Threads -> 0 .. MaxRounds]

Init ==
  /\ word   = Unlocked
  /\ next   = [t \in Threads |-> NULL]
  /\ sema   = [t \in Threads |-> 0]
  /\ alive  = [t \in Threads |-> FALSE]
  /\ pc     = [t \in Threads |-> "idle"]
  /\ v      = [t \in Threads |-> Unlocked]
  /\ after  = [t \in Threads |-> NULL]
  /\ rounds = [t \in Threads |-> 0]

Goto(t, place) == pc' = [pc EXCEPT ![t] = place]

(* A strong compare-exchange of the word: on failure the expected value,   *)
(* held in v[t], is overwritten with what the word was.                    *)
CasSucceeds(t, new) ==
  /\ word = v[t]
  /\ word' = new
  /\ v' = v
CasFails(t) ==
  /\ word # v[t]
  /\ v' = [v EXCEPT ![t] = word]
  /\ word' = word

-----------------------------------------------------------------------------
(* Locking *)

(* _PyRawMutex_Lock: the fast path expects an unlocked word without        *)
(* waiters; otherwise LockSlow starts with a fresh semaphore.              *)
Lock(t) ==
  /\ pc[t] = "idle"
  /\ rounds[t] < MaxRounds
  /\ rounds' = [rounds EXCEPT ![t] = @ + 1]
  /\ \/ /\ word = Unlocked
        /\ word' = Locked
        /\ Goto(t, "held")
        /\ UNCHANGED <<sema, alive>>
     \/ /\ word # Unlocked
        /\ word' = word
        /\ sema' = [sema EXCEPT ![t] = 0]
        /\ alive' = [alive EXCEPT ![t] = TRUE]
        /\ Goto(t, "load")
  /\ UNCHANGED <<next, v, after>>

LoadForLock(t) ==
  /\ pc[t] = "load"
  /\ v' = [v EXCEPT ![t] = word]
  /\ Goto(t, "try")
  /\ UNCHANGED <<word, next, sema, alive, after, rounds>>

(* Mutant: the mutex is taken with a plain store.                          *)
GrabWithStore(t) ==
  /\ pc[t] = "try"
  /\ ~ v[t].locked
  /\ word' = [v[t] EXCEPT !.locked = TRUE]
  /\ alive' = [alive EXCEPT ![t] = FALSE]
  /\ Goto(t, "held")
  /\ UNCHANGED <<next, sema, v, after, rounds>>

(* The word was seen unlocked: try to grab it, waiters or not.             *)
Grab(t) ==
  /\ pc[t] = "try"
  /\ ~ v[t].locked
  /\ \/ /\ CasSucceeds(t, [v[t] EXCEPT !.locked = TRUE])
        /\ alive' = [alive EXCEPT ![t] = FALSE]    \* _PySemaphore_Destroy
        /\ Goto(t, "held")
     \/ /\ CasFails(t)
        /\ UNCHANGED <<alive, pc>>
  /\ UNCHANGED <<next, sema, after, rounds>>

(* The word was seen locked: push our record on the list of waiters.       *)
Enlist(t) ==
  /\ pc[t] = "try"
  /\ v[t].locked
  /\ next' = [next EXCEPT ![t] = v[t].head]
  /\ \/ /\ CasSucceeds(t, [locked |-> TRUE, head |-> t])
        /\ Goto(t, "sleep")
     \/ /\ CasFails(t)
        /\ UNCHANGED pc
  /\ UNCHANGED <<sema, alive, after, rounds>>

(* _PySemaphore_Wait returns Py_PARK_OK; the loop goes round with the v it *)
(* had before it slept.                                                    *)
Woken(t) ==
  /\ pc[t] = "sleep"
  /\ sema[t] > 0
  /\ sema' = [sema EXCEPT ![t] = @ - 1]
  /\ Goto(t, "try")
  /\ UNCHANGED <<word, next, alive, v, after, rounds>>

(* Mutant: an interrupted wait counts as a wakeup.                         *)
InterruptedReturns(t) ==
  /\ pc[t] = "sleep"
  /\ Goto(t, "try")
  /\ UNCHANGED <<word, next, sema, alive, v, after, rounds>>

(* _PySemaphore_Wait returns Py_PARK_INTR, at any time (a signal, or a     *)
(* condition variable's spurious wakeup): the do-while loop waits again.   *)
Interrupted(t) ==
  /\ pc[t] = "sleep"
  /\ UNCHANGED vars

-----------------------------------------------------------------------------
(* Unlocking *)

(* Mutant: the fast path ignores the waiters.                              *)
UnlockIgnoresWaiters(t) ==
  /\ pc[t] = "held"
  /\ word' = [word EXCEPT !.locked = FALSE]
  /\ Goto(t, "idle")
  /\ UNCHANGED <<next, sema, alive, v, after, rounds>>

(* _PyRawMutex_Unlock: the fast path expects a locked word without waiters.*)
Unlock(t) ==
  /\ pc[t] = "held"
  /\ \/ /\ word = Locked
        /\ word' = Unlocked
        /\ Goto(t, "idle")
     \/ /\ word # Locked
        /\ word' = word
        /\ Goto(t, "unlock_load")
  /\ UNCHANGED <<next, sema, alive, v, after, rounds>>

LoadForUnlock(t) ==
  /\ pc[t] = "unlock_load"
  /\ v' = [v EXCEPT ![t] = word]
  /\ Goto(t, "unlock_try")
  /\ UNCHANGED <<word, next, sema, alive, after, rounds>>

(* Py_FatalError if the mutex is not locked; otherwise next_waiter is read *)
(* from the first waiter's record, which lives on another thread's stack.  *)
ReadNextWaiter(t) ==
  /\ pc[t] = "unlock_try"
  /\ after' = [after EXCEPT ![t] =
                 IF v[t].head = NULL THEN NULL ELSE next[v[t].head]]
  /\ Goto(t, IF v[t].locked THEN "unlock_cas" ELSE "fatal")
  /\ UNCHANGED <<word, next, sema, alive, v, rounds>>

(* Mutant: the whole list is dropped, one waiter is woken.                 *)
ReleaseDropsList(t) ==
  /\ pc[t] = "unlock_cas"
  /\ \/ /\ CasSucceeds(t, Unlocked)
        /\ Goto(t, IF v[t].head = NULL THEN "idle" ELSE "wakeup")
     \/ /\ CasFails(t)
        /\ Goto(t, "unlock_try")
  /\ UNCHANGED <<next, sema, alive, after, rounds>>

(* Unlock and drop the first waiter from the list in one compare-exchange. *)
Release(t) ==
  /\ pc[t] = "unlock_cas"
  /\ \/ /\ CasSucceeds(t, [locked |-> FALSE, head |-> after[t]])
        /\ Goto(t, IF v[t].head = NULL THEN "idle" ELSE "wakeup")
     \/ /\ CasFails(t)
        /\ Goto(t, "unlock_try")
  /\ UNCHANGED <<next, sema, alive, after, rounds>>

(* _PySemaphore_Wakeup of the waiter that was dropped.                     *)
Wakeup(t) ==
  /\ pc[t] = "wakeup"
  /\ sema' = [sema EXCEPT ![v[t].head] = @ + 1]
  /\ Goto(t, "idle")
  /\ UNCHANGED <<word, next, alive, v, after, rounds>>

-----------------------------------------------------------------------------
Step(t) ==
  \/ Lock(t) \/ LoadForLock(t) \/ Grab(t) \/ Enlist(t) \/ Woken(t) \/ Interrupted(t)
  \/ Unlock(t) \/ LoadForUnlock(t) \/ ReadNextWaiter(t) \/ Release(t) \/ Wakeup(t)

Next == \E t \in Threads : Step(t)

Spec == Init /\ [][Next]_vars

(* Every thread that is inside a call, or owns the mutex, goes on; nothing *)
(* makes an idle thread call _PyRawMutex_Lock.                             *)
InCall(t) == pc[t] # "idle" /\ Step(t)
Fairness == \A t \in Threads : WF_vars(InCall(t))
FairSpec == Spec /\ Fairness

-----------------------------------------------------------------------------
(* Properties *)

(* Two threads never own the mutex at once, and the lock bit of the word   *)
(* says whether one does: the compare-exchanges of Lock, Grab and Release  *)
(* agree with the ownership the callers believe in, stale values of v and  *)
(* barging threads included.                                               *)
MutualExclusion ==
  /\ \A t, u \in Threads : {pc[t], pc[u]} \subseteq Holding => t = u
  /\ word.locked <=> \E t \in Threads : pc[t] \in Holding

(* _PyRawMutex_UnlockSlow never reaches its Py_FatalError when every       *)
(* unlock comes from the owner.                                            *)
NeverFatal == \A t \in Threads : pc[t] # "fatal"

(* The unlocker follows a pointer into another thread's stack twice: to    *)
(* read waiter->next and to post waiter->sema.  The record is alive both   *)
(* times (the comment about Py_PARK_INTR in LockSlow is about this).       *)
RecordsAlive ==
  \A t \in Threads :
    /\ \/ pc[t] = "unlock_try" /\ v[t].locked
       \/ pc[t] = "wakeup"
    /\ v[t].head # NULL
    => alive[v[t].head]

(* s[1], ..., s[n] are the waiters on the list, each of them once.         *)
IsWaiterList(n, s) ==
  /\ word.head = IF n = 0 THEN NULL ELSE s[1]
  /\ \A i \in 1 .. n : next[s[i]] = IF i = n THEN NULL ELSE s[i + 1]

(* Thread u has taken t off the list and is about to wake it.              *)
Waking(u, t) == pc[u] = "wakeup" /\ v[u].head = t

(* A wakeup for t has been posted or is about to be.                       *)
WakeupDue(t) == sema[t] > 0 \/ \E u \in Threads : Waking(u, t)

(* Thread t sleeps and nobody has set out to wake it.                      *)
Parked(t) == pc[t] = "sleep" /\ ~ WakeupDue(t)

(* No waiter is forgotten, and none is woken while still listed: the word  *)
(* heads a well-formed list that holds exactly the sleeping threads that   *)
(* have no wakeup coming, whatever pushes and pops raced on the word.      *)
NoLostWaiter ==
  \E n \in 0 .. Cardinality(Threads) : \E s \in Injection(1 .. n, Threads) :
    /\ IsWaiterList(n, s)
    /\ \A t \in Threads : (\E i \in 1 .. n : s[i] = t) <=> Parked(t)

Owner == IF \E t \in Threads : pc[t] \in Holding
         THEN CHOOSE t \in Threads : pc[t] \in Holding
         ELSE NULL

(* The list as a sequence, and the threads that have a call open and do    *)
(* not wait for anybody.                                                   *)
Lists == UNION {Injection(1 .. n, Threads) : n \in 0 .. Cardinality(Threads)}
Waiters == CHOOSE s \in Lists : IsWaiterList(Len(s), s)
Awake == {t \in Threads : pc[t] \in Slow /\ ~ Parked(t)}

Stack == INSTANCE RawMutexSpec WITH
  owner   <- Owner,
  waiters <- Waiters,
  awake   <- Awake

(* The word, the records linked through the stacks of the threads and the  *)
(* wakeups under way implement one owner and a stack of waiters: between   *)
(* two changes of the word nothing happens that a caller could notice.     *)
ImplementsLock == Stack!Spec

(* A mutex left unlocked with waiters has somebody on the way to take it,  *)
(* whose unlock will wake the next waiter: the wakeup of one waiter is     *)
(* enough although the lock is not handed to it.                           *)
SomeoneWillTake ==
  ~ word.locked /\ word.head # NULL =>
    \E t \in Threads : \/ pc[t] \in {"load", "try"}
                       \/ pc[t] = "sleep" /\ WakeupDue(t)

(* Every thread that starts to lock gets the mutex, as long as the threads *)
(* together lock it finitely often (the list is LIFO and anyone may barge, *)
(* so nothing better holds).                                               *)
EveryLockSucceeds ==
  \A t \in Threads : pc[t] \in Slow ~> pc[t] = "held"

-----------------------------------------------------------------------------
(* The inductive invariant behind the safety properties above.             *)

(* A record is alive exactly while its thread is in LockSlow, and it has   *)
(* a wakeup coming only while the thread sleeps, and only one.             *)
WakeupsInv ==
  \A t \in Threads :
    /\ alive[t] <=> pc[t] \in Slow
    /\ pc[t] = "wakeup" => v[t].head # NULL
    /\ WakeupDue(t) => pc[t] = "sleep"
    /\ \A u \in Threads : Waking(u, t) => sema[t] = 0
    /\ \A u, w \in Threads : Waking(u, t) /\ Waking(w, t) => u = w

(* What the owner has seen on its way through UnlockSlow is still true of  *)
(* the list: only the owner takes waiters off it.                          *)
UnlockInv ==
  \A t \in Threads :
    pc[t] \in {"unlock_try", "unlock_cas"} =>
      /\ v[t].locked
      /\ v[t].head # NULL => Parked(v[t].head)
      /\ pc[t] = "unlock_cas" =>
           after[t] = IF v[t].head = NULL THEN NULL ELSE next[v[t].head]

Inv == TypeOK /\ MutualExclusion /\ NeverFatal /\ NoLostWaiter /\ SomeoneWillTake
       /\ WakeupsInv /\ UnlockInv
=============================================================================
