------------------------------ MODULE PyMutex -------------------------------
(***************************************************************************)
(* PyMutex (Python/lock.c): the one-byte mutex of the interpreter and of   *)
(* threading.Lock.  Its byte has a lock bit and a bit that says a thread   *)
(* may be parked; the waiters are in the parking lot.  One action is one   *)
(* atomic operation on the byte, or one step of the parking lot, together  *)
(* with the thread-local work around it.  A mutex is its address.          *)
(*                                                                         *)
(* Time is abstracted: a wait with a finite timeout may expire, and a      *)
(* waiter may become old enough for a fair hand-off (TIME_TO_BE_FAIR_NS),  *)
(* at any moment.                                                          *)
(***************************************************************************)
EXTENDS ParkingLot

CONSTANTS
  Calls,       \* the ways _PyMutex_LockTimed is called
  MaxSpin,     \* MAX_SPIN_COUNT: 0 with the GIL, positive without
  Ends,        \* how a semaphore wait may end early: "timeout", "intr"
  MayFinalize, \* may the runtime begin to finalize?
  MaxCalls     \* bound: the locks one thread may take; 0 is no bound

(* timeout: "zero" only tries, "finite" waits for a while, "forever" waits.*)
(* signals: what an interrupted wait does (_PY_LOCK_HANDLE_SIGNALS,        *)
(* _PY_FAIL_IF_INTERRUPTED, neither).  python: _PY_LOCK_PYTHONLOCK.        *)
Timeout == {"zero", "finite", "forever"}
Call == [timeout : Timeout, signals : {"ignore", "handle", "fail"}, python : BOOLEAN]
NoCall == [timeout |-> "zero", signals |-> "ignore", python |-> FALSE]

ASSUME PyMutexAssumption ==
  /\ Calls \subseteq Call
  /\ MaxSpin \in Nat
  /\ Ends \subseteq Expired
  /\ MayFinalize \in BOOLEAN
  /\ MaxCalls \in Nat

VARIABLES
  word,       \* m->_bits of every mutex
  pc,         \* where each thread is
  on,         \* the mutex it locks, holds or unlocks
  call,       \* the arguments of its call, with what is left of the timeout
  v,          \* the local v: the last value of the byte it has seen
  spin,       \* spin_count
  aged,       \* is now > entry.time_to_be_fair?
  handed,     \* entry.handed_off
  wakes,      \* the waiter it is about to wake in _PyParkingLot_Unpark
  calls,      \* how many locks it has asked for
  finalizing  \* Py_IsFinalizing()

mutexVars == <<word, pc, on, call, v, spin, aged, handed, wakes, calls, finalizing>>
vars == <<lotVars, mutexVars>>

Word == [locked : BOOLEAN, parked : BOOLEAN]
Unlocked == [locked |-> FALSE, parked |-> FALSE]    \* _Py_UNLOCKED
Contended == [locked |-> TRUE, parked |-> TRUE]     \* _Py_LOCKED | _Py_HAS_PARKED

Locking == {"fast", "loop", "park", "parked", "reload"}

TypeOK ==
  /\ LotTypeOK
  /\ word    \in [Addrs -> Word]
  /\ pc      \in [Threads -> {"idle", "held", "unlock", "wake", "fatal"} \union Locking]
  /\ on      \in [Threads -> Addrs \union {NULL}]
  /\ call    \in [Threads -> Call]
  /\ v       \in [Threads -> Word]
  /\ spin    \in [Threads -> 0 .. MaxSpin]
  /\ aged    \in [Threads -> BOOLEAN]
  /\ handed  \in [Threads -> BOOLEAN]
  /\ wakes   \in [Threads -> Threads \union {NULL}]
  /\ calls   \in [Threads -> 0 .. MaxCalls]
  /\ finalizing \in BOOLEAN

Init ==
  /\ LotInit
  /\ word    = [m \in Addrs |-> Unlocked]
  /\ pc      = [t \in Threads |-> "idle"]
  /\ on      = [t \in Threads |-> NULL]
  /\ call    = [t \in Threads |-> NoCall]
  /\ v       = [t \in Threads |-> Unlocked]
  /\ spin    = [t \in Threads |-> 0]
  /\ aged    = [t \in Threads |-> FALSE]
  /\ handed  = [t \in Threads |-> FALSE]
  /\ wakes   = [t \in Threads |-> NULL]
  /\ calls   = [t \in Threads |-> 0]
  /\ finalizing = FALSE

Goto(t, place) == pc' = [pc EXCEPT ![t] = place]

(* A call is over and its locals with it.                                  *)
Return(t, place) ==
  /\ Goto(t, place)
  /\ on' = [on EXCEPT ![t] = IF place = "held" THEN @ ELSE NULL]
  /\ call' = [call EXCEPT ![t] = NoCall]
  /\ v' = [v EXCEPT ![t] = Unlocked]
  /\ spin' = [spin EXCEPT ![t] = 0]
  /\ aged' = [aged EXCEPT ![t] = FALSE]
  /\ handed' = [handed EXCEPT ![t] = FALSE]

(* The thread sees the current value of the byte (a load, or a failed      *)
(* compare-exchange, which stores it in the expected value v).             *)
See(t) == v' = [v EXCEPT ![t] = word[on[t]]]

-----------------------------------------------------------------------------
(* _PyMutex_LockTimed *)

Lock(t, m, c) ==
  /\ pc[t] = "idle"
  /\ calls' = IF MaxCalls = 0 THEN calls ELSE [calls EXCEPT ![t] = @ + 1]
  /\ MaxCalls = 0 \/ calls[t] < MaxCalls
  /\ on' = [on EXCEPT ![t] = m]
  /\ call' = [call EXCEPT ![t] = c]
  /\ v' = [v EXCEPT ![t] = word[m]]
  /\ Goto(t, "fast")
  /\ UNCHANGED <<lotVars, word, spin, aged, handed, wakes, finalizing>>

(* The compare-exchange that sets the lock bit succeeds.                   *)
Grab(t) ==
  /\ ~ v[t].locked
  /\ word[on[t]] = v[t]
  /\ word' = [word EXCEPT ![on[t]].locked = TRUE]
  /\ Return(t, "held")

(* One try, and without a timeout only one.                                *)
FastPath(t) ==
  /\ pc[t] = "fast"
  /\ \/ Grab(t)
     \/ /\ v[t].locked \/ word[on[t]] # v[t]
        /\ \/ /\ call[t].timeout = "zero"
              /\ Return(t, "idle")
           \/ /\ call[t].timeout # "zero"
              /\ IF v[t].locked THEN UNCHANGED v ELSE See(t)
              /\ Goto(t, "loop")
              /\ UNCHANGED <<on, call, spin, aged, handed>>
        /\ UNCHANGED word
  /\ UNCHANGED <<lotVars, wakes, calls, finalizing>>

(* In the loop, with the lock bit seen clear.                              *)
TryGrab(t) ==
  /\ pc[t] = "loop"
  /\ \/ Grab(t)
     \/ /\ ~ v[t].locked
        /\ word[on[t]] # v[t]
        /\ See(t)
        /\ UNCHANGED <<word, pc, on, call, spin, aged, handed>>
  /\ UNCHANGED <<lotVars, wakes, calls, finalizing>>

(* _Py_yield; one spin in RELOAD_SPIN_MASK + 1, which depends on the       *)
(* thread's id, looks at the byte again.                                   *)
Spin(t) ==
  /\ pc[t] = "loop"
  /\ v[t].locked /\ ~ v[t].parked
  /\ spin[t] < MaxSpin
  /\ spin' = [spin EXCEPT ![t] = @ + 1]
  /\ See(t) \/ UNCHANGED v
  /\ UNCHANGED <<lotVars, word, pc, on, call, aged, handed, wakes, calls, finalizing>>

(* The lock bit was seen set and spinning is over.                         *)
Blocked(t) ==
  /\ pc[t] = "loop"
  /\ v[t].locked
  /\ v[t].parked \/ spin[t] = MaxSpin

MustRaise(t) == call[t].python /\ finalizing

(* Mutant: a thread whose time is over gives up before it looks at the     *)
(* lock bit.                                                               *)
GiveUpUnlocked(t) ==
  /\ pc[t] = "loop"
  /\ call[t].timeout = "zero" \/ MustRaise(t)
  /\ Return(t, "idle")
  /\ UNCHANGED <<lotVars, word, wakes, calls, finalizing>>

(* PY_LOCK_FAILURE: the time is over, or PythonFinalizationError is raised.*)
GiveUp(t) ==
  /\ Blocked(t)
  /\ call[t].timeout = "zero" \/ MustRaise(t)
  /\ Return(t, "idle")
  /\ UNCHANGED <<lotVars, word, wakes, calls, finalizing>>

(* The first waiter sets _Py_HAS_PARKED.                                   *)
SetParked(t) ==
  /\ Blocked(t)
  /\ call[t].timeout # "zero" /\ ~ MustRaise(t)
  /\ \/ /\ v[t].parked
        /\ Goto(t, "park")
        /\ UNCHANGED <<word, v>>
     \/ /\ ~ v[t].parked
        /\ word[on[t]] = v[t]
        /\ word' = [word EXCEPT ![on[t]].parked = TRUE]
        /\ Goto(t, "park")
        /\ UNCHANGED v
     \/ /\ ~ v[t].parked
        /\ word[on[t]] # v[t]
        /\ See(t)
        /\ UNCHANGED <<word, pc>>
  /\ UNCHANGED <<lotVars, on, call, spin, aged, handed, wakes, calls, finalizing>>

(* _PyParkingLot_Park on the value the thread has seen, which is Contended *)
(* (newv), or Py_PARK_AGAIN.                                               *)
Park(t) ==
  /\ pc[t] = "park"
  /\ \/ /\ word[on[t]] = Contended
        /\ Enqueue(t, on[t])
        /\ Goto(t, "parked")
     \/ /\ word[on[t]] # Contended
        /\ Goto(t, "reload")
        /\ UNCHANGED lotVars
  /\ UNCHANGED <<word, on, call, v, spin, aged, handed, wakes, calls, finalizing>>

(* Mutant: a thread that was handed the mutex competes for it.             *)
WokenCompetes(t) ==
  /\ pc[t] = "parked"
  /\ ParkOK(t)
  /\ Goto(t, "reload")
  /\ UNCHANGED <<on, call, v, spin, aged, handed>>
  /\ UNCHANGED <<word, wakes, calls, finalizing>>

(* Park returns Py_PARK_OK: the mutex was handed over, or it is contended. *)
Woken(t) ==
  /\ pc[t] = "parked"
  /\ ParkOK(t)
  /\ \/ /\ handed[t]
        /\ Return(t, "held")
     \/ /\ ~ handed[t]
        /\ Goto(t, "reload")
        /\ UNCHANGED <<on, call, v, spin, aged, handed>>
  /\ UNCHANGED <<word, wakes, calls, finalizing>>

(* The semaphore wait ends without a wakeup.                               *)
Expire(t) ==
  /\ pc[t] = "parked"
  /\ \E cause \in Ends :
       /\ cause = "timeout" => call[t].timeout = "finite"
       /\ WaitExpires(t, cause)
  /\ UNCHANGED mutexVars

Drain(t) ==
  /\ pc[t] = "parked"
  /\ MustDrain(t)
  /\ UNCHANGED mutexVars

(* Park returns Py_PARK_TIMEOUT or Py_PARK_INTR.  Interrupted, the thread  *)
(* runs the signal handlers, which may raise, or fails, or tries again.    *)
ParkFails(t) ==
  /\ pc[t] = "parked"
  /\ Withdraw(t)
  /\ \/ /\ park[t] = "timeout" \/ call[t].signals # "ignore"
        /\ Return(t, "idle")
     \/ /\ park[t] = "intr" /\ call[t].signals # "fail"
        /\ Goto(t, "reload")
        /\ UNCHANGED <<on, call, v, spin, aged, handed>>
  /\ UNCHANGED <<word, wakes, calls, finalizing>>

(* _PyDeadline_Get, then the byte is loaded again.                         *)
Reload(t) ==
  /\ pc[t] = "reload"
  /\ \/ UNCHANGED call
     \/ /\ call[t].timeout = "finite"
        /\ call' = [call EXCEPT ![t].timeout = "zero"]
  /\ See(t)
  /\ Goto(t, "loop")
  /\ UNCHANGED <<lotVars, word, on, spin, aged, handed, wakes, calls, finalizing>>

(* TIME_TO_BE_FAIR_NS have passed since the call (read by mutex_unpark of  *)
(* a parked thread only).                                                  *)
Age(t) ==
  /\ pc[t] = "parked"
  /\ aged' = [aged EXCEPT ![t] = TRUE]
  /\ UNCHANGED <<lotVars, word, pc, on, call, v, spin, handed, wakes, calls, finalizing>>

-----------------------------------------------------------------------------
(* PyMutex_Unlock, _PyMutex_TryUnlock *)

(* Where TryUnlock goes when it has seen the byte: PyMutex_Unlock calls    *)
(* Py_FatalError when the mutex is not locked.                             *)
SeeLocked(t) ==
  /\ See(t)
  /\ Goto(t, IF word[on[t]].locked THEN "unlock" ELSE "fatal")

Unlock(t) ==
  /\ pc[t] = "held"
  /\ SeeLocked(t)
  /\ UNCHANGED <<lotVars, word, on, call, spin, aged, handed, wakes, calls, finalizing>>

(* Mutant: the fast path stores without comparing.                         *)
UnlockStores(t) ==
  /\ pc[t] = "unlock"
  /\ ~ v[t].parked
  /\ word' = [word EXCEPT ![on[t]] = Unlocked]
  /\ Return(t, "idle")
  /\ UNCHANGED <<lotVars, wakes, calls, finalizing>>

(* No waiters: one compare-exchange.                                       *)
UnlockFast(t) ==
  /\ pc[t] = "unlock"
  /\ ~ v[t].parked
  /\ \/ /\ word[on[t]] = v[t]
        /\ word' = [word EXCEPT ![on[t]] = Unlocked]
        /\ Return(t, "idle")
     \/ /\ word[on[t]] # v[t]
        /\ SeeLocked(t)
        /\ UNCHANGED <<word, on, call, spin, aged, handed>>
  /\ UNCHANGED <<lotVars, wakes, calls, finalizing>>

(* Mutant: the byte forgets the waiters that are left.                     *)
HandOverForgets(t, w) ==
  /\ Dequeue(on[t], w)
  /\ word' = [word EXCEPT ![on[t]] = [locked |-> aged[w], parked |-> FALSE]]
  /\ handed' = [handed EXCEPT ![w] = aged[w]]

(* mutex_unpark with a waiter, run under the bucket mutex.                 *)
HandOver(t, w) ==
  /\ Dequeue(on[t], w)
  /\ word' = [word EXCEPT ![on[t]] =
                [locked |-> aged[w], parked |-> HasMoreWaiters(on[t])]]
  /\ handed' = [handed EXCEPT ![w] = aged[w]]

(* _PyParkingLot_Unpark: at most one waiter is dequeued, the byte is       *)
(* stored, and the waiter is woken outside of the bucket mutex.            *)
Unpark(t) ==
  /\ pc[t] = "unlock"
  /\ v[t].parked
  /\ \/ /\ NoWaiter(on[t])
        /\ word' = [word EXCEPT ![on[t]] = Unlocked]
        /\ Return(t, "idle")
        /\ UNCHANGED <<lotVars, wakes>>
     \/ \E w \in Threads :
          /\ HandOver(t, w)
          /\ wakes' = [wakes EXCEPT ![t] = w]
          /\ Goto(t, "wake")
          /\ on' = [on EXCEPT ![t] = NULL]
          /\ v' = [v EXCEPT ![t] = Unlocked]
          /\ UNCHANGED <<call, spin, aged>>
  /\ UNCHANGED <<calls, finalizing>>

Wake(t) ==
  /\ pc[t] = "wake"
  /\ Wakeup(wakes[t])
  /\ wakes' = [wakes EXCEPT ![t] = NULL]
  /\ Goto(t, "idle")
  /\ UNCHANGED <<word, on, call, v, spin, aged, handed, calls, finalizing>>

-----------------------------------------------------------------------------
(* The runtime begins to finalize.                                         *)
Finalize ==
  /\ MayFinalize
  /\ finalizing' = TRUE
  /\ UNCHANGED <<lotVars, word, pc, on, call, v, spin, aged, handed, wakes, calls>>

(* What a thread inside a call, or in a critical section, does next.       *)
Step(t) ==
  \/ FastPath(t) \/ TryGrab(t) \/ Spin(t) \/ GiveUp(t) \/ SetParked(t) \/ Park(t)
  \/ Woken(t) \/ Drain(t) \/ ParkFails(t) \/ Reload(t)
  \/ Unlock(t) \/ UnlockFast(t) \/ Unpark(t) \/ Wake(t)

Next ==
  \/ \E t \in Threads : \/ \E m \in Addrs, c \in Calls : Lock(t, m, c)
                        \/ Step(t) \/ Expire(t) \/ Age(t)
  \/ Finalize

Spec == Init /\ [][Next]_vars

(* A running thread goes on, critical sections end, and time passes; that  *)
(* a thread calls, that a wait is cut short, is up to the environment.     *)
Fairness == \A t \in Threads : WF_vars(Step(t)) /\ WF_vars(Age(t))
FairSpec == Spec /\ Fairness

-----------------------------------------------------------------------------
(* Properties *)

(* Somebody handed t its mutex while it was parked.                        *)
HandedOver(t) == pc[t] = "parked" /\ unparking[t] /\ handed[t]

(* Thread t owns the mutex m.                                              *)
Owns(t, m) == on[t] = m /\ (pc[t] \in {"held", "unlock"} \/ HandedOver(t))

(* A mutex has one owner at a time, and has one exactly while its lock bit *)
(* is set: the compare-exchanges, the plain store under the bucket mutex   *)
(* and the hand-off agree, and a hand-off that races with the waiter's     *)
(* timeout or signal is neither dropped nor taken twice.                   *)
Exclusive(m) ==
  /\ \A t, u \in Threads : Owns(t, m) /\ Owns(u, m) => t = u
  /\ word[m].locked <=> \E t \in Threads : Owns(t, m)

MutualExclusion == \A m \in Addrs : Exclusive(m)

(* The mutexes of a set M as their users see them: see MutexSpec.          *)
Asked(t) == pc[t] \in Locking /\ ~ HandedOver(t)

Wants(t) == IF Asked(t) THEN on[t] ELSE NULL

Owner(m) == IF \E t \in Threads : Owns(t, m)
            THEN CHOOSE t \in Threads : Owns(t, m)
            ELSE NULL

owners(M) == [m \in M |-> Owner(m)]
requests(M) == [t \in Threads |-> IF Wants(t) \in M THEN Wants(t) ELSE NULL]

Mutex == INSTANCE MutexSpec WITH
  Mutexes <- Addrs,
  owner <- owners(Addrs),
  wants <- requests(Addrs)

(* The byte, the parking lot and the hand-off implement MutexSpec: a mutex *)
(* goes only to a thread that asked for it and has not given up, and only  *)
(* from its owner or when it is free.                                      *)
ImplementsMutex == Mutex!Spec

(* PyMutex_Unlock never reaches its Py_FatalError when owners unlock.      *)
NeverFatal == \A t \in Threads : pc[t] # "fatal"

(* A waiter that unlocks would have to wake is announced in the byte.      *)
WaitersAnnounced ==
  \A t \in Threads : Queued(t) => at[t] = on[t] /\ word[at[t]].parked

(* Thread t is about to try for the unlocked m: woken without a hand-off,  *)
(* about to load the byte again, or in the loop with the byte as it is.    *)
Tries(t, m) ==
  /\ on[t] = m
  /\ \/ pc[t] = "parked" /\ unparking[t] /\ ~ handed[t]
     \/ pc[t] = "reload"
     \/ pc[t] = "loop" /\ v[t] = word[m]

(* No wakeup is lost: while a mutex with waiters is unlocked, a thread is  *)
(* about to try for it, and does so before it looks at its timeout.        *)
NoLostWakeup ==
  \A m \in Addrs :
    ~ word[m].locked /\ (\E t \in Threads : Queued(t) /\ at[t] = m) =>
      \E t \in Threads : Tries(t, m)

(* The unparker posts a semaphore on the waiter's stack outside of the     *)
(* bucket mutex: the waiter is still inside Park then.                     *)
EntriesAlive ==
  \A t \in Threads : pc[t] = "wake" =>
    /\ park[wakes[t]] # "out"
    /\ unparking[wakes[t]]
    /\ sema[wakes[t]] = 0

(* Fair hand-off avoids starvation: a parked thread that has waited for    *)
(* TIME_TO_BE_FAIR_NS gets the mutex although others lock and unlock it    *)
(* for ever, since its bucket is served in order, or its own wait is over. *)
NoStarvation ==
  \A t \in Threads :
    Queued(t) /\ aged[t] ~> pc[t] = "held" \/ park[t] \in Expired

NewCall == \E t \in Threads, m \in Addrs, c \in Calls : Lock(t, m, c)

(* Every lock call returns, whatever timeouts and signals interrupt waits, *)
(* unless threads make new calls for ever: who is awake may lose every race*)
(* against those, since only who is parked is served in order.             *)
EveryCallReturns ==
  \/ []<><<NewCall>>_vars
  \/ \A t \in Threads : pc[t] \in Locking ~> pc[t] \notin Locking

-----------------------------------------------------------------------------
(* The inductive invariant behind the safety properties above.             *)

(* A thread has a wait entry exactly while it is in Park, for the mutex of *)
(* its call; only a dequeued entry is handed the mutex, posted or drained. *)
EntryInv ==
  \A t \in Threads :
    /\ park[t] # "out" <=> pc[t] = "parked"
    /\ at[t] = IF pc[t] = "parked" THEN on[t] ELSE NULL
    /\ handed[t] \/ park[t] = "drain" \/ sema[t] > 0 => unparking[t]
    /\ unparking[t] => pc[t] = "parked"

(* A thread works on a mutex from its call on; every thread that is about  *)
(* to post a semaphore has a waiter of its own.                            *)
CallInv ==
  /\ \A t \in Threads :
       /\ on[t] = NULL <=> pc[t] \in {"idle", "wake"}
       /\ wakes[t] # NULL <=> pc[t] = "wake"
  /\ \A t, u \in Threads : wakes[t] # NULL /\ wakes[t] = wakes[u] => t = u

(* What holds whoever unlocks: see ThreadingLock.                          *)
WaitInv ==
  /\ TypeOK /\ QueuesExact /\ EntryInv /\ CallInv
  /\ WaitersAnnounced /\ EntriesAlive /\ NoLostWakeup

Inv == WaitInv /\ MutualExclusion /\ NeverFatal
=============================================================================
