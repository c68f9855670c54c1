----------------------------- MODULE ParkingLot -----------------------------
(***************************************************************************)
(* The parking lot (Python/parking_lot.c): threads park on an address and  *)
(* are unparked by it.  This module holds the lot's state and what one     *)
(* call of it does to that state; the lock that parks its callers composes *)
(* these steps with steps of its own.                                      *)
(*                                                                         *)
(* A critical section of a bucket mutex is one step here.  It reads or     *)
(* writes the caller's word once, and the rest of what it touches is only  *)
(* touched under that mutex, which RawMutex shows to be exclusive.         *)
(***************************************************************************)
EXTENDS Naturals, Sequences, FiniteSets, SequencesExt

CONSTANTS
  Threads,   \* the threads
  Addrs,     \* the addresses threads park on
  Buckets,   \* the buckets of the hash table
  Bucket,    \* the bucket an address hashes to
  NULL       \* no thread

ASSUME ParkingLotAssumption ==
  /\ NULL \notin Threads \union Addrs
  /\ IsFiniteSet(Threads)
  /\ Bucket \in [Addrs -> Buckets]

VARIABLES
  queue,      \* every bucket's list of wait entries, an entry named by its thread
  at,         \* wait.addr of every thread's entry, NULL outside of its lifetime
  unparking,  \* wait.is_unparking
  sema,       \* the count of wait.sema
  park        \* where every thread is in _PyParkingLot_Park

lotVars == <<queue, at, unparking, sema, park>>

(* A thread in "waiting" is in _PySemaphore_Wait; in "timeout" and "intr"  *)
(* it has come back without a wakeup and is about to lock the bucket; in   *)
(* "drain" it waits for the wakeup that is on its way.                     *)
Expired == {"timeout", "intr"}
Parking == {"waiting", "drain"} \union Expired

LotTypeOK ==
  /\ queue     \in [Buckets -> Seq(Threads)]
  /\ at        \in [Threads -> Addrs \union {NULL}]
  /\ unparking \in [Threads -> BOOLEAN]
  /\ sema      \in [Threads -> 0 .. 1]
  /\ park      \in [Threads -> {"out"} \union Parking]

LotInit ==
  /\ queue     = [b \in Buckets |-> << >>]
  /\ at        = [t \in Threads |-> NULL]
  /\ unparking = [t \in Threads |-> FALSE]
  /\ sema      = [t \in Threads |-> 0]
  /\ park      = [t \in Threads |-> "out"]

-----------------------------------------------------------------------------
(* _PyParkingLot_Park *)

(* A fresh wait entry, set up and in the semaphore wait.                   *)
EntryIn(t, a) ==
  /\ at' = [at EXCEPT ![t] = a]
  /\ unparking' = [unparking EXCEPT ![t] = FALSE]
  /\ sema' = [sema EXCEPT ![t] = 0]
  /\ park' = [park EXCEPT ![t] = "waiting"]

(* Park returns: the entry and its semaphore are gone.                     *)
EntryOut(t) ==
  /\ at' = [at EXCEPT ![t] = NULL]
  /\ unparking' = [unparking EXCEPT ![t] = FALSE]
  /\ sema' = [sema EXCEPT ![t] = 0]
  /\ park' = [park EXCEPT ![t] = "out"]

(* Mutant: the entry goes to the head of the bucket's list.                *)
EnqueueAtHead(t, a) ==
  /\ queue' = [queue EXCEPT ![Bucket[a]] = <<t>> \o @]
  /\ EntryIn(t, a)

(* The word at the address has the expected value: the thread queues up.   *)
Enqueue(t, a) ==
  /\ queue' = [queue EXCEPT ![Bucket[a]] = Append(@, t)]
  /\ EntryIn(t, a)

(* _PySemaphore_Wait returns Py_PARK_OK, the first time or while draining. *)
ParkOK(t) ==
  /\ park[t] \in {"waiting", "drain"}
  /\ sema[t] > 0
  /\ EntryOut(t)
  /\ UNCHANGED queue

(* _PySemaphore_Wait returns Py_PARK_TIMEOUT or Py_PARK_INTR; a wakeup may *)
(* have been posted all the same.                                          *)
WaitExpires(t, cause) ==
  /\ park[t] = "waiting"
  /\ park' = [park EXCEPT ![t] = cause]
  /\ UNCHANGED <<queue, at, unparking, sema>>

(* Somebody has dequeued us meanwhile: wait for the wakeup.                *)
MustDrain(t) ==
  /\ park[t] \in Expired
  /\ unparking[t]
  /\ park' = [park EXCEPT ![t] = "drain"]
  /\ UNCHANGED <<queue, at, unparking, sema>>

(* Mutant: is_unparking is not looked at.                                  *)
WithdrawUnseen(t) ==
  /\ park[t] \in Expired
  /\ queue' = [queue EXCEPT ![Bucket[at[t]]] = Remove(@, t)]
  /\ EntryOut(t)

(* Mutant: the entry stays in the list.                                    *)
WithdrawKeepsEntry(t) ==
  /\ park[t] \in Expired
  /\ ~ unparking[t]
  /\ EntryOut(t)
  /\ UNCHANGED queue

(* Nobody has: take our entry off the bucket's list and return the cause.  *)
Withdraw(t) ==
  /\ park[t] \in Expired
  /\ ~ unparking[t]
  /\ \E i \in DOMAIN queue[Bucket[at[t]]] :
       /\ queue[Bucket[at[t]]][i] = t
       /\ queue' = [queue EXCEPT ![Bucket[at[t]]] = RemoveAt(@, i)]
  /\ EntryOut(t)

-----------------------------------------------------------------------------
(* _PyParkingLot_Unpark *)

(* The i-th entry of address a's bucket is the first that waits on a.      *)
FirstWaiter(a, i) ==
  /\ at[queue[Bucket[a]][i]] = a
  /\ \A j \in 1 .. i - 1 : at[queue[Bucket[a]][j]] # a

NoWaiter(a) == \A i \in DOMAIN queue[Bucket[a]] : at[queue[Bucket[a]][i]] # a

(* w is dequeued.                                                          *)
Dequeue(a, w) ==
  /\ \E i \in DOMAIN queue[Bucket[a]] :
       /\ FirstWaiter(a, i)
       /\ w = queue[Bucket[a]][i]
       /\ queue' = [queue EXCEPT ![Bucket[a]] = RemoveAt(@, i)]
  /\ unparking' = [unparking EXCEPT ![w] = TRUE]
  /\ UNCHANGED <<at, sema, park>>

(* bucket->num_waiters > 0 after the dequeue: the entries that are left    *)
(* may all wait on other addresses of the same bucket.                     *)
HasMoreWaiters(a) == Len(queue[Bucket[a]]) > 1

(* _PySemaphore_Wakeup, outside of the bucket mutex.                       *)
Wakeup(w) ==
  /\ sema' = [sema EXCEPT ![w] = @ + 1]
  /\ UNCHANGED <<queue, at, unparking, park>>

-----------------------------------------------------------------------------
(* _PyParkingLot_UnparkAll *)

(* The entries of a list that are in S, in the order of the list.          *)
Among(q, S) ==
  LET Rank(i) == Cardinality({j \in 1 .. i : q[j] \in S})
  IN  [k \in 1 .. Rank(Len(q)) |-> q[CHOOSE i \in DOMAIN q : q[i] \in S /\ Rank(i) = k]]

(* The entries that wait on a.                                             *)
WaitingOn(a) == {t \in Threads : at[t] = a}
Waiters(a) == Among(queue[Bucket[a]], WaitingOn(a))

(* dequeue_all: they leave the list, the others stay.                      *)
DequeueAll(a) ==
  /\ queue' = [queue EXCEPT ![Bucket[a]] = Among(@, Threads \ WaitingOn(a))]
  /\ unparking' = [t \in Threads |-> unparking[t] \/ t \in ToSet(Waiters(a))]
  /\ UNCHANGED <<at, sema, park>>

-----------------------------------------------------------------------------
(* What the lot promises, whoever parks in it.                             *)

(* Thread t's entry is in the list of its address's bucket.                *)
Queued(t) ==
  /\ at[t] # NULL
  /\ \E i \in DOMAIN queue[Bucket[at[t]]] : queue[Bucket[at[t]]][i] = t

(* The buckets' lists hold, once each, exactly the entries whose threads   *)
(* are still in Park and which nobody has dequeued: timeouts and unparks   *)
(* of the same entry never both take it off, and never leave it behind.    *)
QueuesExact ==
  /\ \A b \in Buckets :
       /\ IsInjective(queue[b])
       /\ \A i \in DOMAIN queue[b] :
            at[queue[b][i]] # NULL /\ Bucket[at[queue[b][i]]] = b
  /\ \A t \in Threads :
       Queued(t) <=> park[t] \in {"waiting"} \union Expired /\ ~ unparking[t]
=============================================================================
