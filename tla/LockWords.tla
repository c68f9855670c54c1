----------------------------- MODULE LockWords ------------------------------
(***************************************************************************)
(* What the lock primitives of Python/lock.c other than PyMutex share: an  *)
(* atomic word with a lock bit, a bit that says a thread may be parked,    *)
(* and a count; a waiter that announces itself and parks on the value it   *)
(* has seen; and a release that wakes everybody at once.                   *)
(*                                                                         *)
(* A wait entry and its semaphore live on the waiter's stack, so that the  *)
(* posts of UnparkAll are steps of their own.                              *)
(***************************************************************************)
EXTENDS ParkingLot

CONSTANT Ends    \* how a semaphore wait may end early: "timeout", "intr"

ASSUME LockWordsAssumption == Ends \subseteq Expired

VARIABLES
  word,    \* the word of every primitive
  pc,      \* where each thread is
  on,      \* the primitive it works on
  doing,   \* the function it is in, "none" outside
  v,       \* its local copy of the word
  posts    \* the entries it has dequeued and has not posted yet

wordVars == <<word, pc, on, doing, v, posts>>

(* _Py_LOCKED, _Py_HAS_PARKED, and what is above them: the readers of a    *)
(* RWMutex, or 1 in a once flag, where _Py_ONCE_INITIALIZED is 4.          *)
Word == [locked : BOOLEAN, parked : BOOLEAN, count : Nat]
Zero == [locked |-> FALSE, parked |-> FALSE, count |-> 0]
ONCE_INITIALIZED == [Zero EXCEPT !.count = 1]

Waits == {"PyEvent_Wait", "PyEvent_WaitTimed"}
Doing == Waits \union {"none", "CallOnce", "RLock", "Lock", "Recursive"}
Busy == {"load", "loop", "park", "parked", "check", "mutex", "stamp"}

WordsTypeOK ==
  /\ LotTypeOK
  /\ word  \in [Addrs -> Word]
  /\ pc    \in [Threads -> Busy \union {"idle", "inside", "drop", "unpark", "wake"}]
  /\ on    \in [Threads -> Addrs \union {NULL}]
  /\ doing \in [Threads -> Doing]
  /\ v     \in [Threads -> Word]
  /\ posts \in [Threads -> Seq(Threads)]

WordsInit ==
  /\ LotInit
  /\ word  = [a \in Addrs |-> Zero]
  /\ pc    = [t \in Threads |-> "idle"]
  /\ on    = [t \in Threads |-> NULL]
  /\ doing = [t \in Threads |-> "none"]
  /\ v     = [t \in Threads |-> Zero]
  /\ posts = [t \in Threads |-> << >>]

Goto(t, place) == pc' = [pc EXCEPT ![t] = place]
Set(t, value) == word' = [word EXCEPT ![on[t]] = value]
See(t) == v' = [v EXCEPT ![t] = word[on[t]]]
Changed(t) == word[on[t]] # v[t]

Call(t, a, function, place) ==
  /\ pc[t] = "idle"
  /\ on' = [on EXCEPT ![t] = a]
  /\ doing' = [doing EXCEPT ![t] = function]
  /\ Goto(t, place)

(* The function returns and its locals are gone.                           *)
Return(t) ==
  /\ Goto(t, "idle")
  /\ on' = [on EXCEPT ![t] = NULL]
  /\ doing' = [doing EXCEPT ![t] = "none"]
  /\ v' = [v EXCEPT ![t] = Zero]

(* It has the lock, and its caller goes on inside.                         *)
Enter(t) ==
  /\ Goto(t, "inside")
  /\ v' = [v EXCEPT ![t] = Zero]
  /\ UNCHANGED <<on, doing>>

-----------------------------------------------------------------------------
(* Waiting *)

Load(t) ==
  /\ pc[t] = "load"
  /\ See(t)
  /\ Goto(t, "loop")
  /\ UNCHANGED <<lotVars, word, on, doing, posts>>

(* A compare-exchange fails and stores the value it found in v.            *)
Retry(t) ==
  /\ Changed(t)
  /\ See(t)
  /\ UNCHANGED <<word, pc, on, doing>>

(* Sets _Py_HAS_PARKED unless it is set.                                   *)
SetParked(t) ==
  \/ /\ v[t].parked
     /\ Goto(t, "park")
     /\ UNCHANGED <<word, on, doing, v>>
  \/ /\ ~ v[t].parked /\ ~ Changed(t)
     /\ Set(t, [v[t] EXCEPT !.parked = TRUE])
     /\ v' = [v EXCEPT ![t].parked = TRUE]
     /\ Goto(t, "park")
     /\ UNCHANGED <<on, doing>>
  \/ ~ v[t].parked /\ Retry(t)

(* Where it goes when _PyParkingLot_Park has returned, whatever it gave.   *)
AfterPark(t) == Goto(t, IF doing[t] \in Waits THEN "check" ELSE "load")

(* Mutant: the word is not compared with the expected value.               *)
ParkUnchecked(t) ==
  /\ pc[t] = "park"
  /\ Enqueue(t, on[t])
  /\ Goto(t, "parked")
  /\ UNCHANGED <<word, on, doing, v, posts>>

Park(t) ==
  /\ pc[t] = "park"
  /\ \/ /\ ~ Changed(t)
        /\ Enqueue(t, on[t])
        /\ Goto(t, "parked")
     \/ /\ Changed(t)
        /\ AfterPark(t)
        /\ UNCHANGED lotVars
  /\ UNCHANGED <<word, on, doing, v, posts>>

Woken(t) ==
  /\ pc[t] = "parked"
  /\ ParkOK(t)
  /\ AfterPark(t)
  /\ UNCHANGED <<word, on, doing, v, posts>>

(* A signal, or the end of the only wait that has a timeout.               *)
Expire(t) ==
  /\ pc[t] = "parked"
  /\ \E cause \in Ends :
       /\ cause = "timeout" => doing[t] = "PyEvent_WaitTimed"
       /\ WaitExpires(t, cause)
  /\ UNCHANGED wordVars

Drain(t) ==
  /\ pc[t] = "parked"
  /\ MustDrain(t)
  /\ UNCHANGED wordVars

ParkFails(t) ==
  /\ pc[t] = "parked"
  /\ Withdraw(t)
  /\ AfterPark(t)
  /\ UNCHANGED <<word, on, doing, v, posts>>

-----------------------------------------------------------------------------
(* Waking: after a release that took _Py_HAS_PARKED off, or left it to the *)
(* woken threads.                                                          *)

Released(t, old) ==
  /\ Goto(t, IF old.parked THEN "unpark" ELSE "idle")
  /\ on' = [on EXCEPT ![t] = IF old.parked THEN @ ELSE NULL]
  /\ doing' = [doing EXCEPT ![t] = "none"]
  /\ v' = [v EXCEPT ![t] = Zero]

UnparkAll(t) ==
  /\ pc[t] = "unpark"
  /\ DequeueAll(on[t])
  /\ posts' = [posts EXCEPT ![t] = Waiters(on[t])]
  /\ Goto(t, IF posts'[t] = << >> THEN "idle" ELSE "wake")
  /\ on' = [on EXCEPT ![t] = NULL]
  /\ UNCHANGED <<word, doing, v>>

(* Mutant: the walk stops after the first entry.                           *)
PostFirst(t) ==
  /\ pc[t] = "wake"
  /\ Wakeup(Head(posts[t]))
  /\ posts' = [posts EXCEPT ![t] = << >>]
  /\ Goto(t, "idle")
  /\ UNCHANGED <<word, on, doing, v>>

(* The next entry's semaphore, outside of the bucket mutex.                *)
Post(t) ==
  /\ pc[t] = "wake"
  /\ Wakeup(Head(posts[t]))
  /\ posts' = [posts EXCEPT ![t] = Tail(@)]
  /\ Goto(t, IF posts'[t] = << >> THEN "idle" ELSE "wake")
  /\ UNCHANGED <<word, on, doing, v>>

WordStep(t) ==
  \/ Load(t) \/ Park(t) \/ Woken(t) \/ Drain(t) \/ ParkFails(t) \/ UnparkAll(t) \/ Post(t)
=============================================================================
