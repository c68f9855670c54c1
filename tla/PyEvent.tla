------------------------------ MODULE PyEvent -------------------------------
(***************************************************************************)
(* PyEvent (Python/lock.c): a one-time event.  Its word is zero, has the   *)
(* parked bit alone while threads may wait, or the lock bit alone once the *)
(* event is set.                                                           *)
(***************************************************************************)
EXTENDS LockWords

IsSet(w) == w.locked

EventWait(t, a) ==
  /\ \E function \in Waits : Call(t, a, function, "load")
  /\ UNCHANGED <<lotVars, word, v, posts>>

EventLoop(t) ==
  /\ pc[t] = "loop" /\ doing[t] \in Waits
  /\ \/ IsSet(v[t]) /\ Return(t) /\ UNCHANGED word
     \/ ~ IsSet(v[t]) /\ SetParked(t)
  /\ UNCHANGED <<lotVars, posts>>

(* One park is over: PyEvent_WaitTimed says whether the event is set, and  *)
(* PyEvent_Wait calls it again unless it is.                               *)
EventCheck(t) ==
  /\ pc[t] = "check"
  /\ IF IsSet(word[on[t]]) \/ doing[t] = "PyEvent_WaitTimed"
     THEN Return(t)
     ELSE Goto(t, "load") /\ UNCHANGED <<on, doing, v>>
  /\ UNCHANGED <<lotVars, word, posts>>

(* _PyEvent_Notify: an exchange.                                           *)
EventNotify(t, a) ==
  /\ pc[t] = "idle"
  /\ word' = [word EXCEPT ![a] = [Zero EXCEPT !.locked = TRUE]]
  /\ IF word[a].parked
     THEN Goto(t, "unpark") /\ on' = [on EXCEPT ![t] = a]
     ELSE UNCHANGED <<pc, on>>
  /\ UNCHANGED <<lotVars, doing, v, posts>>

EventCall(t, a) == EventWait(t, a) \/ EventNotify(t, a)
EventStep(t) == EventLoop(t) \/ EventCheck(t)
=============================================================================
