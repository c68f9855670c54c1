------------------------------ MODULE OnceFlag ------------------------------
(***************************************************************************)
(* The once flag (Python/lock.c): the first thread that finds it unlocked  *)
(* runs the function, the others wait; a function that fails leaves the    *)
(* flag unlocked for the next one.                                         *)
(***************************************************************************)
EXTENDS LockWords

CallOnce(t, a) ==
  /\ Call(t, a, "CallOnce", "load")
  /\ UNCHANGED <<lotVars, word, v, posts>>

OnceLoop(t) ==
  /\ pc[t] = "loop" /\ doing[t] = "CallOnce"
  /\ \/ /\ v[t] = Zero /\ ~ Changed(t)
        /\ Set(t, [Zero EXCEPT !.locked = TRUE])
        /\ Enter(t)
     \/ v[t] = Zero /\ Retry(t)
     \/ v[t] = ONCE_INITIALIZED /\ Return(t) /\ UNCHANGED word
     \/ v[t].locked /\ SetParked(t)
  /\ UNCHANGED <<lotVars, posts>>

(* The function returns 0 or -1; unlock_once exchanges the word.           *)
UnlockOnce(t, ok) ==
  /\ pc[t] = "inside" /\ doing[t] = "CallOnce"
  /\ Set(t, IF ok THEN ONCE_INITIALIZED ELSE Zero)
  /\ Released(t, word[on[t]])
  /\ UNCHANGED <<lotVars, posts>>

OnceCall(t, a) == CallOnce(t, a)
OnceStep(t) == OnceLoop(t) \/ \E ok \in BOOLEAN : UnlockOnce(t, ok)
=============================================================================
