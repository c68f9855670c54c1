------------------------------ MODULE RWMutex -------------------------------
(***************************************************************************)
(* _PyRWMutex (Python/lock.c): readers share it, a writer excludes them.   *)
(* New readers wait while the parked bit is set; the last reader leaves    *)
(* the bit to the writer it wakes.                                         *)
(***************************************************************************)
EXTENDS LockWords

RLock(t, a) == Call(t, a, "RLock", "load") /\ UNCHANGED <<lotVars, word, v, posts>>
Lock(t, a) == Call(t, a, "Lock", "load") /\ UNCHANGED <<lotVars, word, v, posts>>

(* Mutant: a reader joins readers although a writer waits.                 *)
RLockBarges(t) ==
  /\ pc[t] = "loop" /\ doing[t] = "RLock"
  /\ \/ v[t].locked /\ SetParked(t)
     \/ /\ ~ v[t].locked /\ ~ Changed(t)
        /\ Set(t, [v[t] EXCEPT !.count = @ + 1])
        /\ Enter(t)
     \/ ~ v[t].locked /\ Retry(t)
  /\ UNCHANGED <<lotVars, posts>>

RLockLoop(t) ==
  /\ pc[t] = "loop" /\ doing[t] = "RLock"
  /\ \/ (v[t].locked \/ v[t].parked) /\ SetParked(t)
     \/ /\ ~ v[t].locked /\ ~ v[t].parked /\ ~ Changed(t)
        /\ Set(t, [v[t] EXCEPT !.count = @ + 1])
        /\ Enter(t)
     \/ ~ v[t].locked /\ ~ v[t].parked /\ Retry(t)
  /\ UNCHANGED <<lotVars, posts>>

(* Mutant: the parked bit is left out of account.                          *)
LockIgnoresReaders(t) ==
  /\ pc[t] = "loop" /\ doing[t] = "Lock"
  /\ \/ /\ ~ v[t].locked /\ ~ Changed(t)
        /\ Set(t, [v[t] EXCEPT !.locked = TRUE])
        /\ Enter(t)
     \/ ~ v[t].locked /\ Retry(t)
     \/ v[t].locked /\ SetParked(t)
  /\ UNCHANGED <<lotVars, posts>>

LockLoop(t) ==
  /\ pc[t] = "loop" /\ doing[t] = "Lock"
  /\ \/ /\ ~ v[t].locked /\ v[t].count = 0 /\ ~ Changed(t)
        /\ Set(t, [v[t] EXCEPT !.locked = TRUE])
        /\ Enter(t)
     \/ ~ v[t].locked /\ v[t].count = 0 /\ Retry(t)
     \/ (v[t].locked \/ v[t].count > 0) /\ SetParked(t)
  /\ UNCHANGED <<lotVars, posts>>

(* An atomic subtraction; the last reader wakes everybody and keeps the    *)
(* parked bit.                                                             *)
RUnlock(t) ==
  /\ pc[t] = "inside" /\ doing[t] = "RLock"
  /\ LET left == [word[on[t]] EXCEPT !.count = @ - 1]
     IN  Set(t, left) /\ Released(t, IF left.count = 0 THEN left ELSE Zero)
  /\ UNCHANGED <<lotVars, posts>>

(* An exchange with zero.                                                  *)
Unlock(t) ==
  /\ pc[t] = "inside" /\ doing[t] = "Lock"
  /\ Set(t, Zero)
  /\ Released(t, word[on[t]])
  /\ UNCHANGED <<lotVars, posts>>

RWCall(t, a) == RLock(t, a) \/ Lock(t, a)
RWStep(t) == RLockLoop(t) \/ LockLoop(t) \/ RUnlock(t) \/ Unlock(t)
=============================================================================
