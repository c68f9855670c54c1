---------------------------- MODULE StopTheWorldProofs -----------------------
(***************************************************************************)
(* The safety properties of the stop-the-world protocol, for every finite  *)
(* set of threads and every set of interpreters.                           *)
(***************************************************************************)
EXTENDS StopTheWorld, FiniteSetTheorems, TLAPS

(* HEAD_LOCK is held by who scans or starts.                               *)
LEMMA HeadStep ==
  ASSUME Inv, [Next]_vars
  PROVE  HeadInv'
<1>1. CASE UNCHANGED vars
  BY <1>1 DEF Inv, TypeOK, HeadInv, vars, stwVars, lockVars, local
<1>2. ASSUME NEW t \in Threads, Attach(t) PROVE HeadInv'
  BY <1>2, StopTheWorldAssumption DEF Inv, TypeOK, HeadInv, Attach, Goto, SetState, stwVars, lockVars, local
<1>3. ASSUME NEW t \in Threads, Suspend(t) PROVE HeadInv'
  BY <1>3, StopTheWorldAssumption DEF Inv, TypeOK, HeadInv, Suspend, Goto, SetState, stwVars, lockVars, local
<1>4. ASSUME NEW t \in Threads, DetachSuspended(t) PROVE HeadInv'
  BY <1>4, StopTheWorldAssumption DEF Inv, TypeOK, HeadInv, DetachSuspended, Goto, SetState, stwVars, lockVars, local
<1>5. ASSUME NEW t \in Threads, Count(t) PROVE HeadInv'
  BY <1>5, StopTheWorldAssumption DEF Inv, TypeOK, HeadInv, Count, Goto, SetState, stwVars, lockVars, local, CountDown
<1>6. ASSUME NEW t \in Threads, LockRW(t) PROVE HeadInv'
  BY <1>6, StopTheWorldAssumption DEF Inv, TypeOK, HeadInv, LockRW, Goto, SetState, stwVars, lockVars, local, WaitAt, RWFree
<1>7. ASSUME NEW t \in Threads, RetryRW(t) PROVE HeadInv'
  BY <1>7, StopTheWorldAssumption DEF Inv, TypeOK, HeadInv, RetryRW, Goto, SetState, stwVars, lockVars, local, AttachTo, RWFree
<1>8. ASSUME NEW t \in Threads, LockMutex(t) PROVE HeadInv'
  BY <1>8, StopTheWorldAssumption DEF Inv, TypeOK, HeadInv, LockMutex, Goto, SetState, stwVars, lockVars, local, WaitAt
<1>9. ASSUME NEW t \in Threads, RetryMutex(t) PROVE HeadInv'
  BY <1>9, StopTheWorldAssumption DEF Inv, TypeOK, HeadInv, RetryMutex, Goto, SetState, stwVars, lockVars, local, AttachTo
<1>10. ASSUME NEW t \in Threads, Request(t) PROVE HeadInv'
  BY <1>10, StopTheWorldAssumption DEF Inv, TypeOK, HeadInv, Request, Goto, SetState, stwVars, lockVars, local, StartScan
<1>11. ASSUME NEW t \in Threads, ScanEnd(t) PROVE HeadInv'
  BY <1>11, StopTheWorldAssumption DEF Inv, TypeOK, HeadInv, ScanEnd, Goto, SetState, stwVars, lockVars, local, WorldStopped
<1>12. ASSUME NEW t \in Threads, EventSet(t) PROVE HeadInv'
  BY <1>12, StopTheWorldAssumption DEF Inv, TypeOK, HeadInv, EventSet, Goto, SetState, stwVars, lockVars, local, WorldStopped
<1>13. ASSUME NEW t \in Threads, TimedOut(t) PROVE HeadInv'
  BY <1>13, StopTheWorldAssumption DEF Inv, TypeOK, HeadInv, TimedOut, Goto, SetState, stwVars, lockVars, local
<1>14. ASSUME NEW t \in Threads, ScanAgain(t) PROVE HeadInv'
  BY <1>14, StopTheWorldAssumption DEF Inv, TypeOK, HeadInv, ScanAgain, Goto, SetState, stwVars, lockVars, local, StartScan
<1>15. ASSUME NEW t \in Threads, Start(t) PROVE HeadInv'
  BY <1>15, StopTheWorldAssumption DEF Inv, TypeOK, HeadInv, Start, Goto, SetState, stwVars, lockVars, local
<1>16. ASSUME NEW t \in Threads, StartEnd(t) PROVE HeadInv'
  BY <1>16, StopTheWorldAssumption DEF Inv, TypeOK, HeadInv, StartEnd, Goto, SetState, stwVars, lockVars, local
<1>17. ASSUME NEW t \in Threads, UnlockMutex(t) PROVE HeadInv'
  BY <1>17, StopTheWorldAssumption DEF Inv, TypeOK, HeadInv, UnlockMutex, Goto, SetState, stwVars, lockVars, local
<1>18. ASSUME NEW t \in Threads, UnlockRW(t) PROVE HeadInv'
  BY <1>18, StopTheWorldAssumption DEF Inv, TypeOK, HeadInv, UnlockRW, Goto, SetState, stwVars, lockVars, local
<1>19. ASSUME NEW t \in Threads, NEW u \in Threads, Scan(t, u) PROVE HeadInv'
  BY <1>19, StopTheWorldAssumption DEF Inv, TypeOK, HeadInv, Scan, Goto, SetState, stwVars, lockVars, local
<1>20. ASSUME NEW t \in Threads, NEW u \in Threads, SetShuttingDown(t, u) PROVE HeadInv'
  BY <1>20, StopTheWorldAssumption DEF Inv, TypeOK, HeadInv, SetShuttingDown, Goto, SetState, stwVars, lockVars, local, UnparkAll
<1>21. ASSUME NEW t \in Threads, NEW u \in Threads, Wake(t, u) PROVE HeadInv'
  BY <1>21, StopTheWorldAssumption DEF Inv, TypeOK, HeadInv, Wake, Goto, SetState, stwVars, lockVars, local, UnparkAll
<1>22. ASSUME NEW t \in Threads, HandlePending(t) PROVE HeadInv'
  BY <1>22, StopTheWorldAssumption DEF Inv, TypeOK, HeadInv, HandlePending, Goto, SetState, stwVars, lockVars, local
<1>23. ASSUME NEW t \in Threads, New(t) PROVE HeadInv'
  BY <1>23, StopTheWorldAssumption DEF Inv, TypeOK, HeadInv, New, Goto, SetState, stwVars, lockVars, local
<1>24. ASSUME NEW t \in Threads, Return(t) PROVE HeadInv'
  BY <1>24, StopTheWorldAssumption DEF Inv, TypeOK, HeadInv, Return, Goto, SetState, stwVars, lockVars, local
<1>25. ASSUME NEW t \in Threads, Detach(t) PROVE HeadInv'
  BY <1>25, StopTheWorldAssumption DEF Inv, TypeOK, HeadInv, Detach, Goto, SetState, stwVars, lockVars, local
<1>26. ASSUME NEW t \in Threads, Exit(t) PROVE HeadInv'
  BY <1>26, StopTheWorldAssumption DEF Inv, TypeOK, HeadInv, Exit, Goto, SetState, stwVars, lockVars, local, Delete, CountDown
<1>27. ASSUME NEW t \in Threads, RemoveExcept(t) PROVE HeadInv'
  BY <1>27, StopTheWorldAssumption DEF Inv, TypeOK, HeadInv, RemoveExcept, Goto, SetState, stwVars, lockVars, local
<1>28. ASSUME NEW t \in Threads, NEW s \in Stops, Stop(t, s) PROVE HeadInv'
  BY <1>28, StopTheWorldAssumption DEF Inv, TypeOK, HeadInv, Stop, Goto, SetState, stwVars, lockVars, local
<1>29. ASSUME NEW t \in Threads, NEW u \in Threads, Drop(t, u) PROVE HeadInv'
  BY <1>29, StopTheWorldAssumption DEF Inv, TypeOK, HeadInv, Drop, Goto, SetState, stwVars, lockVars, local, Delete, CountDown
<1> QED
  BY <1>1, <1>2, <1>3, <1>4, <1>5, <1>6, <1>7, <1>8, <1>9, <1>10, <1>11, <1>12, <1>13, <1>14, <1>15, <1>16, <1>17, <1>18, <1>19, <1>20, <1>21, <1>22, <1>23, <1>24, <1>25, <1>26, <1>27, <1>28, <1>29 DEF Next, Step

(* Where a thread goes on.                                                 *)
LEMMA NextStep ==
  ASSUME Inv, [Next]_vars
  PROVE  NextInv'
<1>1. CASE UNCHANGED vars
  BY <1>1 DEF Inv, TypeOK, NextInv, HasRW, HasMutex, Attaching, Stopping, vars, stwVars, lockVars, local
<1>2. ASSUME NEW t \in Threads, Attach(t) PROVE NextInv'
  BY <1>2, StopTheWorldAssumption DEF Inv, TypeOK, NextInv, HasRW, HasMutex, Attaching, Stopping, Attach, Goto, SetState, stwVars, lockVars, local
<1>3. ASSUME NEW t \in Threads, Suspend(t) PROVE NextInv'
  BY <1>3, StopTheWorldAssumption DEF Inv, TypeOK, NextInv, HasRW, HasMutex, Attaching, Stopping, Suspend, Goto, SetState, stwVars, lockVars, local
<1>4. ASSUME NEW t \in Threads, DetachSuspended(t) PROVE NextInv'
  BY <1>4, StopTheWorldAssumption DEF Inv, TypeOK, NextInv, HasRW, HasMutex, Attaching, Stopping, DetachSuspended, Goto, SetState, stwVars, lockVars, local
<1>5. ASSUME NEW t \in Threads, Count(t) PROVE NextInv'
  BY <1>5, StopTheWorldAssumption DEF Inv, TypeOK, NextInv, HasRW, HasMutex, Attaching, Stopping, Count, Goto, SetState, stwVars, lockVars, local, CountDown
<1>6. ASSUME NEW t \in Threads, LockRW(t) PROVE NextInv'
  BY <1>6, StopTheWorldAssumption DEF Inv, TypeOK, NextInv, HasRW, HasMutex, Attaching, Stopping, LockRW, Goto, SetState, stwVars, lockVars, local, WaitAt, RWFree
<1>7. ASSUME NEW t \in Threads, RetryRW(t) PROVE NextInv'
  BY <1>7, StopTheWorldAssumption DEF Inv, TypeOK, NextInv, HasRW, HasMutex, Attaching, Stopping, RetryRW, Goto, SetState, stwVars, lockVars, local, AttachTo, RWFree
<1>8. ASSUME NEW t \in Threads, LockMutex(t) PROVE NextInv'
  BY <1>8, StopTheWorldAssumption DEF Inv, TypeOK, NextInv, HasRW, HasMutex, Attaching, Stopping, LockMutex, Goto, SetState, stwVars, lockVars, local, WaitAt
<1>9. ASSUME NEW t \in Threads, RetryMutex(t) PROVE NextInv'
  BY <1>9, StopTheWorldAssumption DEF Inv, TypeOK, NextInv, HasRW, HasMutex, Attaching, Stopping, RetryMutex, Goto, SetState, stwVars, lockVars, local, AttachTo
<1>10. ASSUME NEW t \in Threads, Request(t) PROVE NextInv'
  BY <1>10, StopTheWorldAssumption DEF Inv, TypeOK, NextInv, HasRW, HasMutex, Attaching, Stopping, Request, Goto, SetState, stwVars, lockVars, local, StartScan
<1>11. ASSUME NEW t \in Threads, ScanEnd(t) PROVE NextInv'
  BY <1>11, StopTheWorldAssumption DEF Inv, TypeOK, NextInv, HasRW, HasMutex, Attaching, Stopping, ScanEnd, Goto, SetState, stwVars, lockVars, local, WorldStopped
<1>12. ASSUME NEW t \in Threads, EventSet(t) PROVE NextInv'
  BY <1>12, StopTheWorldAssumption DEF Inv, TypeOK, NextInv, HasRW, HasMutex, Attaching, Stopping, EventSet, Goto, SetState, stwVars, lockVars, local, WorldStopped
<1>13. ASSUME NEW t \in Threads, TimedOut(t) PROVE NextInv'
  BY <1>13, StopTheWorldAssumption DEF Inv, TypeOK, NextInv, HasRW, HasMutex, Attaching, Stopping, TimedOut, Goto, SetState, stwVars, lockVars, local
<1>14. ASSUME NEW t \in Threads, ScanAgain(t) PROVE NextInv'
  BY <1>14, StopTheWorldAssumption DEF Inv, TypeOK, NextInv, HasRW, HasMutex, Attaching, Stopping, ScanAgain, Goto, SetState, stwVars, lockVars, local, StartScan
<1>15. ASSUME NEW t \in Threads, Start(t) PROVE NextInv'
  BY <1>15, StopTheWorldAssumption DEF Inv, TypeOK, NextInv, HasRW, HasMutex, Attaching, Stopping, Start, Goto, SetState, stwVars, lockVars, local
<1>16. ASSUME NEW t \in Threads, StartEnd(t) PROVE NextInv'
  BY <1>16, StopTheWorldAssumption DEF Inv, TypeOK, NextInv, HasRW, HasMutex, Attaching, Stopping, StartEnd, Goto, SetState, stwVars, lockVars, local
<1>17. ASSUME NEW t \in Threads, UnlockMutex(t) PROVE NextInv'
  BY <1>17, StopTheWorldAssumption DEF Inv, TypeOK, NextInv, HasRW, HasMutex, Attaching, Stopping, UnlockMutex, Goto, SetState, stwVars, lockVars, local
<1>18. ASSUME NEW t \in Threads, UnlockRW(t) PROVE NextInv'
  BY <1>18, StopTheWorldAssumption DEF Inv, TypeOK, NextInv, HasRW, HasMutex, Attaching, Stopping, UnlockRW, Goto, SetState, stwVars, lockVars, local
<1>19. ASSUME NEW t \in Threads, NEW u \in Threads, Scan(t, u) PROVE NextInv'
  BY <1>19, StopTheWorldAssumption DEF Inv, TypeOK, NextInv, HasRW, HasMutex, Attaching, Stopping, Scan, Goto, SetState, stwVars, lockVars, local
<1>20. ASSUME NEW t \in Threads, NEW u \in Threads, SetShuttingDown(t, u) PROVE NextInv'
  BY <1>20, StopTheWorldAssumption DEF Inv, TypeOK, NextInv, HasRW, HasMutex, Attaching, Stopping, SetShuttingDown, Goto, SetState, stwVars, lockVars, local, UnparkAll
<1>21. ASSUME NEW t \in Threads, NEW u \in Threads, Wake(t, u) PROVE NextInv'
  BY <1>21, StopTheWorldAssumption DEF Inv, TypeOK, NextInv, HasRW, HasMutex, Attaching, Stopping, Wake, Goto, SetState, stwVars, lockVars, local, UnparkAll
<1>22. ASSUME NEW t \in Threads, HandlePending(t) PROVE NextInv'
  BY <1>22, StopTheWorldAssumption DEF Inv, TypeOK, NextInv, HasRW, HasMutex, Attaching, Stopping, HandlePending, Goto, SetState, stwVars, lockVars, local
<1>23. ASSUME NEW t \in Threads, New(t) PROVE NextInv'
  BY <1>23, StopTheWorldAssumption DEF Inv, TypeOK, NextInv, HasRW, HasMutex, Attaching, Stopping, New, Goto, SetState, stwVars, lockVars, local
<1>24. ASSUME NEW t \in Threads, Return(t) PROVE NextInv'
  BY <1>24, StopTheWorldAssumption DEF Inv, TypeOK, NextInv, HasRW, HasMutex, Attaching, Stopping, Return, Goto, SetState, stwVars, lockVars, local
<1>25. ASSUME NEW t \in Threads, Detach(t) PROVE NextInv'
  BY <1>25, StopTheWorldAssumption DEF Inv, TypeOK, NextInv, HasRW, HasMutex, Attaching, Stopping, Detach, Goto, SetState, stwVars, lockVars, local
<1>26. ASSUME NEW t \in Threads, Exit(t) PROVE NextInv'
  BY <1>26, StopTheWorldAssumption DEF Inv, TypeOK, NextInv, HasRW, HasMutex, Attaching, Stopping, Exit, Goto, SetState, stwVars, lockVars, local, Delete, CountDown
<1>27. ASSUME NEW t \in Threads, RemoveExcept(t) PROVE NextInv'
  BY <1>27, StopTheWorldAssumption DEF Inv, TypeOK, NextInv, HasRW, HasMutex, Attaching, Stopping, RemoveExcept, Goto, SetState, stwVars, lockVars, local
<1>28. ASSUME NEW t \in Threads, NEW s \in Stops, Stop(t, s) PROVE NextInv'
  BY <1>28, StopTheWorldAssumption DEF Inv, TypeOK, NextInv, HasRW, HasMutex, Attaching, Stopping, Stop, Goto, SetState, stwVars, lockVars, local
<1>29. ASSUME NEW t \in Threads, NEW u \in Threads, Drop(t, u) PROVE NextInv'
  BY <1>29, StopTheWorldAssumption DEF Inv, TypeOK, NextInv, HasRW, HasMutex, Attaching, Stopping, Drop, Goto, SetState, stwVars, lockVars, local, Delete, CountDown
<1> QED
  BY <1>1, <1>2, <1>3, <1>4, <1>5, <1>6, <1>7, <1>8, <1>9, <1>10, <1>11, <1>12, <1>13, <1>14, <1>15, <1>16, <1>17, <1>18, <1>19, <1>20, <1>21, <1>22, <1>23, <1>24, <1>25, <1>26, <1>27, <1>28, <1>29 DEF Next, Step

(* Who has the mutex of a stop.                                            *)
LEMMA MutexStep ==
  ASSUME Inv, [Next]_vars
  PROVE  MutexInv'
<1>1. CASE UNCHANGED vars
  BY <1>1 DEF Inv, TypeOK, MutexInv, NextInv, HasMutex, Attaching, Stopping, StateInv, vars, stwVars, lockVars, local
<1>2. ASSUME NEW t \in Threads, Attach(t) PROVE MutexInv'
  <2>1. /\ mutex' = mutex /\ stw' = stw
        /\ \/ pc' = [pc EXCEPT ![t] = next[t]] /\ next' = [next EXCEPT ![t] = "run"]
           \/ pc' = [pc EXCEPT ![t] = "asleep"] /\ next' = next
           \/ /\ pc' = [pc EXCEPT ![t] = "hung"] /\ next' = next
              /\ state[t] = "shutting_down"
    BY <1>2 DEF Attach, Goto, lockVars
  <2>2. pc[t] = "attach" /\ pc \in [Threads -> Places] /\ next \in [Threads -> {"run", "rw", "mutex", "request"}]
    BY <1>2 DEF Attach, Inv, TypeOK
  <2>3. \A u \in Threads \ {t} : HasMutex(u)' = HasMutex(u)
    BY <2>1, <2>2 DEF HasMutex, Attaching
  <2>4. HasMutex(t)' = HasMutex(t)
    <3>1. state[t] = "shutting_down" => ~ HasMutex(t)
      BY DEF Inv, StateInv, HasRW
    <3> QED
      BY <2>1, <2>2, <3>1 DEF HasMutex, Attaching, Stopping
  <2> QED
    BY <2>1, <2>3, <2>4 DEF Inv, MutexInv
<1>3. ASSUME NEW t \in Threads, Suspend(t) PROVE MutexInv'
  BY <1>3, StopTheWorldAssumption DEF Inv, TypeOK, MutexInv, NextInv, HasMutex, Attaching, Stopping, StateInv, Suspend, Goto, SetState, stwVars, lockVars, local
<1>4. ASSUME NEW t \in Threads, DetachSuspended(t) PROVE MutexInv'
  BY <1>4, StopTheWorldAssumption, SMTT(30) DEF Inv, TypeOK, MutexInv, NextInv, HasMutex, Attaching, Stopping, StateInv, DetachSuspended, Goto, SetState, stwVars, lockVars, local
<1>5. ASSUME NEW t \in Threads, Count(t) PROVE MutexInv'
  BY <1>5, StopTheWorldAssumption, SMTT(30) DEF Inv, TypeOK, MutexInv, NextInv, HasMutex, Attaching, Stopping, StateInv, Count, Goto, SetState, stwVars, lockVars, local, CountDown
<1>6. ASSUME NEW t \in Threads, LockRW(t) PROVE MutexInv'
  BY <1>6, StopTheWorldAssumption DEF Inv, TypeOK, MutexInv, NextInv, HasMutex, Attaching, Stopping, StateInv, LockRW, Goto, SetState, stwVars, lockVars, local, WaitAt, RWFree
<1>7. ASSUME NEW t \in Threads, RetryRW(t) PROVE MutexInv'
  BY <1>7, StopTheWorldAssumption DEF Inv, TypeOK, MutexInv, NextInv, HasMutex, Attaching, Stopping, StateInv, RetryRW, Goto, SetState, stwVars, lockVars, local, AttachTo, RWFree
<1>8. ASSUME NEW t \in Threads, LockMutex(t) PROVE MutexInv'
  BY <1>8, StopTheWorldAssumption DEF Inv, TypeOK, MutexInv, NextInv, HasMutex, Attaching, Stopping, StateInv, LockMutex, Goto, SetState, stwVars, lockVars, local, WaitAt
<1>9. ASSUME NEW t \in Threads, RetryMutex(t) PROVE MutexInv'
  BY <1>9, StopTheWorldAssumption DEF Inv, TypeOK, MutexInv, NextInv, HasMutex, Attaching, Stopping, StateInv, RetryMutex, Goto, SetState, stwVars, lockVars, local, AttachTo
<1>10. ASSUME NEW t \in Threads, Request(t) PROVE MutexInv'
  BY <1>10, StopTheWorldAssumption DEF Inv, TypeOK, MutexInv, NextInv, HasMutex, Attaching, Stopping, StateInv, Request, Goto, SetState, stwVars, lockVars, local, StartScan
<1>11. ASSUME NEW t \in Threads, ScanEnd(t) PROVE MutexInv'
  BY <1>11, StopTheWorldAssumption DEF Inv, TypeOK, MutexInv, NextInv, HasMutex, Attaching, Stopping, StateInv, ScanEnd, Goto, SetState, stwVars, lockVars, local, WorldStopped
<1>12. ASSUME NEW t \in Threads, EventSet(t) PROVE MutexInv'
  BY <1>12, StopTheWorldAssumption DEF Inv, TypeOK, MutexInv, NextInv, HasMutex, Attaching, Stopping, StateInv, EventSet, Goto, SetState, stwVars, lockVars, local, WorldStopped
<1>13. ASSUME NEW t \in Threads, TimedOut(t) PROVE MutexInv'
  BY <1>13, StopTheWorldAssumption DEF Inv, TypeOK, MutexInv, NextInv, HasMutex, Attaching, Stopping, StateInv, TimedOut, Goto, SetState, stwVars, lockVars, local
<1>14. ASSUME NEW t \in Threads, ScanAgain(t) PROVE MutexInv'
  BY <1>14, StopTheWorldAssumption DEF Inv, TypeOK, MutexInv, NextInv, HasMutex, Attaching, Stopping, StateInv, ScanAgain, Goto, SetState, stwVars, lockVars, local, StartScan
<1>15. ASSUME NEW t \in Threads, Start(t) PROVE MutexInv'
  BY <1>15, StopTheWorldAssumption DEF Inv, TypeOK, MutexInv, NextInv, HasMutex, Attaching, Stopping, StateInv, Start, Goto, SetState, stwVars, lockVars, local
<1>16. ASSUME NEW t \in Threads, StartEnd(t) PROVE MutexInv'
  BY <1>16, StopTheWorldAssumption DEF Inv, TypeOK, MutexInv, NextInv, HasMutex, Attaching, Stopping, StateInv, StartEnd, Goto, SetState, stwVars, lockVars, local
<1>17. ASSUME NEW t \in Threads, UnlockMutex(t) PROVE MutexInv'
  BY <1>17, StopTheWorldAssumption DEF Inv, TypeOK, MutexInv, NextInv, HasMutex, Attaching, Stopping, StateInv, UnlockMutex, Goto, SetState, stwVars, lockVars, local
<1>18. ASSUME NEW t \in Threads, UnlockRW(t) PROVE MutexInv'
  BY <1>18, StopTheWorldAssumption DEF Inv, TypeOK, MutexInv, NextInv, HasMutex, Attaching, Stopping, StateInv, UnlockRW, Goto, SetState, stwVars, lockVars, local
<1>19. ASSUME NEW t \in Threads, NEW u \in Threads, Scan(t, u) PROVE MutexInv'
  BY <1>19, StopTheWorldAssumption DEF Inv, TypeOK, MutexInv, NextInv, HasMutex, Attaching, Stopping, StateInv, Scan, Goto, SetState, stwVars, lockVars, local
<1>20. ASSUME NEW t \in Threads, NEW u \in Threads, SetShuttingDown(t, u) PROVE MutexInv'
  BY <1>20, StopTheWorldAssumption DEF Inv, TypeOK, MutexInv, NextInv, HasMutex, Attaching, Stopping, StateInv, SetShuttingDown, Goto, SetState, stwVars, lockVars, local, UnparkAll
<1>21. ASSUME NEW t \in Threads, NEW u \in Threads, Wake(t, u) PROVE MutexInv'
  BY <1>21, StopTheWorldAssumption DEF Inv, TypeOK, MutexInv, NextInv, HasMutex, Attaching, Stopping, StateInv, Wake, Goto, SetState, stwVars, lockVars, local, UnparkAll
<1>22. ASSUME NEW t \in Threads, HandlePending(t) PROVE MutexInv'
  BY <1>22, StopTheWorldAssumption DEF Inv, TypeOK, MutexInv, NextInv, HasMutex, Attaching, Stopping, StateInv, HandlePending, Goto, SetState, stwVars, lockVars, local
<1>23. ASSUME NEW t \in Threads, New(t) PROVE MutexInv'
  BY <1>23, StopTheWorldAssumption DEF Inv, TypeOK, MutexInv, NextInv, HasMutex, Attaching, Stopping, StateInv, New, Goto, SetState, stwVars, lockVars, local
<1>24. ASSUME NEW t \in Threads, Return(t) PROVE MutexInv'
  BY <1>24, StopTheWorldAssumption DEF Inv, TypeOK, MutexInv, NextInv, HasMutex, Attaching, Stopping, StateInv, Return, Goto, SetState, stwVars, lockVars, local
<1>25. ASSUME NEW t \in Threads, Detach(t) PROVE MutexInv'
  BY <1>25, StopTheWorldAssumption DEF Inv, TypeOK, MutexInv, NextInv, HasMutex, Attaching, Stopping, StateInv, Detach, Goto, SetState, stwVars, lockVars, local
<1>26. ASSUME NEW t \in Threads, Exit(t) PROVE MutexInv'
  BY <1>26, StopTheWorldAssumption DEF Inv, TypeOK, MutexInv, NextInv, HasMutex, Attaching, Stopping, StateInv, Exit, Goto, SetState, stwVars, lockVars, local, Delete, CountDown
<1>27. ASSUME NEW t \in Threads, RemoveExcept(t) PROVE MutexInv'
  BY <1>27, StopTheWorldAssumption DEF Inv, TypeOK, MutexInv, NextInv, HasMutex, Attaching, Stopping, StateInv, RemoveExcept, Goto, SetState, stwVars, lockVars, local
<1>28. ASSUME NEW t \in Threads, NEW s \in Stops, Stop(t, s) PROVE MutexInv'
  BY <1>28, StopTheWorldAssumption DEF Inv, TypeOK, MutexInv, NextInv, HasMutex, Attaching, Stopping, StateInv, Stop, Goto, SetState, stwVars, lockVars, local
<1>29. ASSUME NEW t \in Threads, NEW u \in Threads, Drop(t, u) PROVE MutexInv'
  BY <1>29, StopTheWorldAssumption DEF Inv, TypeOK, MutexInv, NextInv, HasMutex, Attaching, Stopping, StateInv, Drop, Goto, SetState, stwVars, lockVars, local, Delete, CountDown
<1> QED
  BY <1>1, <1>2, <1>3, <1>4, <1>5, <1>6, <1>7, <1>8, <1>9, <1>10, <1>11, <1>12, <1>13, <1>14, <1>15, <1>16, <1>17, <1>18, <1>19, <1>20, <1>21, <1>22, <1>23, <1>24, <1>25, <1>26, <1>27, <1>28, <1>29 DEF Next, Step

(* Who has the lock of the world.                                          *)
LEMMA RWStep ==
  ASSUME Inv, [Next]_vars
  PROVE  RWInv'
<1>1. CASE UNCHANGED vars
  BY <1>1 DEF Inv, TypeOK, RWInv, NextInv, HasRW, HasMutex, Attaching, Stopping, StateInv, vars, stwVars, lockVars, local
<1>2. ASSUME NEW t \in Threads, Attach(t) PROVE RWInv'
  BY <1>2, StopTheWorldAssumption DEF Inv, TypeOK, RWInv, NextInv, HasRW, HasMutex, Attaching, Stopping, StateInv, Attach, Goto, SetState, stwVars, lockVars, local
<1>3. ASSUME NEW t \in Threads, Suspend(t) PROVE RWInv'
  BY <1>3, StopTheWorldAssumption DEF Inv, TypeOK, RWInv, NextInv, HasRW, HasMutex, Attaching, Stopping, StateInv, Suspend, Goto, SetState, stwVars, lockVars, local
<1>4. ASSUME NEW t \in Threads, DetachSuspended(t) PROVE RWInv'
  BY <1>4, StopTheWorldAssumption DEF Inv, TypeOK, RWInv, NextInv, HasRW, HasMutex, Attaching, Stopping, StateInv, DetachSuspended, Goto, SetState, stwVars, lockVars, local
<1>5. ASSUME NEW t \in Threads, Count(t) PROVE RWInv'
  BY <1>5, StopTheWorldAssumption DEF Inv, TypeOK, RWInv, NextInv, HasRW, HasMutex, Attaching, Stopping, StateInv, Count, Goto, SetState, stwVars, lockVars, local, CountDown
<1>6. ASSUME NEW t \in Threads, LockRW(t) PROVE RWInv'
  BY <1>6, StopTheWorldAssumption DEF Inv, TypeOK, RWInv, NextInv, HasRW, HasMutex, Attaching, Stopping, StateInv, LockRW, Goto, SetState, stwVars, lockVars, local, WaitAt, RWFree
<1>7. ASSUME NEW t \in Threads, RetryRW(t) PROVE RWInv'
  BY <1>7, StopTheWorldAssumption DEF Inv, TypeOK, RWInv, NextInv, HasRW, HasMutex, Attaching, Stopping, StateInv, RetryRW, Goto, SetState, stwVars, lockVars, local, AttachTo, RWFree
<1>8. ASSUME NEW t \in Threads, LockMutex(t) PROVE RWInv'
  BY <1>8, StopTheWorldAssumption DEF Inv, TypeOK, RWInv, NextInv, HasRW, HasMutex, Attaching, Stopping, StateInv, LockMutex, Goto, SetState, stwVars, lockVars, local, WaitAt
<1>9. ASSUME NEW t \in Threads, RetryMutex(t) PROVE RWInv'
  BY <1>9, StopTheWorldAssumption DEF Inv, TypeOK, RWInv, NextInv, HasRW, HasMutex, Attaching, Stopping, StateInv, RetryMutex, Goto, SetState, stwVars, lockVars, local, AttachTo
<1>10. ASSUME NEW t \in Threads, Request(t) PROVE RWInv'
  BY <1>10, StopTheWorldAssumption DEF Inv, TypeOK, RWInv, NextInv, HasRW, HasMutex, Attaching, Stopping, StateInv, Request, Goto, SetState, stwVars, lockVars, local, StartScan
<1>11. ASSUME NEW t \in Threads, ScanEnd(t) PROVE RWInv'
  BY <1>11, StopTheWorldAssumption DEF Inv, TypeOK, RWInv, NextInv, HasRW, HasMutex, Attaching, Stopping, StateInv, ScanEnd, Goto, SetState, stwVars, lockVars, local, WorldStopped
<1>12. ASSUME NEW t \in Threads, EventSet(t) PROVE RWInv'
  BY <1>12, StopTheWorldAssumption DEF Inv, TypeOK, RWInv, NextInv, HasRW, HasMutex, Attaching, Stopping, StateInv, EventSet, Goto, SetState, stwVars, lockVars, local, WorldStopped
<1>13. ASSUME NEW t \in Threads, TimedOut(t) PROVE RWInv'
  BY <1>13, StopTheWorldAssumption DEF Inv, TypeOK, RWInv, NextInv, HasRW, HasMutex, Attaching, Stopping, StateInv, TimedOut, Goto, SetState, stwVars, lockVars, local
<1>14. ASSUME NEW t \in Threads, ScanAgain(t) PROVE RWInv'
  BY <1>14, StopTheWorldAssumption DEF Inv, TypeOK, RWInv, NextInv, HasRW, HasMutex, Attaching, Stopping, StateInv, ScanAgain, Goto, SetState, stwVars, lockVars, local, StartScan
<1>15. ASSUME NEW t \in Threads, Start(t) PROVE RWInv'
  BY <1>15, StopTheWorldAssumption DEF Inv, TypeOK, RWInv, NextInv, HasRW, HasMutex, Attaching, Stopping, StateInv, Start, Goto, SetState, stwVars, lockVars, local
<1>16. ASSUME NEW t \in Threads, StartEnd(t) PROVE RWInv'
  BY <1>16, StopTheWorldAssumption DEF Inv, TypeOK, RWInv, NextInv, HasRW, HasMutex, Attaching, Stopping, StateInv, StartEnd, Goto, SetState, stwVars, lockVars, local
<1>17. ASSUME NEW t \in Threads, UnlockMutex(t) PROVE RWInv'
  BY <1>17, StopTheWorldAssumption DEF Inv, TypeOK, RWInv, NextInv, HasRW, HasMutex, Attaching, Stopping, StateInv, UnlockMutex, Goto, SetState, stwVars, lockVars, local
<1>18. ASSUME NEW t \in Threads, UnlockRW(t) PROVE RWInv'
  BY <1>18, StopTheWorldAssumption DEF Inv, TypeOK, RWInv, NextInv, HasRW, HasMutex, Attaching, Stopping, StateInv, UnlockRW, Goto, SetState, stwVars, lockVars, local
<1>19. ASSUME NEW t \in Threads, NEW u \in Threads, Scan(t, u) PROVE RWInv'
  BY <1>19, StopTheWorldAssumption DEF Inv, TypeOK, RWInv, NextInv, HasRW, HasMutex, Attaching, Stopping, StateInv, Scan, Goto, SetState, stwVars, lockVars, local
<1>20. ASSUME NEW t \in Threads, NEW u \in Threads, SetShuttingDown(t, u) PROVE RWInv'
  BY <1>20, StopTheWorldAssumption DEF Inv, TypeOK, RWInv, NextInv, HasRW, HasMutex, Attaching, Stopping, StateInv, SetShuttingDown, Goto, SetState, stwVars, lockVars, local, UnparkAll
<1>21. ASSUME NEW t \in Threads, NEW u \in Threads, Wake(t, u) PROVE RWInv'
  BY <1>21, StopTheWorldAssumption DEF Inv, TypeOK, RWInv, NextInv, HasRW, HasMutex, Attaching, Stopping, StateInv, Wake, Goto, SetState, stwVars, lockVars, local, UnparkAll
<1>22. ASSUME NEW t \in Threads, HandlePending(t) PROVE RWInv'
  BY <1>22, StopTheWorldAssumption DEF Inv, TypeOK, RWInv, NextInv, HasRW, HasMutex, Attaching, Stopping, StateInv, HandlePending, Goto, SetState, stwVars, lockVars, local
<1>23. ASSUME NEW t \in Threads, New(t) PROVE RWInv'
  BY <1>23, StopTheWorldAssumption DEF Inv, TypeOK, RWInv, NextInv, HasRW, HasMutex, Attaching, Stopping, StateInv, New, Goto, SetState, stwVars, lockVars, local
<1>24. ASSUME NEW t \in Threads, Return(t) PROVE RWInv'
  BY <1>24, StopTheWorldAssumption DEF Inv, TypeOK, RWInv, NextInv, HasRW, HasMutex, Attaching, Stopping, StateInv, Return, Goto, SetState, stwVars, lockVars, local
<1>25. ASSUME NEW t \in Threads, Detach(t) PROVE RWInv'
  BY <1>25, StopTheWorldAssumption DEF Inv, TypeOK, RWInv, NextInv, HasRW, HasMutex, Attaching, Stopping, StateInv, Detach, Goto, SetState, stwVars, lockVars, local
<1>26. ASSUME NEW t \in Threads, Exit(t) PROVE RWInv'
  BY <1>26, StopTheWorldAssumption DEF Inv, TypeOK, RWInv, NextInv, HasRW, HasMutex, Attaching, Stopping, StateInv, Exit, Goto, SetState, stwVars, lockVars, local, Delete, CountDown
<1>27. ASSUME NEW t \in Threads, RemoveExcept(t) PROVE RWInv'
  BY <1>27, StopTheWorldAssumption DEF Inv, TypeOK, RWInv, NextInv, HasRW, HasMutex, Attaching, Stopping, StateInv, RemoveExcept, Goto, SetState, stwVars, lockVars, local
<1>28. ASSUME NEW t \in Threads, NEW s \in Stops, Stop(t, s) PROVE RWInv'
  BY <1>28, StopTheWorldAssumption DEF Inv, TypeOK, RWInv, NextInv, HasRW, HasMutex, Attaching, Stopping, StateInv, Stop, Goto, SetState, stwVars, lockVars, local
<1>29. ASSUME NEW t \in Threads, NEW u \in Threads, Drop(t, u) PROVE RWInv'
  BY <1>29, StopTheWorldAssumption DEF Inv, TypeOK, RWInv, NextInv, HasRW, HasMutex, Attaching, Stopping, StateInv, Drop, Goto, SetState, stwVars, lockVars, local, Delete, CountDown
<1> QED
  BY <1>1, <1>2, <1>3, <1>4, <1>5, <1>6, <1>7, <1>8, <1>9, <1>10, <1>11, <1>12, <1>13, <1>14, <1>15, <1>16, <1>17, <1>18, <1>19, <1>20, <1>21, <1>22, <1>23, <1>24, <1>25, <1>26, <1>27, <1>28, <1>29 DEF Next, Step

(* How far the requester is.                                               *)
LEMMA RequestStep ==
  ASSUME Inv, [Next]_vars
  PROVE  RequestInv'
<1>1. CASE UNCHANGED vars
  BY <1>1 DEF Inv, TypeOK, RequestInv, Stopping, vars, stwVars, lockVars, local
<1>2. ASSUME NEW t \in Threads, Attach(t) PROVE RequestInv'
  BY <1>2, StopTheWorldAssumption DEF Inv, TypeOK, RequestInv, Stopping, Attach, Goto, SetState, stwVars, lockVars, local
<1>3. ASSUME NEW t \in Threads, Suspend(t) PROVE RequestInv'
  BY <1>3, StopTheWorldAssumption DEF Inv, TypeOK, RequestInv, Stopping, Suspend, Goto, SetState, stwVars, lockVars, local
<1>4. ASSUME NEW t \in Threads, DetachSuspended(t) PROVE RequestInv'
  BY <1>4, StopTheWorldAssumption DEF Inv, TypeOK, RequestInv, Stopping, DetachSuspended, Goto, SetState, stwVars, lockVars, local
<1>5. ASSUME NEW t \in Threads, Count(t) PROVE RequestInv'
  BY <1>5, StopTheWorldAssumption DEF Inv, TypeOK, RequestInv, Stopping, Count, Goto, SetState, stwVars, lockVars, local, CountDown
<1>6. ASSUME NEW t \in Threads, LockRW(t) PROVE RequestInv'
  BY <1>6, StopTheWorldAssumption DEF Inv, TypeOK, RequestInv, Stopping, LockRW, Goto, SetState, stwVars, lockVars, local, WaitAt, RWFree
<1>7. ASSUME NEW t \in Threads, RetryRW(t) PROVE RequestInv'
  BY <1>7, StopTheWorldAssumption DEF Inv, TypeOK, RequestInv, Stopping, RetryRW, Goto, SetState, stwVars, lockVars, local, AttachTo, RWFree
<1>8. ASSUME NEW t \in Threads, LockMutex(t) PROVE RequestInv'
  BY <1>8, StopTheWorldAssumption DEF Inv, TypeOK, RequestInv, Stopping, LockMutex, Goto, SetState, stwVars, lockVars, local, WaitAt
<1>9. ASSUME NEW t \in Threads, RetryMutex(t) PROVE RequestInv'
  BY <1>9, StopTheWorldAssumption DEF Inv, TypeOK, RequestInv, Stopping, RetryMutex, Goto, SetState, stwVars, lockVars, local, AttachTo
<1>10. ASSUME NEW t \in Threads, Request(t) PROVE RequestInv'
  <2>1. pc[t] = "request" /\ stw[t] \in Stops /\ stw' = stw
    BY <1>10, StopTheWorldAssumption DEF Request, Inv, NextInv, HasRW, HasMutex, Stops
  <2>2. /\ requester' = [requester EXCEPT ![stw[t]] = t] /\ requested' = [requested EXCEPT ![stw[t]] = TRUE]
        /\ \/ pc' = [pc EXCEPT ![t] = "stopped"] /\ stopped' = [stopped EXCEPT ![stw[t]] = TRUE]
           \/ pc' = [pc EXCEPT ![t] = "scan"] /\ stopped' = stopped
    BY <1>10 DEF Request, StartScan, Goto
  <2>3. /\ \A v \in Threads \ {t} : pc'[v] = pc[v]
        /\ pc'[t] = "stopped" \/ (pc'[t] = "scan" /\ stopped' = stopped)
    BY <2>2 DEF Inv, TypeOK
  <2>4. \A v \in Threads : stw[v] = stw[t] => pc[v] \notin Stopping \union {"start"}
    BY <2>1 DEF Inv, MutexInv, HasMutex, Stopping
  <2>5. requester[stw[t]] = NULL /\ ~ stopped[stw[t]]
    BY <2>1, <2>4 DEF Inv, RequestInv, TypeOK
  <2>6. \A s \in Stops \ {stw[t]} : requester'[s] = requester[s] /\ requested'[s] = requested[s] /\ stopped'[s] = stopped[s]
    BY <2>1, <2>2 DEF Inv, TypeOK
  <2>7. \A s \in Stops \ {stw[t]} : requester[s] # t
    BY <2>1 DEF Inv, RequestInv
  <2>8. requester'[stw[t]] = t /\ requested'[stw[t]] /\ (pc'[t] = "stopped" <=> stopped'[stw[t]])
    BY <2>1, <2>2, <2>3, <2>5 DEF Inv, TypeOK
  <2>9. ASSUME NEW s \in Stops \ {stw[t]} PROVE
          /\ \A v \in Threads : requester'[s] = v <=> stw'[v] = s /\ pc'[v] \in Stopping \union {"start"}
          /\ requested'[s] <=> requester'[s] # NULL /\ pc'[requester'[s]] \in Stopping
          /\ stopped'[s] <=> requester'[s] # NULL /\ pc'[requester'[s]] \in {"stopped", "removed"}
    <3>1. requester[s] = NULL \/ (requester[s] \in Threads /\ requester[s] # t)
      BY <2>7 DEF Inv, TypeOK
    <3> QED
      BY <2>1, <2>3, <2>6, <3>1 DEF Inv, RequestInv
  <2>10. /\ \A v \in Threads : t = v <=> stw'[v] = stw[t] /\ pc'[v] \in Stopping \union {"start"}
         /\ t # NULL /\ pc'[t] \in Stopping
    BY <2>1, <2>3, <2>4, StopTheWorldAssumption DEF Stopping
  <2> QED
    BY <2>1, <2>3, <2>8, <2>9, <2>10 DEF RequestInv
<1>11. ASSUME NEW t \in Threads, ScanEnd(t) PROVE RequestInv'
  BY <1>11, StopTheWorldAssumption DEF Inv, TypeOK, RequestInv, Stopping, ScanEnd, Goto, SetState, stwVars, lockVars, local, WorldStopped
<1>12. ASSUME NEW t \in Threads, EventSet(t) PROVE RequestInv'
  BY <1>12, StopTheWorldAssumption DEF Inv, TypeOK, RequestInv, Stopping, EventSet, Goto, SetState, stwVars, lockVars, local, WorldStopped
<1>13. ASSUME NEW t \in Threads, TimedOut(t) PROVE RequestInv'
  BY <1>13, StopTheWorldAssumption DEF Inv, TypeOK, RequestInv, Stopping, TimedOut, Goto, SetState, stwVars, lockVars, local
<1>14. ASSUME NEW t \in Threads, ScanAgain(t) PROVE RequestInv'
  BY <1>14, StopTheWorldAssumption DEF Inv, TypeOK, RequestInv, Stopping, ScanAgain, Goto, SetState, stwVars, lockVars, local, StartScan
<1>15. ASSUME NEW t \in Threads, Start(t) PROVE RequestInv'
  BY <1>15, StopTheWorldAssumption DEF Inv, TypeOK, RequestInv, Stopping, Start, Goto, SetState, stwVars, lockVars, local
<1>16. ASSUME NEW t \in Threads, StartEnd(t) PROVE RequestInv'
  BY <1>16, StopTheWorldAssumption DEF Inv, TypeOK, RequestInv, Stopping, StartEnd, Goto, SetState, stwVars, lockVars, local
<1>17. ASSUME NEW t \in Threads, UnlockMutex(t) PROVE RequestInv'
  BY <1>17, StopTheWorldAssumption DEF Inv, TypeOK, RequestInv, Stopping, UnlockMutex, Goto, SetState, stwVars, lockVars, local
<1>18. ASSUME NEW t \in Threads, UnlockRW(t) PROVE RequestInv'
  BY <1>18, StopTheWorldAssumption DEF Inv, TypeOK, RequestInv, Stopping, UnlockRW, Goto, SetState, stwVars, lockVars, local
<1>19. ASSUME NEW t \in Threads, NEW u \in Threads, Scan(t, u) PROVE RequestInv'
  BY <1>19, StopTheWorldAssumption DEF Inv, TypeOK, RequestInv, Stopping, Scan, Goto, SetState, stwVars, lockVars, local
<1>20. ASSUME NEW t \in Threads, NEW u \in Threads, SetShuttingDown(t, u) PROVE RequestInv'
  BY <1>20, StopTheWorldAssumption DEF Inv, TypeOK, RequestInv, Stopping, SetShuttingDown, Goto, SetState, stwVars, lockVars, local, UnparkAll
<1>21. ASSUME NEW t \in Threads, NEW u \in Threads, Wake(t, u) PROVE RequestInv'
  BY <1>21, StopTheWorldAssumption DEF Inv, TypeOK, RequestInv, Stopping, Wake, Goto, SetState, stwVars, lockVars, local, UnparkAll
<1>22. ASSUME NEW t \in Threads, HandlePending(t) PROVE RequestInv'
  BY <1>22, StopTheWorldAssumption DEF Inv, TypeOK, RequestInv, Stopping, HandlePending, Goto, SetState, stwVars, lockVars, local
<1>23. ASSUME NEW t \in Threads, New(t) PROVE RequestInv'
  BY <1>23, StopTheWorldAssumption DEF Inv, TypeOK, RequestInv, Stopping, New, Goto, SetState, stwVars, lockVars, local
<1>24. ASSUME NEW t \in Threads, Return(t) PROVE RequestInv'
  BY <1>24, StopTheWorldAssumption DEF Inv, TypeOK, RequestInv, Stopping, Return, Goto, SetState, stwVars, lockVars, local
<1>25. ASSUME NEW t \in Threads, Detach(t) PROVE RequestInv'
  BY <1>25, StopTheWorldAssumption DEF Inv, TypeOK, RequestInv, Stopping, Detach, Goto, SetState, stwVars, lockVars, local
<1>26. ASSUME NEW t \in Threads, Exit(t) PROVE RequestInv'
  BY <1>26, StopTheWorldAssumption DEF Inv, TypeOK, RequestInv, Stopping, Exit, Goto, SetState, stwVars, lockVars, local, Delete, CountDown
<1>27. ASSUME NEW t \in Threads, RemoveExcept(t) PROVE RequestInv'
  BY <1>27, StopTheWorldAssumption DEF Inv, TypeOK, RequestInv, Stopping, RemoveExcept, Goto, SetState, stwVars, lockVars, local
<1>28. ASSUME NEW t \in Threads, NEW s \in Stops, Stop(t, s) PROVE RequestInv'
  BY <1>28, StopTheWorldAssumption DEF Inv, TypeOK, RequestInv, Stopping, Stop, Goto, SetState, stwVars, lockVars, local
<1>29. ASSUME NEW t \in Threads, NEW u \in Threads, Drop(t, u) PROVE RequestInv'
  BY <1>29, StopTheWorldAssumption DEF Inv, TypeOK, RequestInv, Stopping, Drop, Goto, SetState, stwVars, lockVars, local, Delete, CountDown
<1> QED
  BY <1>1, <1>2, <1>3, <1>4, <1>5, <1>6, <1>7, <1>8, <1>9, <1>10, <1>11, <1>12, <1>13, <1>14, <1>15, <1>16, <1>17, <1>18, <1>19, <1>20, <1>21, <1>22, <1>23, <1>24, <1>25, <1>26, <1>27, <1>28, <1>29 DEF Next, Step

-----------------------------------------------------------------------------
(* A stop of everything and one of an interpreter exclude each other, and  *)
(* so do two of the same interpreter.                                      *)
LEMMA Requester ==
  ASSUME Inv, NEW s \in Stops, requested[s]
  PROVE  /\ requester[s] \in Threads /\ stw[requester[s]] = s /\ pc[requester[s]] \in Stopping
         /\ HasMutex(requester[s]) /\ HasRW(requester[s]) /\ mutex[s] = requester[s]
<1>1. requester[s] \in Threads /\ stw[requester[s]] = s /\ pc[requester[s]] \in Stopping
  BY DEF Inv, TypeOK, RequestInv
<1> QED
  BY <1>1 DEF HasMutex, HasRW, Inv, MutexInv

LEMMA Exclusive ==
  ASSUME Inv, NEW t \in Threads, HasRW(t), NEW s \in Stops, requested[s],
         s = GLOBAL \/ stw[t] = GLOBAL
  PROVE  stw[t] = s
<1>1. writer # NULL => readers = {}
  BY DEF Inv, RWInv
<1>2. CASE s = GLOBAL
  BY <1>1, <1>2, Requester, StopTheWorldAssumption DEF Inv, RWInv
<1>3. CASE stw[t] = GLOBAL
  BY <1>1, <1>3, Requester, StopTheWorldAssumption DEF Inv, RWInv
<1> QED
  BY <1>2, <1>3

Concerns(s, u) == s = GLOBAL \/ Interp[u] = s

LEMMA Alone ==
  ASSUME Inv, NEW t \in Threads, HasRW(t), NEW u \in Threads, Concerns(stw[t], u),
         NEW s \in Stops, requested[s], Concerns(s, u)
  PROVE  /\ stw[t] = s
         /\ HasMutex(t) => requester[s] = t
<1>1. stw[t] = s
  BY Exclusive DEF Concerns
<1>2. HasMutex(t) => mutex[s] = t
  BY <1>1 DEF Inv, MutexInv
<1> QED
  BY <1>1, <1>2, Requester

(* What the countdown says of those that are waited for.                   *)
LEMMA SetsFinite ==
  ASSUME TypeOK, NEW s
  PROVE  /\ IsFiniteSet(Waited(s)) /\ IsFiniteSet(Late(s))
         /\ Cardinality(Waited(s)) \in Nat /\ Cardinality(Late(s)) \in Nat
<1>1. IsFiniteSet(Late(s))
  BY FS_Subset, StopTheWorldAssumption DEF Late
<1>2. IsFiniteSet(Waited(s))
  BY FS_Subset, StopTheWorldAssumption DEF Waited, Affected, TypeOK
<1> QED
  BY <1>1, <1>2, FS_CardinalityType

LEMMA CountFacts ==
  ASSUME Inv, NEW s \in Stops, requested[s]
  PROVE  /\ countdown[s] \in Nat /\ Scanned(s) \in Nat /\ Scanned(s) <= countdown[s]
         /\ Waited(s) \union Late(s) # {} => countdown[s] - 1 \in Nat
         /\ Waited(s) \union Late(s) # {} => Scanned(s) < countdown[s]
         /\ countdown[s] = 0 => Waited(s) = {} /\ Late(s) = {}
<1>1. TypeOK
  BY DEF Inv
<1>2. countdown[s] = Scanned(s) + Cardinality(Waited(s)) + Cardinality(Late(s))
  BY DEF Inv, CountdownExact
<1>3. Scanned(s) \in Nat
  BY Requester DEF Inv, TypeOK, Scanned
<1>4. /\ Cardinality(Waited(s)) = 0 <=> Waited(s) = {}
      /\ Cardinality(Late(s)) = 0 <=> Late(s) = {}
  BY <1>1, SetsFinite, FS_EmptySet
<1>5. Cardinality(Waited(s)) \in Nat /\ Cardinality(Late(s)) \in Nat
  BY <1>1, SetsFinite
<1> QED
  BY <1>2, <1>3, <1>4, <1>5

(* A stopped world waits for nobody: all threads concerned are suspended.  *)
LEMMA StoppedFacts ==
  ASSUME Inv, NEW s \in Stops, stopped[s]
  PROVE  /\ requested[s] /\ Late(s) = {}
         /\ \A u \in linked : Concerns(s, u) /\ u # requester[s] => state[u] = "suspended"
<1>1. requested[s]
  BY DEF Inv, RequestInv, Stopping
<1>2. countdown[s] = 0
  BY <1>1 DEF Inv, EventInv
<1>3. Waited(s) = {} /\ Late(s) = {}
  BY <1>1, <1>2, CountFacts
<1> QED
  BY <1>1, <1>3 DEF Waited, Affected, Concerns


(* A thread that has stopped the world, and starts it again, meets nobody  *)
(* who is about to stop for a request.                                     *)
LEMMA NotLate ==
  ASSUME Inv, NEW t \in Threads, pc[t] \in {"stopped", "removed", "start"},
         NEW u \in Threads, u # t, Concerns(stw[t], u)
  PROVE  /\ pc[u] # "count"
         /\ ~ (pc[u] = "detach" /\ stw[u] # NULL)
<1> SUFFICES ASSUME pc[u] \in {"detach", "count"}, stw[u] # NULL
             PROVE  FALSE
  BY StopTheWorldAssumption DEF Inv, NextInv
<1>1. HasRW(t) /\ HasMutex(t)
  BY DEF HasRW, HasMutex, Stopping
<1>2. stw[u] \in {Interp[u], GLOBAL} /\ stw[u] \in Stops
  BY StopTheWorldAssumption DEF Inv, NextInv, Stops
<1>3. requested[stw[u]] /\ Concerns(stw[u], u)
  BY <1>2 DEF Inv, LateInv, Concerns
<1>4. stw[t] = stw[u] /\ requester[stw[u]] = t
  BY <1>1, <1>2, <1>3, Alone
<1>5. pc[t] \in {"stopped", "removed"}
  BY <1>2, <1>3, <1>4 DEF Inv, RequestInv, Stopping
<1>6. stopped[stw[u]]
  BY <1>2, <1>4, <1>5, StopTheWorldAssumption DEF Inv, RequestInv
<1>7. CASE pc[u] = "count"
  <2>1. u \in Late(stw[u])
    BY <1>7 DEF Late
  <2> QED
    BY <1>2, <1>6, <2>1, StoppedFacts
<1>8. CASE pc[u] = "detach"
  <2>1. state[u] = "attached"
    BY <1>8 DEF Inv, StateInv, Inside, Places
  <2>2. u \in linked
    BY <1>8, <2>1 DEF Inv, StateInv, TodoInv
  <2> QED
    BY <1>2, <1>3, <1>4, <1>6, <2>1, <2>2, StoppedFacts
<1> QED
  BY <1>7, <1>8

(* The removed threads were suspended, and hold nothing.                   *)
LEMMA RemovedFacts ==
  ASSUME Inv, NEW t \in Threads, pc[t] = "removed", NEW u \in todo[t]
  PROVE  /\ u \in Threads /\ u # t /\ u \notin linked /\ state[u] = "suspended"
         /\ ~ HasRW(u) /\ pc[u] \notin {"none", "count", "hung"} \union Inside
         /\ \A r \in Threads : pc[r] = "removed" => r = t
<1>1. u \in Threads /\ state[u] = "suspended" /\ u \notin linked
  BY DEF Inv, TypeOK, TodoInv, StateInv
<1>2. u # t
  BY <1>1 DEF Inv, StateInv, Inside, Places
<1>3. stw[t] = GLOBAL /\ HasRW(t)
  BY DEF Inv, NextInv, HasRW, HasMutex, Stopping
<1>4. writer = t /\ readers = {}
  BY <1>3, StopTheWorldAssumption DEF Inv, RWInv
<1>5. \A r \in Threads : HasRW(r) => r = t
  BY <1>4 DEF Inv, RWInv
<1>6. ~ HasRW(u) /\ \A r \in Threads : pc[r] = "removed" => r = t
  BY <1>1, <1>2, <1>5 DEF HasRW, HasMutex, Stopping
<1>7. pc[u] # "count"
  BY <1>1, <1>2, <1>3, NotLate DEF Concerns
<1>8. pc[u] \notin {"none", "hung"} \union Inside
  BY <1>1 DEF Inv, StateInv
<1> QED
  BY <1>1, <1>2, <1>6, <1>7, <1>8

LEMMA WakeFacts ==
  ASSUME Inv, NEW t \in Threads, NEW u \in Threads, Wake(t, u)
  PROVE  /\ u # t /\ u \in linked /\ state[u] = "suspended" /\ Concerns(stw[t], u)
         /\ pc[u] \notin {"none", "count", "hung"} \union Inside
         /\ pc[t] = "start" /\ HasRW(t) /\ HasMutex(t)
<1>1. pc[t] = "start" /\ u \in todo[t]
  BY DEF Wake
<1>2. u # t /\ u \in linked /\ state[u] = "suspended" /\ Concerns(stw[t], u)
  BY <1>1 DEF Inv, TodoInv, Affected, Concerns
<1>3. pc[u] # "count"
  BY <1>1, <1>2, NotLate
<1>4. pc[u] \notin {"none", "hung"} \union Inside
  BY <1>2 DEF Inv, StateInv
<1> QED
  BY <1>1, <1>2, <1>3, <1>4 DEF HasRW, HasMutex

(* Who deletes a thread state, its own or another's.                       *)
LEMMA DeleteFacts ==
  ASSUME Inv, NEW t \in Threads, NEW u \in Threads, (Exit(t) /\ u = t) \/ Drop(t, u)
  PROVE  /\ Delete(u) /\ headLock = NULL /\ pc[u] \in {"run", "out"} /\ u \in linked
         /\ \A s \in Stops : requester[s] # u
         /\ \A s \in Stops : requested[s] /\ Concerns(s, u) /\ state[u] # "suspended" => u \in Waited(s)
<1>1. Delete(u) /\ headLock = NULL /\ pc[u] \in {"run", "out"}
  BY DEF Exit, Drop, Delete
<1>2. u \in linked
  <2>1. CASE Exit(t) /\ u = t
    BY <2>1 DEF Exit, Inv, StateInv, TodoInv, Inside, Places
  <2> QED
    BY <2>1 DEF Drop
<1>3. \A s \in Stops : requester[s] # u
  BY <1>1 DEF Inv, RequestInv, Stopping
<1> QED
  BY <1>1, <1>2, <1>3 DEF Waited, Affected, Concerns

LEMMA CountDownFacts ==
  ASSUME TypeOK, NEW S, CountDown(S), \A s \in Stops : s \in S => countdown[s] - 1 \in Nat
  PROVE  /\ countdown' \in [Stops -> Nat] /\ event' \in [Stops -> BOOLEAN]
         /\ \A s \in Stops :
              /\ s \in S => countdown'[s] = countdown[s] - 1
              /\ s \notin S => countdown'[s] = countdown[s]
              /\ event'[s] <=> event[s] \/ (s \in S /\ countdown[s] = 1)
         /\ requested' = requested /\ stopped' = stopped /\ requester' = requester
<1>1. countdown' = [s \in Stops |-> IF s \in S THEN countdown[s] - 1 ELSE countdown[s]]
  BY DEF CountDown
<1>2. event' = [s \in Stops |-> event[s] \/ (s \in S /\ countdown[s] = 1)]
  BY DEF CountDown
<1>3. countdown' \in [Stops -> Nat]
  BY <1>1 DEF TypeOK
<1>4. event' \in [Stops -> BOOLEAN]
  BY <1>2
<1> QED
  BY <1>1, <1>2, <1>3, <1>4 DEF CountDown

(* A deletion counts for every stop that waits for the thread state.       *)
LEMMA DeleteCounts ==
  ASSUME Inv, NEW t \in Threads, NEW u \in Threads, (Exit(t) /\ u = t) \/ Drop(t, u)
  PROVE  /\ countdown' \in [Stops -> Nat] /\ event' \in [Stops -> BOOLEAN]
         /\ \A s \in Stops :
              IF requested[s] /\ u \in Waited(s)
              THEN /\ countdown'[s] = countdown[s] - 1
                   /\ event'[s] <=> event[s] \/ countdown[s] = 1
              ELSE countdown'[s] = countdown[s] /\ (event'[s] <=> event[s])
         /\ requested' = requested /\ stopped' = stopped /\ requester' = requester
<1>1. CASE state[u] = "suspended"
  <2>1. UNCHANGED stwVars
    BY <1>1, DeleteFacts DEF Delete
  <2> QED
    BY <1>1, <2>1 DEF stwVars, Inv, TypeOK, Waited
<1>2. CASE state[u] # "suspended"
  <2>1. CountDown(Requests(Interp[u]))
    BY <1>2, DeleteFacts DEF Delete
  <2>2. \A s \in Stops : s \in Requests(Interp[u]) <=> requested[s] /\ u \in Waited(s)
    <3>1. \A s \in Stops : s \in Requests(Interp[u]) <=> requested[s] /\ Concerns(s, u)
      BY DEF Requests, Concerns
    <3>2. \A s \in Stops : u \in Waited(s) => Concerns(s, u)
      BY DEF Waited, Affected, Concerns
    <3> QED
      BY <1>2, <3>1, <3>2, DeleteFacts
  <2>3. \A s \in Stops : s \in Requests(Interp[u]) => countdown[s] - 1 \in Nat
    BY <2>2, CountFacts
  <2>4. TypeOK
    BY DEF Inv
  <2> HIDE DEF Inv
  <2> QED
    BY <2>1, <2>2, <2>3, <2>4, CountDownFacts
<1> QED
  BY <1>1, <1>2

LEMMA CountCounts ==
  ASSUME Inv, NEW t \in Threads, Count(t)
  PROVE  /\ stw[t] \in Stops /\ requested[stw[t]] /\ t \in Late(stw[t])
         /\ countdown' \in [Stops -> Nat] /\ event' \in [Stops -> BOOLEAN]
         /\ \A s \in Stops :
              IF s = stw[t]
              THEN /\ countdown'[s] = countdown[s] - 1
                   /\ event'[s] <=> event[s] \/ countdown[s] = 1
              ELSE countdown'[s] = countdown[s] /\ (event'[s] <=> event[s])
         /\ requested' = requested /\ stopped' = stopped /\ requester' = requester
<1>1. pc[t] = "count" /\ CountDown({stw[t]})
  BY DEF Count
<1>2. stw[t] \in Stops /\ stw[t] # NULL
  BY <1>1, StopTheWorldAssumption DEF Inv, NextInv, Stops
<1>3. requested[stw[t]] /\ t \in Late(stw[t])
  BY <1>1, <1>2 DEF Inv, LateInv, Late
<1>4. \A s \in Stops : s \in {stw[t]} => countdown[s] - 1 \in Nat
  BY <1>2, <1>3, CountFacts
<1>5. TypeOK
  BY DEF Inv
<1>6. \A s \in Stops : s \in {stw[t]} <=> s = stw[t]
  OBVIOUS
<1> QED
  BY <1>1, <1>2, <1>3, <1>4, <1>5, <1>6, CountDownFacts

(* Where a thread is, and the word of its thread state.                    *)
LEMMA StateStep ==
  ASSUME Inv, [Next]_vars
  PROVE  StateInv'
<1>1. CASE UNCHANGED vars
  BY <1>1 DEF Inv, TypeOK, NextInv, StateInv, HasRW, HasMutex, Attaching, Stopping, Inside, Places, vars, stwVars, lockVars, local
<1>2. ASSUME NEW t \in Threads, Attach(t) PROVE StateInv'
  BY <1>2, StopTheWorldAssumption DEF Inv, TypeOK, NextInv, StateInv, HasRW, HasMutex, Attaching, Stopping, Inside, Places, Attach, Goto, SetState, stwVars, lockVars, local
<1>3. ASSUME NEW t \in Threads, Suspend(t) PROVE StateInv'
  BY <1>3, StopTheWorldAssumption DEF Inv, TypeOK, NextInv, StateInv, HasRW, HasMutex, Attaching, Stopping, Inside, Places, Suspend, Goto, SetState, stwVars, lockVars, local
<1>4. ASSUME NEW t \in Threads, DetachSuspended(t) PROVE StateInv'
  BY <1>4, StopTheWorldAssumption DEF Inv, TypeOK, NextInv, StateInv, HasRW, HasMutex, Attaching, Stopping, Inside, Places, DetachSuspended, Goto, SetState, stwVars, lockVars, local
<1>5. ASSUME NEW t \in Threads, Count(t) PROVE StateInv'
  BY <1>5, StopTheWorldAssumption DEF Inv, TypeOK, NextInv, StateInv, HasRW, HasMutex, Attaching, Stopping, Inside, Places, Count, Goto, SetState, stwVars, lockVars, local, CountDown
<1>6. ASSUME NEW t \in Threads, LockRW(t) PROVE StateInv'
  BY <1>6, StopTheWorldAssumption DEF Inv, TypeOK, NextInv, StateInv, HasRW, HasMutex, Attaching, Stopping, Inside, Places, LockRW, Goto, SetState, stwVars, lockVars, local, WaitAt, RWFree
<1>7. ASSUME NEW t \in Threads, RetryRW(t) PROVE StateInv'
  BY <1>7, StopTheWorldAssumption DEF Inv, TypeOK, NextInv, StateInv, HasRW, HasMutex, Attaching, Stopping, Inside, Places, RetryRW, Goto, SetState, stwVars, lockVars, local, AttachTo, RWFree
<1>8. ASSUME NEW t \in Threads, LockMutex(t) PROVE StateInv'
  BY <1>8, StopTheWorldAssumption DEF Inv, TypeOK, NextInv, StateInv, HasRW, HasMutex, Attaching, Stopping, Inside, Places, LockMutex, Goto, SetState, stwVars, lockVars, local, WaitAt
<1>9. ASSUME NEW t \in Threads, RetryMutex(t) PROVE StateInv'
  BY <1>9, StopTheWorldAssumption DEF Inv, TypeOK, NextInv, StateInv, HasRW, HasMutex, Attaching, Stopping, Inside, Places, RetryMutex, Goto, SetState, stwVars, lockVars, local, AttachTo
<1>10. ASSUME NEW t \in Threads, Request(t) PROVE StateInv'
  BY <1>10, StopTheWorldAssumption DEF Inv, TypeOK, NextInv, StateInv, HasRW, HasMutex, Attaching, Stopping, Inside, Places, Request, Goto, SetState, stwVars, lockVars, local, StartScan
<1>11. ASSUME NEW t \in Threads, ScanEnd(t) PROVE StateInv'
  BY <1>11, StopTheWorldAssumption DEF Inv, TypeOK, NextInv, StateInv, HasRW, HasMutex, Attaching, Stopping, Inside, Places, ScanEnd, Goto, SetState, stwVars, lockVars, local, WorldStopped
<1>12. ASSUME NEW t \in Threads, EventSet(t) PROVE StateInv'
  BY <1>12, StopTheWorldAssumption DEF Inv, TypeOK, NextInv, StateInv, HasRW, HasMutex, Attaching, Stopping, Inside, Places, EventSet, Goto, SetState, stwVars, lockVars, local, WorldStopped
<1>13. ASSUME NEW t \in Threads, TimedOut(t) PROVE StateInv'
  BY <1>13, StopTheWorldAssumption DEF Inv, TypeOK, NextInv, StateInv, HasRW, HasMutex, Attaching, Stopping, Inside, Places, TimedOut, Goto, SetState, stwVars, lockVars, local
<1>14. ASSUME NEW t \in Threads, ScanAgain(t) PROVE StateInv'
  BY <1>14, StopTheWorldAssumption DEF Inv, TypeOK, NextInv, StateInv, HasRW, HasMutex, Attaching, Stopping, Inside, Places, ScanAgain, Goto, SetState, stwVars, lockVars, local, StartScan
<1>15. ASSUME NEW t \in Threads, Start(t) PROVE StateInv'
  BY <1>15, StopTheWorldAssumption DEF Inv, TypeOK, NextInv, StateInv, HasRW, HasMutex, Attaching, Stopping, Inside, Places, Start, Goto, SetState, stwVars, lockVars, local
<1>16. ASSUME NEW t \in Threads, StartEnd(t) PROVE StateInv'
  BY <1>16, StopTheWorldAssumption DEF Inv, TypeOK, NextInv, StateInv, HasRW, HasMutex, Attaching, Stopping, Inside, Places, StartEnd, Goto, SetState, stwVars, lockVars, local
<1>17. ASSUME NEW t \in Threads, UnlockMutex(t) PROVE StateInv'
  BY <1>17, StopTheWorldAssumption DEF Inv, TypeOK, NextInv, StateInv, HasRW, HasMutex, Attaching, Stopping, Inside, Places, UnlockMutex, Goto, SetState, stwVars, lockVars, local
<1>18. ASSUME NEW t \in Threads, UnlockRW(t) PROVE StateInv'
  BY <1>18, StopTheWorldAssumption DEF Inv, TypeOK, NextInv, StateInv, HasRW, HasMutex, Attaching, Stopping, Inside, Places, UnlockRW, Goto, SetState, stwVars, lockVars, local
<1>19. ASSUME NEW t \in Threads, NEW u \in Threads, Scan(t, u) PROVE StateInv'
  <2>1. /\ pc' = pc /\ linked' = linked /\ next' = next
        /\ state' = state \/ (state[u] = "detached" /\ state' = [state EXCEPT ![u] = "suspended"])
        /\ pc[t] = "scan" /\ \A v \in Threads \ {t} : todo'[v] = todo[v]
    BY <1>19 DEF Scan, SetState, Inv, TypeOK
  <2>2. state[u] = "detached" => pc[u] \notin {"asleep", "count", "hung"} \union Inside
    BY DEF Inv, StateInv
  <2>3. u \in linked
    BY <1>19 DEF Scan, Inv, TodoInv, Affected
  <2>4. \A v \in Threads : HasRW(v)' = HasRW(v)
    BY <2>1 DEF HasRW, HasMutex, Attaching
  <2>5. \A v \in Threads : state'[v] = state[v] \/ (v = u /\ state[u] = "detached" /\ state'[u] = "suspended")
    BY <2>1 DEF Inv, TypeOK
  <2>6. pc[u] # "none"
    BY <2>3 DEF Inv, StateInv
  <2> QED
    BY <2>1, <2>2, <2>3, <2>4, <2>5, <2>6 DEF Inv, StateInv
<1>20. ASSUME NEW t \in Threads, NEW u \in Threads, SetShuttingDown(t, u) PROVE StateInv'
  <2>1. /\ state' = [state EXCEPT ![u] = "shutting_down"] /\ todo' = [todo EXCEPT ![t] = @ \ {u}]
        /\ pc' = IF pc[u] = "asleep" THEN [pc EXCEPT ![u] = "attach"] ELSE pc
        /\ linked' = linked /\ next' = next /\ stw' = stw
    BY <1>20 DEF SetShuttingDown, SetState, UnparkAll
  <2>2. pc[t] = "removed" /\ u \in todo[t]
    BY <1>20 DEF SetShuttingDown
  <2>3. /\ u \in Threads /\ u # t /\ u \notin linked /\ state[u] = "suspended"
        /\ ~ HasRW(u) /\ pc[u] \notin {"none", "count", "hung"} \union Inside
        /\ \A r \in Threads : pc[r] = "removed" => r = t
    BY <2>2, RemovedFacts
  <2>4. \A v \in Threads : HasRW(v)' = HasRW(v)
    BY <2>1 DEF HasRW, HasMutex, Attaching, Inv, TypeOK, Stopping
  <2>5. \A v \in Threads \ {u} : state'[v] = state[v] /\ pc'[v] = pc[v]
    BY <2>1 DEF Inv, TypeOK
  <2>6. /\ state'[u] = "shutting_down" /\ pc'[u] \notin {"none", "count", "asleep"} \union Inside
        /\ \A v \in Threads : pc'[v] = "removed" <=> pc[v] = "removed"
    BY <2>1, <2>3 DEF Inv, TypeOK, Inside, Places
  <2>7. \A v \in Threads \ {u}, r \in Threads : v \in todo'[r] <=> v \in todo[r]
    BY <2>1 DEF Inv, TypeOK
  <2> QED
    BY <2>1, <2>3, <2>4, <2>5, <2>6, <2>7 DEF Inv, StateInv
<1>21. ASSUME NEW t \in Threads, NEW u \in Threads, Wake(t, u) PROVE StateInv'
  <2>1. /\ state' = [state EXCEPT ![u] = "detached"] /\ todo' = [todo EXCEPT ![t] = @ \ {u}]
        /\ pc' = IF pc[u] = "asleep" THEN [pc EXCEPT ![u] = "attach"] ELSE pc
        /\ linked' = linked /\ next' = next /\ stw' = stw
    BY <1>21 DEF Wake, SetState, UnparkAll
  <2>2. /\ u # t /\ u \in linked /\ state[u] = "suspended"
        /\ pc[u] \notin {"none", "count", "hung"} \union Inside /\ pc[t] = "start"
    BY <1>21, WakeFacts
  <2>4. \A v \in Threads : HasRW(v)' = HasRW(v)
    BY <2>1 DEF HasRW, HasMutex, Attaching, Inv, TypeOK, Stopping
  <2>5. \A v \in Threads \ {u} : state'[v] = state[v] /\ pc'[v] = pc[v]
    BY <2>1 DEF Inv, TypeOK
  <2>6. /\ state'[u] = "detached" /\ pc'[u] \notin {"none", "count", "asleep", "hung"} \union Inside
        /\ \A v \in Threads : pc'[v] = "removed" <=> pc[v] = "removed"
    BY <2>1, <2>2 DEF Inv, TypeOK, Inside, Places
  <2>7. \A r \in Threads \ {t} : todo'[r] = todo[r]
    BY <2>1 DEF Inv, TypeOK
  <2> QED
    BY <2>1, <2>2, <2>4, <2>5, <2>6, <2>7 DEF Inv, StateInv
<1>22. ASSUME NEW t \in Threads, HandlePending(t) PROVE StateInv'
  BY <1>22, StopTheWorldAssumption DEF Inv, TypeOK, NextInv, StateInv, HasRW, HasMutex, Attaching, Stopping, Inside, Places, HandlePending, Goto, SetState, stwVars, lockVars, local
<1>23. ASSUME NEW t \in Threads, New(t) PROVE StateInv'
  <2>1. /\ pc[t] = "none" /\ pc' = [pc EXCEPT ![t] = "out"] /\ linked' = linked \union {t}
        /\ next' = next /\ todo' = todo
        /\ \E w \in {"detached", "suspended"} : state' = [state EXCEPT ![t] = w]
    BY <1>23 DEF New, Goto, SetState, local
  <2>2. pc'[t] = "out" /\ state'[t] \in {"detached", "suspended"}
    BY <2>1 DEF Inv, TypeOK
  <2>3. \A v \in Threads \ {t} : pc'[v] = pc[v] /\ state'[v] = state[v] /\ (v \in linked' <=> v \in linked)
    BY <2>1 DEF Inv, TypeOK
  <2>4. \A r \in Threads : pc[r] = "removed" => t \notin todo[r]
    BY <2>1 DEF Inv, StateInv, TodoInv
  <2>5. \A v \in Threads \ {t} : HasRW(v)' = HasRW(v)
    BY <2>1, <2>3 DEF HasRW, HasMutex, Attaching
  <2>6. t \in linked'
    BY <2>1
  <2> QED
    BY <2>1, <2>2, <2>3, <2>4, <2>5, <2>6 DEF Inv, StateInv, Inside
<1>24. ASSUME NEW t \in Threads, Return(t) PROVE StateInv'
  BY <1>24, StopTheWorldAssumption DEF Inv, TypeOK, NextInv, StateInv, HasRW, HasMutex, Attaching, Stopping, Inside, Places, Return, Goto, SetState, stwVars, lockVars, local
<1>25. ASSUME NEW t \in Threads, Detach(t) PROVE StateInv'
  BY <1>25, StopTheWorldAssumption DEF Inv, TypeOK, NextInv, StateInv, HasRW, HasMutex, Attaching, Stopping, Inside, Places, Detach, Goto, SetState, stwVars, lockVars, local
<1>26. ASSUME NEW t \in Threads, Exit(t) PROVE StateInv'
  BY <1>26, StopTheWorldAssumption DEF Inv, TypeOK, NextInv, StateInv, HasRW, HasMutex, Attaching, Stopping, Inside, Places, Exit, Goto, SetState, stwVars, lockVars, local, Delete, CountDown
<1>27. ASSUME NEW t \in Threads, RemoveExcept(t) PROVE StateInv'
  BY <1>27, StopTheWorldAssumption DEF Inv, TypeOK, NextInv, StateInv, HasRW, HasMutex, Attaching, Stopping, Inside, Places, RemoveExcept, Goto, SetState, stwVars, lockVars, local
<1>28. ASSUME NEW t \in Threads, NEW s \in Stops, Stop(t, s) PROVE StateInv'
  BY <1>28, StopTheWorldAssumption DEF Inv, TypeOK, NextInv, StateInv, HasRW, HasMutex, Attaching, Stopping, Inside, Places, Stop, Goto, SetState, stwVars, lockVars, local
<1>29. ASSUME NEW t \in Threads, NEW u \in Threads, Drop(t, u) PROVE StateInv'
  BY <1>29, StopTheWorldAssumption DEF Inv, TypeOK, NextInv, StateInv, HasRW, HasMutex, Attaching, Stopping, Inside, Places, Drop, Goto, SetState, stwVars, lockVars, local, Delete, CountDown
<1> QED
  BY <1>1, <1>2, <1>3, <1>4, <1>5, <1>6, <1>7, <1>8, <1>9, <1>10, <1>11, <1>12, <1>13, <1>14, <1>15, <1>16, <1>17, <1>18, <1>19, <1>20, <1>21, <1>22, <1>23, <1>24, <1>25, <1>26, <1>27, <1>28, <1>29 DEF Next, Step

(* Whom a loop has still to visit.                                         *)
LEMMA TodoStep ==
  ASSUME Inv, [Next]_vars
  PROVE  TodoInv'
<1>1. CASE UNCHANGED vars
  BY <1>1 DEF Inv, TypeOK, TodoInv, NextInv, StateInv, HeadInv, Affected, vars, stwVars, lockVars, local
<1>2. ASSUME NEW t \in Threads, Attach(t) PROVE TodoInv'
  BY <1>2, StopTheWorldAssumption DEF Inv, TypeOK, TodoInv, NextInv, StateInv, HeadInv, Affected, Attach, Goto, SetState, stwVars, lockVars, local
<1>3. ASSUME NEW t \in Threads, Suspend(t) PROVE TodoInv'
  BY <1>3, StopTheWorldAssumption DEF Inv, TypeOK, TodoInv, NextInv, StateInv, HeadInv, Affected, Suspend, Goto, SetState, stwVars, lockVars, local
<1>4. ASSUME NEW t \in Threads, DetachSuspended(t) PROVE TodoInv'
  <2>1. state[t] = "attached" /\ linked' = linked /\ stw' = stw /\ todo' = todo
    BY <1>4 DEF DetachSuspended, WaitAt, local, lockVars, Inv, StateInv, Inside, Places
  <2>2. \A v \in Threads \ {t} : state'[v] = state[v] /\ pc'[v] = pc[v]
    BY <1>4 DEF DetachSuspended, WaitAt, Goto, SetState, Inv, TypeOK
  <2>3. pc'[t] \notin {"scan", "start", "removed"}
    BY <1>4 DEF DetachSuspended, WaitAt, Goto, Inv, TypeOK
  <2>4. \A v \in Threads : pc[v] \in {"start", "removed"} => t \notin todo[v]
    BY <2>1 DEF Inv, TodoInv
  <2>5. \A s : Affected(s)' = Affected(s)
    BY <2>1 DEF Affected
  <2>6. \A v \in Threads : todo[v] \subseteq Threads
    BY DEF Inv, TypeOK
  <2> QED
    BY <2>1, <2>2, <2>3, <2>4, <2>5, <2>6 DEF Inv, TodoInv
<1>5. ASSUME NEW t \in Threads, Count(t) PROVE TodoInv'
  BY <1>5, StopTheWorldAssumption DEF Inv, TypeOK, TodoInv, NextInv, StateInv, HeadInv, Affected, Count, Goto, SetState, stwVars, lockVars, local, CountDown
<1>6. ASSUME NEW t \in Threads, LockRW(t) PROVE TodoInv'
  <2>1. state[t] = "attached" /\ linked' = linked /\ stw' = stw /\ todo' = todo
    BY <1>6 DEF LockRW, WaitAt, local, lockVars, Inv, StateInv, Inside, Places
  <2>2. \A v \in Threads \ {t} : state'[v] = state[v] /\ pc'[v] = pc[v]
    BY <1>6 DEF LockRW, WaitAt, Goto, SetState, Inv, TypeOK
  <2>3. pc'[t] \notin {"scan", "start", "removed"}
    BY <1>6 DEF LockRW, WaitAt, Goto, Inv, TypeOK
  <2>4. \A v \in Threads : pc[v] \in {"start", "removed"} => t \notin todo[v]
    BY <2>1 DEF Inv, TodoInv
  <2>5. \A s : Affected(s)' = Affected(s)
    BY <2>1 DEF Affected
  <2>6. \A v \in Threads : todo[v] \subseteq Threads
    BY DEF Inv, TypeOK
  <2> QED
    BY <2>1, <2>2, <2>3, <2>4, <2>5, <2>6 DEF Inv, TodoInv
<1>7. ASSUME NEW t \in Threads, RetryRW(t) PROVE TodoInv'
  BY <1>7, StopTheWorldAssumption DEF Inv, TypeOK, TodoInv, NextInv, StateInv, HeadInv, Affected, RetryRW, Goto, SetState, stwVars, lockVars, local, AttachTo, RWFree
<1>8. ASSUME NEW t \in Threads, LockMutex(t) PROVE TodoInv'
  <2>1. state[t] = "attached" /\ linked' = linked /\ stw' = stw /\ todo' = todo
    BY <1>8 DEF LockMutex, WaitAt, local, lockVars, Inv, StateInv, Inside, Places
  <2>2. \A v \in Threads \ {t} : state'[v] = state[v] /\ pc'[v] = pc[v]
    BY <1>8 DEF LockMutex, WaitAt, Goto, SetState, Inv, TypeOK
  <2>3. pc'[t] \notin {"scan", "start", "removed"}
    BY <1>8 DEF LockMutex, WaitAt, Goto, Inv, TypeOK
  <2>4. \A v \in Threads : pc[v] \in {"start", "removed"} => t \notin todo[v]
    BY <2>1 DEF Inv, TodoInv
  <2>5. \A s : Affected(s)' = Affected(s)
    BY <2>1 DEF Affected
  <2>6. \A v \in Threads : todo[v] \subseteq Threads
    BY DEF Inv, TypeOK
  <2> QED
    BY <2>1, <2>2, <2>3, <2>4, <2>5, <2>6 DEF Inv, TodoInv
<1>9. ASSUME NEW t \in Threads, RetryMutex(t) PROVE TodoInv'
  BY <1>9, StopTheWorldAssumption DEF Inv, TypeOK, TodoInv, NextInv, StateInv, HeadInv, Affected, RetryMutex, Goto, SetState, stwVars, lockVars, local, AttachTo
<1>10. ASSUME NEW t \in Threads, Request(t) PROVE TodoInv'
  BY <1>10, StopTheWorldAssumption DEF Inv, TypeOK, TodoInv, NextInv, StateInv, HeadInv, Affected, Request, Goto, SetState, stwVars, lockVars, local, StartScan
<1>11. ASSUME NEW t \in Threads, ScanEnd(t) PROVE TodoInv'
  BY <1>11, StopTheWorldAssumption DEF Inv, TypeOK, TodoInv, NextInv, StateInv, HeadInv, Affected, ScanEnd, Goto, SetState, stwVars, lockVars, local, WorldStopped
<1>12. ASSUME NEW t \in Threads, EventSet(t) PROVE TodoInv'
  BY <1>12, StopTheWorldAssumption DEF Inv, TypeOK, TodoInv, NextInv, StateInv, HeadInv, Affected, EventSet, Goto, SetState, stwVars, lockVars, local, WorldStopped
<1>13. ASSUME NEW t \in Threads, TimedOut(t) PROVE TodoInv'
  BY <1>13, StopTheWorldAssumption DEF Inv, TypeOK, TodoInv, NextInv, StateInv, HeadInv, Affected, TimedOut, Goto, SetState, stwVars, lockVars, local
<1>14. ASSUME NEW t \in Threads, ScanAgain(t) PROVE TodoInv'
  BY <1>14, StopTheWorldAssumption DEF Inv, TypeOK, TodoInv, NextInv, StateInv, HeadInv, Affected, ScanAgain, Goto, SetState, stwVars, lockVars, local, StartScan
<1>15. ASSUME NEW t \in Threads, Start(t) PROVE TodoInv'
  <2>1. /\ headLock = NULL /\ linked' = linked /\ stw' = stw /\ state' = state
        /\ todo' = [todo EXCEPT ![t] = Affected(stw[t]) \ {t}] /\ pc' = [pc EXCEPT ![t] = "start"]
        /\ pc[t] \in {"stopped", "removed"}
    BY <1>15 DEF Start, Goto
  <2>2. stw[t] \in Stops
    BY <2>1, StopTheWorldAssumption DEF Inv, NextInv, HasRW, HasMutex, Stopping, Stops
  <2>3. requester[stw[t]] = t /\ stopped[stw[t]]
    BY <2>1, <2>2, StopTheWorldAssumption DEF Inv, RequestInv, Stopping
  <2>4. \A u \in Affected(stw[t]) \ {t} : state[u] = "suspended"
    BY <2>2, <2>3, StoppedFacts DEF Affected, Concerns
  <2>5. \A s : Affected(s)' = Affected(s)
    BY <2>1 DEF Affected
  <2>6. \A v \in Threads \ {t} : todo'[v] = todo[v] /\ pc'[v] = pc[v]
    BY <2>1 DEF Inv, TypeOK
  <2>7. todo'[t] = Affected(stw[t]) \ {t}
    BY <2>1 DEF Inv, TypeOK
  <2> QED
    BY <2>1, <2>4, <2>5, <2>6, <2>7 DEF Inv, TodoInv
<1>16. ASSUME NEW t \in Threads, StartEnd(t) PROVE TodoInv'
  BY <1>16, StopTheWorldAssumption DEF Inv, TypeOK, TodoInv, NextInv, StateInv, HeadInv, Affected, StartEnd, Goto, SetState, stwVars, lockVars, local
<1>17. ASSUME NEW t \in Threads, UnlockMutex(t) PROVE TodoInv'
  BY <1>17, StopTheWorldAssumption DEF Inv, TypeOK, TodoInv, NextInv, StateInv, HeadInv, Affected, UnlockMutex, Goto, SetState, stwVars, lockVars, local
<1>18. ASSUME NEW t \in Threads, UnlockRW(t) PROVE TodoInv'
  BY <1>18, StopTheWorldAssumption DEF Inv, TypeOK, TodoInv, NextInv, StateInv, HeadInv, Affected, UnlockRW, Goto, SetState, stwVars, lockVars, local
<1>19. ASSUME NEW t \in Threads, NEW u \in Threads, Scan(t, u) PROVE TodoInv'
  BY <1>19, StopTheWorldAssumption DEF Inv, TypeOK, TodoInv, NextInv, StateInv, HeadInv, Affected, Scan, Goto, SetState, stwVars, lockVars, local
<1>20. ASSUME NEW t \in Threads, NEW u \in Threads, SetShuttingDown(t, u) PROVE TodoInv'
  <2>1. /\ state' = [state EXCEPT ![u] = "shutting_down"] /\ todo' = [todo EXCEPT ![t] = @ \ {u}]
        /\ pc' = IF pc[u] = "asleep" THEN [pc EXCEPT ![u] = "attach"] ELSE pc
        /\ linked' = linked /\ next' = next /\ stw' = stw
    BY <1>20 DEF SetShuttingDown, SetState, UnparkAll
  <2>2. pc[t] = "removed" /\ u \in todo[t]
    BY <1>20 DEF SetShuttingDown
  <2>3. /\ u # t /\ u \notin linked
        /\ \A r \in Threads : pc[r] = "removed" => r = t
    BY <2>2, RemovedFacts
  <2>4. \A s : Affected(s)' = Affected(s)
    BY <2>1 DEF Affected
  <2>5. /\ \A v \in Threads \ {u} : state'[v] = state[v]
        /\ \A v \in Threads : pc'[v] \in {"scan", "start", "removed"} => pc'[v] = pc[v]
    BY <2>1 DEF Inv, TypeOK
  <2>6. /\ todo'[t] = todo[t] \ {u} /\ \A v \in Threads \ {t} : todo'[v] = todo[v]
        /\ \A v \in Threads : todo'[v] \subseteq Threads
    BY <2>1 DEF Inv, TypeOK
  <2>7. \A v \in Threads : pc[v] = "start" => u \notin todo[v]
    BY <2>3 DEF Inv, TodoInv, Affected
  <2>8. \A v \in Threads : pc[v] \in {"start", "removed"} => u \notin todo'[v]
    BY <2>3, <2>6, <2>7
  <2>9. \A v \in Threads : todo'[v] \subseteq todo[v]
    BY <2>6
  <2> QED
    BY <2>1, <2>4, <2>5, <2>6, <2>8, <2>9 DEF Inv, TodoInv
<1>21. ASSUME NEW t \in Threads, NEW u \in Threads, Wake(t, u) PROVE TodoInv'
  BY <1>21, StopTheWorldAssumption DEF Inv, TypeOK, TodoInv, NextInv, StateInv, HeadInv, Affected, Wake, Goto, SetState, stwVars, lockVars, local, UnparkAll
<1>22. ASSUME NEW t \in Threads, HandlePending(t) PROVE TodoInv'
  BY <1>22, StopTheWorldAssumption DEF Inv, TypeOK, TodoInv, NextInv, StateInv, HeadInv, Affected, HandlePending, Goto, SetState, stwVars, lockVars, local
<1>23. ASSUME NEW t \in Threads, New(t) PROVE TodoInv'
  BY <1>23, StopTheWorldAssumption DEF Inv, TypeOK, TodoInv, NextInv, StateInv, HeadInv, Affected, New, Goto, SetState, stwVars, lockVars, local
<1>24. ASSUME NEW t \in Threads, Return(t) PROVE TodoInv'
  BY <1>24, StopTheWorldAssumption DEF Inv, TypeOK, TodoInv, NextInv, StateInv, HeadInv, Affected, Return, Goto, SetState, stwVars, lockVars, local
<1>25. ASSUME NEW t \in Threads, Detach(t) PROVE TodoInv'
  <2>1. state[t] = "attached" /\ linked' = linked /\ stw' = stw /\ todo' = todo
    BY <1>25 DEF Detach, WaitAt, local, lockVars, Inv, StateInv, Inside, Places
  <2>2. \A v \in Threads \ {t} : state'[v] = state[v] /\ pc'[v] = pc[v]
    BY <1>25 DEF Detach, WaitAt, Goto, SetState, Inv, TypeOK
  <2>3. pc'[t] \notin {"scan", "start", "removed"}
    BY <1>25 DEF Detach, WaitAt, Goto, Inv, TypeOK
  <2>4. \A v \in Threads : pc[v] \in {"start", "removed"} => t \notin todo[v]
    BY <2>1 DEF Inv, TodoInv
  <2>5. \A s : Affected(s)' = Affected(s)
    BY <2>1 DEF Affected
  <2>6. \A v \in Threads : todo[v] \subseteq Threads
    BY DEF Inv, TypeOK
  <2> QED
    BY <2>1, <2>2, <2>3, <2>4, <2>5, <2>6 DEF Inv, TodoInv
<1>26. ASSUME NEW t \in Threads, Exit(t) PROVE TodoInv'
  <2>1. /\ headLock = NULL /\ todo' = todo /\ state' = [state EXCEPT ![t] = "detached"]
        /\ pc' = [pc EXCEPT ![t] = "none"] /\ pc[t] \in {"run", "out"} /\ t \in linked
    BY <1>26, DeleteFacts DEF Delete, Goto, SetState, local
  <2>2. \A v \in Threads \ {t} : state'[v] = state[v] /\ pc'[v] = pc[v]
    BY <2>1 DEF Inv, TypeOK
  <2>3. pc'[t] = "none"
    BY <2>1 DEF Inv, TypeOK
  <2>4. \A v \in Threads : pc[v] \notin {"scan", "start"}
    BY <2>1, StopTheWorldAssumption DEF Inv, HeadInv
  <2>5. \A v \in Threads : pc[v] = "removed" => t \notin todo[v]
    BY <2>1 DEF Inv, StateInv
  <2>6. \A v \in Threads : todo[v] \subseteq Threads
    BY DEF Inv, TypeOK
  <2> QED
    BY <2>1, <2>2, <2>3, <2>4, <2>5, <2>6 DEF Inv, TodoInv
<1>27. ASSUME NEW t \in Threads, RemoveExcept(t) PROVE TodoInv'
  <2>1. /\ headLock = NULL /\ state' = state /\ pc' = [pc EXCEPT ![t] = "removed"]
        /\ pc[t] = "stopped" /\ stw[t] = GLOBAL
        /\ todo' = [todo EXCEPT ![t] = {v \in linked \ {t} : Interp[v] = Interp[t]}]
    BY <1>27 DEF RemoveExcept, Goto
  <2>2. \A v \in Threads : pc[v] \notin {"scan", "start"}
    BY <2>1, StopTheWorldAssumption DEF Inv, HeadInv
  <2>3. GLOBAL \in Stops /\ requester[GLOBAL] = t /\ stopped[GLOBAL]
    BY <2>1, StopTheWorldAssumption DEF Inv, RequestInv, Stopping, Stops
  <2>4. \A v \in linked \ {t} : state[v] = "suspended"
    BY <2>3, StoppedFacts DEF Concerns
  <2>5. \A v \in Threads \ {t} : todo'[v] = todo[v] /\ pc'[v] = pc[v]
    BY <2>1 DEF Inv, TypeOK
  <2>6. todo'[t] \subseteq linked \ {t} /\ pc'[t] = "removed"
    BY <2>1 DEF Inv, TypeOK
  <2> QED
    BY <2>1, <2>2, <2>4, <2>5, <2>6 DEF Inv, TodoInv
<1>28. ASSUME NEW t \in Threads, NEW s \in Stops, Stop(t, s) PROVE TodoInv'
  BY <1>28, StopTheWorldAssumption DEF Inv, TypeOK, TodoInv, NextInv, StateInv, HeadInv, Affected, Stop, Goto, SetState, stwVars, lockVars, local
<1>29. ASSUME NEW t \in Threads, NEW u \in Threads, Drop(t, u) PROVE TodoInv'
  <2>1. /\ headLock = NULL /\ todo' = todo /\ state' = [state EXCEPT ![u] = "detached"]
        /\ pc' = [pc EXCEPT ![u] = "none"] /\ pc[u] \in {"run", "out"} /\ u \in linked
    BY <1>29, DeleteFacts DEF Delete, Goto, SetState, local
  <2>2. \A v \in Threads \ {u} : state'[v] = state[v] /\ pc'[v] = pc[v]
    BY <2>1 DEF Inv, TypeOK
  <2>3. pc'[u] = "none"
    BY <2>1 DEF Inv, TypeOK
  <2>4. \A v \in Threads : pc[v] \notin {"scan", "start"}
    BY <2>1, StopTheWorldAssumption DEF Inv, HeadInv
  <2>5. \A v \in Threads : pc[v] = "removed" => u \notin todo[v]
    BY <2>1 DEF Inv, StateInv
  <2>6. \A v \in Threads : todo[v] \subseteq Threads
    BY DEF Inv, TypeOK
  <2> QED
    BY <2>1, <2>2, <2>3, <2>4, <2>5, <2>6 DEF Inv, TodoInv
<1> QED
  BY <1>1, <1>2, <1>3, <1>4, <1>5, <1>6, <1>7, <1>8, <1>9, <1>10, <1>11, <1>12, <1>13, <1>14, <1>15, <1>16, <1>17, <1>18, <1>19, <1>20, <1>21, <1>22, <1>23, <1>24, <1>25, <1>26, <1>27, <1>28, <1>29 DEF Next, Step

(* The request that a thread stops for goes on.                            *)
LEMMA LateStep ==
  ASSUME Inv, [Next]_vars
  PROVE  LateInv'
<1>1. CASE UNCHANGED vars
  BY <1>1 DEF Inv, TypeOK, LateInv, NextInv, RequestInv, vars, stwVars, lockVars, local
<1>2. ASSUME NEW t \in Threads, Attach(t) PROVE LateInv'
  BY <1>2, StopTheWorldAssumption, SMTT(30) DEF Inv, TypeOK, LateInv, NextInv, RequestInv, Attach, Goto, SetState, stwVars, lockVars, local
<1>3. ASSUME NEW t \in Threads, Suspend(t) PROVE LateInv'
  <2>1. /\ requested' = requested /\ pc' = [pc EXCEPT ![t] = "detach"]
        /\ \E s : stw' = [stw EXCEPT ![t] = s] /\ (s = NULL \/ requested[s])
    BY <1>3, StopTheWorldAssumption DEF Suspend, Goto, stwVars, Requests
  <2>2. \A v \in Threads \ {t} : pc'[v] = pc[v] /\ stw'[v] = stw[v]
    BY <2>1 DEF Inv, TypeOK
  <2>3. stw'[t] = NULL \/ requested[stw'[t]]
    BY <2>1 DEF Inv, TypeOK
  <2> QED
    BY <2>1, <2>2, <2>3 DEF Inv, LateInv
<1>4. ASSUME NEW t \in Threads, DetachSuspended(t) PROVE LateInv'
  BY <1>4, StopTheWorldAssumption DEF Inv, TypeOK, LateInv, NextInv, RequestInv, DetachSuspended, Goto, SetState, stwVars, lockVars, local
<1>5. ASSUME NEW t \in Threads, Count(t) PROVE LateInv'
  BY <1>5, StopTheWorldAssumption DEF Inv, TypeOK, LateInv, NextInv, RequestInv, Count, Goto, SetState, stwVars, lockVars, local, CountDown
<1>6. ASSUME NEW t \in Threads, LockRW(t) PROVE LateInv'
  BY <1>6, StopTheWorldAssumption DEF Inv, TypeOK, LateInv, NextInv, RequestInv, LockRW, Goto, SetState, stwVars, lockVars, local, WaitAt, RWFree
<1>7. ASSUME NEW t \in Threads, RetryRW(t) PROVE LateInv'
  BY <1>7, StopTheWorldAssumption DEF Inv, TypeOK, LateInv, NextInv, RequestInv, RetryRW, Goto, SetState, stwVars, lockVars, local, AttachTo, RWFree
<1>8. ASSUME NEW t \in Threads, LockMutex(t) PROVE LateInv'
  BY <1>8, StopTheWorldAssumption DEF Inv, TypeOK, LateInv, NextInv, RequestInv, LockMutex, Goto, SetState, stwVars, lockVars, local, WaitAt
<1>9. ASSUME NEW t \in Threads, RetryMutex(t) PROVE LateInv'
  BY <1>9, StopTheWorldAssumption DEF Inv, TypeOK, LateInv, NextInv, RequestInv, RetryMutex, Goto, SetState, stwVars, lockVars, local, AttachTo
<1>10. ASSUME NEW t \in Threads, Request(t) PROVE LateInv'
  BY <1>10, StopTheWorldAssumption DEF Inv, TypeOK, LateInv, NextInv, RequestInv, Request, Goto, SetState, stwVars, lockVars, local, StartScan
<1>11. ASSUME NEW t \in Threads, ScanEnd(t) PROVE LateInv'
  BY <1>11, StopTheWorldAssumption DEF Inv, TypeOK, LateInv, NextInv, RequestInv, ScanEnd, Goto, SetState, stwVars, lockVars, local, WorldStopped
<1>12. ASSUME NEW t \in Threads, EventSet(t) PROVE LateInv'
  BY <1>12, StopTheWorldAssumption DEF Inv, TypeOK, LateInv, NextInv, RequestInv, EventSet, Goto, SetState, stwVars, lockVars, local, WorldStopped
<1>13. ASSUME NEW t \in Threads, TimedOut(t) PROVE LateInv'
  BY <1>13, StopTheWorldAssumption DEF Inv, TypeOK, LateInv, NextInv, RequestInv, TimedOut, Goto, SetState, stwVars, lockVars, local
<1>14. ASSUME NEW t \in Threads, ScanAgain(t) PROVE LateInv'
  BY <1>14, StopTheWorldAssumption DEF Inv, TypeOK, LateInv, NextInv, RequestInv, ScanAgain, Goto, SetState, stwVars, lockVars, local, StartScan
<1>15. ASSUME NEW t \in Threads, Start(t) PROVE LateInv'
  <2>1. /\ stw' = stw /\ requested' = [requested EXCEPT ![stw[t]] = FALSE]
        /\ pc' = [pc EXCEPT ![t] = "start"] /\ pc[t] \in {"stopped", "removed"}
    BY <1>15 DEF Start, Goto
  <2>2. \A v \in Threads \ {t} : pc'[v] = pc[v]
    BY <2>1 DEF Inv, TypeOK
  <2>3. pc'[t] = "start"
    BY <2>1 DEF Inv, TypeOK
  <2>4. \A v \in Threads : pc[v] \in {"detach", "count"} /\ stw[v] # NULL => stw[v] \in {Interp[v], GLOBAL} /\ stw[v] \in Stops
    BY StopTheWorldAssumption DEF Inv, NextInv, Stops
  <2>5. \A v \in Threads \ {t} : pc[v] \in {"detach", "count"} /\ stw[v] # NULL => stw[v] # stw[t]
    BY <2>1, <2>4, NotLate DEF Concerns
  <2> QED
    BY <2>1, <2>2, <2>3, <2>4, <2>5 DEF Inv, LateInv, TypeOK
<1>16. ASSUME NEW t \in Threads, StartEnd(t) PROVE LateInv'
  BY <1>16, StopTheWorldAssumption DEF Inv, TypeOK, LateInv, NextInv, RequestInv, StartEnd, Goto, SetState, stwVars, lockVars, local
<1>17. ASSUME NEW t \in Threads, UnlockMutex(t) PROVE LateInv'
  BY <1>17, StopTheWorldAssumption DEF Inv, TypeOK, LateInv, NextInv, RequestInv, UnlockMutex, Goto, SetState, stwVars, lockVars, local
<1>18. ASSUME NEW t \in Threads, UnlockRW(t) PROVE LateInv'
  BY <1>18, StopTheWorldAssumption DEF Inv, TypeOK, LateInv, NextInv, RequestInv, UnlockRW, Goto, SetState, stwVars, lockVars, local
<1>19. ASSUME NEW t \in Threads, NEW u \in Threads, Scan(t, u) PROVE LateInv'
  BY <1>19, StopTheWorldAssumption DEF Inv, TypeOK, LateInv, NextInv, RequestInv, Scan, Goto, SetState, stwVars, lockVars, local
<1>20. ASSUME NEW t \in Threads, NEW u \in Threads, SetShuttingDown(t, u) PROVE LateInv'
  BY <1>20, StopTheWorldAssumption DEF Inv, TypeOK, LateInv, NextInv, RequestInv, SetShuttingDown, Goto, SetState, stwVars, lockVars, local, UnparkAll
<1>21. ASSUME NEW t \in Threads, NEW u \in Threads, Wake(t, u) PROVE LateInv'
  BY <1>21, StopTheWorldAssumption DEF Inv, TypeOK, LateInv, NextInv, RequestInv, Wake, Goto, SetState, stwVars, lockVars, local, UnparkAll
<1>22. ASSUME NEW t \in Threads, HandlePending(t) PROVE LateInv'
  BY <1>22, StopTheWorldAssumption DEF Inv, TypeOK, LateInv, NextInv, RequestInv, HandlePending, Goto, SetState, stwVars, lockVars, local
<1>23. ASSUME NEW t \in Threads, New(t) PROVE LateInv'
  BY <1>23, StopTheWorldAssumption DEF Inv, TypeOK, LateInv, NextInv, RequestInv, New, Goto, SetState, stwVars, lockVars, local
<1>24. ASSUME NEW t \in Threads, Return(t) PROVE LateInv'
  BY <1>24, StopTheWorldAssumption DEF Inv, TypeOK, LateInv, NextInv, RequestInv, Return, Goto, SetState, stwVars, lockVars, local
<1>25. ASSUME NEW t \in Threads, Detach(t) PROVE LateInv'
  BY <1>25, StopTheWorldAssumption DEF Inv, TypeOK, LateInv, NextInv, RequestInv, Detach, Goto, SetState, stwVars, lockVars, local
<1>26. ASSUME NEW t \in Threads, Exit(t) PROVE LateInv'
  BY <1>26, StopTheWorldAssumption DEF Inv, TypeOK, LateInv, NextInv, RequestInv, Exit, Goto, SetState, stwVars, lockVars, local, Delete, CountDown
<1>27. ASSUME NEW t \in Threads, RemoveExcept(t) PROVE LateInv'
  BY <1>27, StopTheWorldAssumption DEF Inv, TypeOK, LateInv, NextInv, RequestInv, RemoveExcept, Goto, SetState, stwVars, lockVars, local
<1>28. ASSUME NEW t \in Threads, NEW s \in Stops, Stop(t, s) PROVE LateInv'
  BY <1>28, StopTheWorldAssumption DEF Inv, TypeOK, LateInv, NextInv, RequestInv, Stop, Goto, SetState, stwVars, lockVars, local
<1>29. ASSUME NEW t \in Threads, NEW u \in Threads, Drop(t, u) PROVE LateInv'
  BY <1>29, StopTheWorldAssumption DEF Inv, TypeOK, LateInv, NextInv, RequestInv, Drop, Goto, SetState, stwVars, lockVars, local, Delete, CountDown
<1> QED
  BY <1>1, <1>2, <1>3, <1>4, <1>5, <1>6, <1>7, <1>8, <1>9, <1>10, <1>11, <1>12, <1>13, <1>14, <1>15, <1>16, <1>17, <1>18, <1>19, <1>20, <1>21, <1>22, <1>23, <1>24, <1>25, <1>26, <1>27, <1>28, <1>29 DEF Next, Step

(* The event says that the countdown is over.                              *)
LEMMA EventStep ==
  ASSUME Inv, [Next]_vars
  PROVE  EventInv'
<1>1. CASE UNCHANGED vars
  BY <1>1 DEF Inv, TypeOK, EventInv, RequestInv, vars, stwVars, lockVars, local
<1>2. ASSUME NEW t \in Threads, Attach(t) PROVE EventInv'
  BY <1>2, StopTheWorldAssumption DEF Inv, TypeOK, EventInv, RequestInv, Attach, Goto, SetState, stwVars, lockVars, local
<1>3. ASSUME NEW t \in Threads, Suspend(t) PROVE EventInv'
  BY <1>3, StopTheWorldAssumption DEF Inv, TypeOK, EventInv, RequestInv, Suspend, Goto, SetState, stwVars, lockVars, local
<1>4. ASSUME NEW t \in Threads, DetachSuspended(t) PROVE EventInv'
  BY <1>4, StopTheWorldAssumption DEF Inv, TypeOK, EventInv, RequestInv, DetachSuspended, Goto, SetState, stwVars, lockVars, local
<1>5. ASSUME NEW t \in Threads, Count(t) PROVE EventInv'
  <2>1. requested[stw[t]] => countdown[stw[t]] # 0
    BY <1>5, CountCounts, CountFacts
  <2> QED
    BY <1>5, <2>1, CountCounts DEF Inv, EventInv, TypeOK
<1>6. ASSUME NEW t \in Threads, LockRW(t) PROVE EventInv'
  BY <1>6, StopTheWorldAssumption DEF Inv, TypeOK, EventInv, RequestInv, LockRW, Goto, SetState, stwVars, lockVars, local, WaitAt, RWFree
<1>7. ASSUME NEW t \in Threads, RetryRW(t) PROVE EventInv'
  BY <1>7, StopTheWorldAssumption DEF Inv, TypeOK, EventInv, RequestInv, RetryRW, Goto, SetState, stwVars, lockVars, local, AttachTo, RWFree
<1>8. ASSUME NEW t \in Threads, LockMutex(t) PROVE EventInv'
  BY <1>8, StopTheWorldAssumption DEF Inv, TypeOK, EventInv, RequestInv, LockMutex, Goto, SetState, stwVars, lockVars, local, WaitAt
<1>9. ASSUME NEW t \in Threads, RetryMutex(t) PROVE EventInv'
  BY <1>9, StopTheWorldAssumption DEF Inv, TypeOK, EventInv, RequestInv, RetryMutex, Goto, SetState, stwVars, lockVars, local, AttachTo
<1>10. ASSUME NEW t \in Threads, Request(t) PROVE EventInv'
  <2>1. /\ event' = [event EXCEPT ![stw[t]] = FALSE]
        /\ requested' = [requested EXCEPT ![stw[t]] = TRUE]
        /\ countdown' = [countdown EXCEPT ![stw[t]] = Cardinality(Affected(stw[t]) \ {t})]
        /\ \/ stopped' = stopped
           \/ stopped' = [stopped EXCEPT ![stw[t]] = TRUE] /\ Affected(stw[t]) \ {t} = {}
        /\ pc[t] = "request"
    BY <1>10 DEF Request, StartScan
  <2>2. stw[t] \in Stops
    BY <2>1, StopTheWorldAssumption DEF Inv, NextInv, HasRW, HasMutex, Stops
  <2>3. Cardinality({}) = 0
    BY FS_EmptySet
  <2>4. ~ stopped[stw[t]]
    <3>1. requester[stw[t]] # NULL => HasMutex(requester[stw[t]]) /\ requester[stw[t]] \in Threads
      BY <2>2 DEF Inv, RequestInv, HasMutex, TypeOK
    <3>2. HasMutex(t)
      BY <2>1 DEF HasMutex
    <3> QED
      BY <2>1, <2>2, <3>1, <3>2 DEF Inv, RequestInv, MutexInv, TypeOK, Stopping
  <2> QED
    BY <2>1, <2>2, <2>3, <2>4 DEF Inv, EventInv, TypeOK
<1>11. ASSUME NEW t \in Threads, ScanEnd(t) PROVE EventInv'
  <2>1. /\ event' = event /\ requested' = requested /\ pc[t] = "scan"
        /\ countdown' = [countdown EXCEPT ![stw[t]] = @ - parked[t]]
        /\ \/ stopped' = stopped
           \/ stopped' = [stopped EXCEPT ![stw[t]] = TRUE] /\ countdown[stw[t]] = parked[t]
    BY <1>11 DEF ScanEnd, WorldStopped
  <2>2. stw[t] \in Stops
    BY <2>1, StopTheWorldAssumption DEF Inv, NextInv, HasRW, HasMutex, Stopping, Stops
  <2>3. requester[stw[t]] = t /\ requested[stw[t]] /\ ~ stopped[stw[t]]
    BY <2>1, <2>2, StopTheWorldAssumption DEF Inv, RequestInv, Stopping
  <2>4. Scanned(stw[t]) = parked[t]
    BY <2>1, <2>3 DEF Scanned
  <2>5. parked[t] <= countdown[stw[t]] /\ parked[t] \in Nat /\ countdown[stw[t]] \in Nat
    BY <2>2, <2>3, <2>4, CountFacts
  <2> QED
    BY <2>1, <2>2, <2>3, <2>5 DEF Inv, EventInv, TypeOK
<1>12. ASSUME NEW t \in Threads, EventSet(t) PROVE EventInv'
  BY <1>12, StopTheWorldAssumption DEF Inv, TypeOK, EventInv, RequestInv, EventSet, Goto, SetState, stwVars, lockVars, local, WorldStopped
<1>13. ASSUME NEW t \in Threads, TimedOut(t) PROVE EventInv'
  BY <1>13, StopTheWorldAssumption DEF Inv, TypeOK, EventInv, RequestInv, TimedOut, Goto, SetState, stwVars, lockVars, local
<1>14. ASSUME NEW t \in Threads, ScanAgain(t) PROVE EventInv'
  BY <1>14, StopTheWorldAssumption DEF Inv, TypeOK, EventInv, RequestInv, ScanAgain, Goto, SetState, stwVars, lockVars, local, StartScan
<1>15. ASSUME NEW t \in Threads, Start(t) PROVE EventInv'
  BY <1>15, StopTheWorldAssumption DEF Inv, TypeOK, EventInv, RequestInv, Start, Goto, SetState, stwVars, lockVars, local
<1>16. ASSUME NEW t \in Threads, StartEnd(t) PROVE EventInv'
  BY <1>16, StopTheWorldAssumption DEF Inv, TypeOK, EventInv, RequestInv, StartEnd, Goto, SetState, stwVars, lockVars, local
<1>17. ASSUME NEW t \in Threads, UnlockMutex(t) PROVE EventInv'
  BY <1>17, StopTheWorldAssumption DEF Inv, TypeOK, EventInv, RequestInv, UnlockMutex, Goto, SetState, stwVars, lockVars, local
<1>18. ASSUME NEW t \in Threads, UnlockRW(t) PROVE EventInv'
  BY <1>18, StopTheWorldAssumption DEF Inv, TypeOK, EventInv, RequestInv, UnlockRW, Goto, SetState, stwVars, lockVars, local
<1>19. ASSUME NEW t \in Threads, NEW u \in Threads, Scan(t, u) PROVE EventInv'
  BY <1>19, StopTheWorldAssumption DEF Inv, TypeOK, EventInv, RequestInv, Scan, Goto, SetState, stwVars, lockVars, local
<1>20. ASSUME NEW t \in Threads, NEW u \in Threads, SetShuttingDown(t, u) PROVE EventInv'
  BY <1>20, StopTheWorldAssumption DEF Inv, TypeOK, EventInv, RequestInv, SetShuttingDown, Goto, SetState, stwVars, lockVars, local, UnparkAll
<1>21. ASSUME NEW t \in Threads, NEW u \in Threads, Wake(t, u) PROVE EventInv'
  BY <1>21, StopTheWorldAssumption DEF Inv, TypeOK, EventInv, RequestInv, Wake, Goto, SetState, stwVars, lockVars, local, UnparkAll
<1>22. ASSUME NEW t \in Threads, HandlePending(t) PROVE EventInv'
  BY <1>22, StopTheWorldAssumption DEF Inv, TypeOK, EventInv, RequestInv, HandlePending, Goto, SetState, stwVars, lockVars, local
<1>23. ASSUME NEW t \in Threads, New(t) PROVE EventInv'
  BY <1>23, StopTheWorldAssumption DEF Inv, TypeOK, EventInv, RequestInv, New, Goto, SetState, stwVars, lockVars, local
<1>24. ASSUME NEW t \in Threads, Return(t) PROVE EventInv'
  BY <1>24, StopTheWorldAssumption DEF Inv, TypeOK, EventInv, RequestInv, Return, Goto, SetState, stwVars, lockVars, local
<1>25. ASSUME NEW t \in Threads, Detach(t) PROVE EventInv'
  BY <1>25, StopTheWorldAssumption DEF Inv, TypeOK, EventInv, RequestInv, Detach, Goto, SetState, stwVars, lockVars, local
<1>26. ASSUME NEW t \in Threads, Exit(t) PROVE EventInv'
  <2>1. \A s \in Stops : requested[s] /\ t \in Waited(s) => countdown[s] # 0 /\ countdown[s] \in Nat
    BY CountFacts
  <2> QED
    BY <1>26, <2>1, DeleteCounts DEF Inv, EventInv
<1>27. ASSUME NEW t \in Threads, RemoveExcept(t) PROVE EventInv'
  BY <1>27, StopTheWorldAssumption DEF Inv, TypeOK, EventInv, RequestInv, RemoveExcept, Goto, SetState, stwVars, lockVars, local
<1>28. ASSUME NEW t \in Threads, NEW s \in Stops, Stop(t, s) PROVE EventInv'
  BY <1>28, StopTheWorldAssumption DEF Inv, TypeOK, EventInv, RequestInv, Stop, Goto, SetState, stwVars, lockVars, local
<1>29. ASSUME NEW t \in Threads, NEW u \in Threads, Drop(t, u) PROVE EventInv'
  <2>1. \A s \in Stops : requested[s] /\ u \in Waited(s) => countdown[s] # 0 /\ countdown[s] \in Nat
    BY CountFacts
  <2> QED
    BY <1>29, <2>1, DeleteCounts DEF Inv, EventInv
<1> QED
  BY <1>1, <1>2, <1>3, <1>4, <1>5, <1>6, <1>7, <1>8, <1>9, <1>10, <1>11, <1>12, <1>13, <1>14, <1>15, <1>16, <1>17, <1>18, <1>19, <1>20, <1>21, <1>22, <1>23, <1>24, <1>25, <1>26, <1>27, <1>28, <1>29 DEF Next, Step

(* Type correctness.                                                       *)
LEMMA TypeStep ==
  ASSUME Inv, [Next]_vars
  PROVE  TypeOK'
<1>1. CASE UNCHANGED vars
  BY <1>1 DEF Inv, TypeOK, NextInv, Places, States, Affected, vars, stwVars, lockVars, local
<1>2. ASSUME NEW t \in Threads, Attach(t) PROVE TypeOK'
  BY <1>2, StopTheWorldAssumption, SMTT(30) DEF Inv, TypeOK, NextInv, Places, States, Affected, Attach, Goto, SetState, stwVars, lockVars, local
<1>3. ASSUME NEW t \in Threads, Suspend(t) PROVE TypeOK'
  <2>1. \E s \in Stops \union {NULL} : stw' = [stw EXCEPT ![t] = s]
    BY <1>3, StopTheWorldAssumption DEF Suspend, Stops
  <2>2. stw' \in [Threads -> Stops \union {NULL}]
    BY <2>1 DEF Inv, TypeOK
  <2> QED
    BY <1>3, <2>2 DEF Inv, TypeOK, Places, Suspend, Goto, stwVars, lockVars
<1>4. ASSUME NEW t \in Threads, DetachSuspended(t) PROVE TypeOK'
  BY <1>4, StopTheWorldAssumption DEF Inv, TypeOK, NextInv, Places, States, Affected, DetachSuspended, Goto, SetState, stwVars, lockVars, local
<1>5. ASSUME NEW t \in Threads, Count(t) PROVE TypeOK'
  <2>1. /\ countdown' \in [Stops -> Nat] /\ event' \in [Stops -> BOOLEAN]
        /\ requested' = requested /\ stopped' = stopped /\ requester' = requester
    BY <1>5, CountCounts
  <2> QED
    BY <1>5, <2>1 DEF Inv, TypeOK, Places, Count, Goto, lockVars
<1>6. ASSUME NEW t \in Threads, LockRW(t) PROVE TypeOK'
  BY <1>6, StopTheWorldAssumption DEF Inv, TypeOK, NextInv, Places, States, Affected, LockRW, Goto, SetState, stwVars, lockVars, local, WaitAt, RWFree
<1>7. ASSUME NEW t \in Threads, RetryRW(t) PROVE TypeOK'
  BY <1>7, StopTheWorldAssumption DEF Inv, TypeOK, NextInv, Places, States, Affected, RetryRW, Goto, SetState, stwVars, lockVars, local, AttachTo, RWFree
<1>8. ASSUME NEW t \in Threads, LockMutex(t) PROVE TypeOK'
  BY <1>8, StopTheWorldAssumption, SMTT(30) DEF Inv, TypeOK, NextInv, Places, States, Affected, LockMutex, Goto, SetState, stwVars, lockVars, local, WaitAt
<1>9. ASSUME NEW t \in Threads, RetryMutex(t) PROVE TypeOK'
  BY <1>9, StopTheWorldAssumption, SMTT(30) DEF Inv, TypeOK, NextInv, Places, States, Affected, RetryMutex, Goto, SetState, stwVars, lockVars, local, AttachTo
<1>10. ASSUME NEW t \in Threads, Request(t) PROVE TypeOK'
  <2>1. Cardinality(Affected(stw[t]) \ {t}) \in Nat
    BY FS_Subset, FS_CardinalityType, StopTheWorldAssumption DEF Affected, Inv, TypeOK
  <2>2. /\ countdown' \in [Stops -> Nat] /\ event' \in [Stops -> BOOLEAN]
        /\ requester' \in [Stops -> Threads \union {NULL}]
    BY <1>10, <2>1 DEF Request, Inv, TypeOK
  <2>3. requested' \in [Stops -> BOOLEAN]
    BY <1>10 DEF Request, Inv, TypeOK
  <2>4. /\ stopped' = stopped \/ stopped' = [stopped EXCEPT ![stw[t]] = TRUE]
        /\ headLock' = headLock \/ headLock' = t
        /\ todo' = todo \/ todo' = [todo EXCEPT ![t] = Affected(stw[t]) \ {t}]
        /\ parked' = parked \/ parked' = [parked EXCEPT ![t] = 0]
        /\ pc' = [pc EXCEPT ![t] = "stopped"] \/ pc' = [pc EXCEPT ![t] = "scan"]
    BY <1>10 DEF Request, StartScan, Goto
  <2>5. stopped' \in [Stops -> BOOLEAN]
    BY <2>4 DEF Inv, TypeOK
  <2>6. /\ headLock' \in Threads \union {NULL} /\ todo' \in [Threads -> SUBSET Threads]
        /\ parked' \in [Threads -> Nat] /\ pc' \in [Threads -> Places]
    BY <2>4 DEF Inv, TypeOK, Affected, Places
  <2> QED
    BY <1>10, <2>2, <2>3, <2>5, <2>6 DEF Inv, TypeOK, Request
<1>11. ASSUME NEW t \in Threads, ScanEnd(t) PROVE TypeOK'
  <2>1. pc[t] = "scan" /\ countdown' = [countdown EXCEPT ![stw[t]] = @ - parked[t]]
    BY <1>11 DEF ScanEnd
  <2>2. stw[t] \in Stops
    BY <2>1, StopTheWorldAssumption DEF Inv, NextInv, HasRW, HasMutex, Stopping, Stops
  <2>3. requester[stw[t]] = t /\ requested[stw[t]]
    BY <2>1, <2>2, StopTheWorldAssumption DEF Inv, RequestInv, Stopping
  <2>4. Scanned(stw[t]) = parked[t]
    BY <2>1, <2>3 DEF Scanned
  <2>5. countdown[stw[t]] - parked[t] \in Nat
    BY <2>2, <2>3, <2>4, CountFacts
  <2>6. countdown' \in [Stops -> Nat]
    BY <2>1, <2>5 DEF Inv, TypeOK
  <2>7. /\ stopped' = stopped \/ stopped' = [stopped EXCEPT ![stw[t]] = TRUE]
        /\ pc' = [pc EXCEPT ![t] = "stopped"] \/ pc' = [pc EXCEPT ![t] = "event"]
    BY <1>11 DEF ScanEnd, WorldStopped, Goto
  <2>8. stopped' \in [Stops -> BOOLEAN]
    BY <2>7 DEF Inv, TypeOK
  <2>9. pc' \in [Threads -> Places]
    BY <2>7 DEF Inv, TypeOK, Places
  <2> QED
    BY <1>11, <2>6, <2>8, <2>9 DEF Inv, TypeOK, ScanEnd
<1>12. ASSUME NEW t \in Threads, EventSet(t) PROVE TypeOK'
  BY <1>12, StopTheWorldAssumption DEF Inv, TypeOK, NextInv, Places, States, Affected, EventSet, Goto, SetState, stwVars, lockVars, local, WorldStopped
<1>13. ASSUME NEW t \in Threads, TimedOut(t) PROVE TypeOK'
  BY <1>13, StopTheWorldAssumption DEF Inv, TypeOK, NextInv, Places, States, Affected, TimedOut, Goto, SetState, stwVars, lockVars, local
<1>14. ASSUME NEW t \in Threads, ScanAgain(t) PROVE TypeOK'
  BY <1>14, StopTheWorldAssumption DEF Inv, TypeOK, NextInv, Places, States, Affected, ScanAgain, Goto, SetState, stwVars, lockVars, local, StartScan
<1>15. ASSUME NEW t \in Threads, Start(t) PROVE TypeOK'
  BY <1>15, StopTheWorldAssumption DEF Inv, TypeOK, NextInv, Places, States, Affected, Start, Goto, SetState, stwVars, lockVars, local
<1>16. ASSUME NEW t \in Threads, StartEnd(t) PROVE TypeOK'
  BY <1>16, StopTheWorldAssumption DEF Inv, TypeOK, NextInv, Places, States, Affected, StartEnd, Goto, SetState, stwVars, lockVars, local
<1>17. ASSUME NEW t \in Threads, UnlockMutex(t) PROVE TypeOK'
  BY <1>17, StopTheWorldAssumption DEF Inv, TypeOK, NextInv, Places, States, Affected, UnlockMutex, Goto, SetState, stwVars, lockVars, local
<1>18. ASSUME NEW t \in Threads, UnlockRW(t) PROVE TypeOK'
  BY <1>18, StopTheWorldAssumption DEF Inv, TypeOK, NextInv, Places, States, Affected, UnlockRW, Goto, SetState, stwVars, lockVars, local
<1>19. ASSUME NEW t \in Threads, NEW u \in Threads, Scan(t, u) PROVE TypeOK'
  BY <1>19, StopTheWorldAssumption DEF Inv, TypeOK, NextInv, Places, States, Affected, Scan, Goto, SetState, stwVars, lockVars, local
<1>20. ASSUME NEW t \in Threads, NEW u \in Threads, SetShuttingDown(t, u) PROVE TypeOK'
  BY <1>20, StopTheWorldAssumption DEF Inv, TypeOK, NextInv, Places, States, Affected, SetShuttingDown, Goto, SetState, stwVars, lockVars, local, UnparkAll
<1>21. ASSUME NEW t \in Threads, NEW u \in Threads, Wake(t, u) PROVE TypeOK'
  BY <1>21, StopTheWorldAssumption DEF Inv, TypeOK, NextInv, Places, States, Affected, Wake, Goto, SetState, stwVars, lockVars, local, UnparkAll
<1>22. ASSUME NEW t \in Threads, HandlePending(t) PROVE TypeOK'
  BY <1>22, StopTheWorldAssumption DEF Inv, TypeOK, NextInv, Places, States, Affected, HandlePending, Goto, SetState, stwVars, lockVars, local
<1>23. ASSUME NEW t \in Threads, New(t) PROVE TypeOK'
  BY <1>23, StopTheWorldAssumption DEF Inv, TypeOK, NextInv, Places, States, Affected, New, Goto, SetState, stwVars, lockVars, local
<1>24. ASSUME NEW t \in Threads, Return(t) PROVE TypeOK'
  BY <1>24, StopTheWorldAssumption DEF Inv, TypeOK, NextInv, Places, States, Affected, Return, Goto, SetState, stwVars, lockVars, local
<1>25. ASSUME NEW t \in Threads, Detach(t) PROVE TypeOK'
  BY <1>25, StopTheWorldAssumption DEF Inv, TypeOK, NextInv, Places, States, Affected, Detach, Goto, SetState, stwVars, lockVars, local
<1>26. ASSUME NEW t \in Threads, Exit(t) PROVE TypeOK'
  <2>1. countdown' \in [Stops -> Nat] /\ event' \in [Stops -> BOOLEAN]
    BY <1>26, DeleteCounts
  <2>2. /\ requested' = requested /\ stopped' = stopped /\ requester' = requester /\ Delete(t)
    BY <1>26, DeleteCounts, DeleteFacts
  <2>3. linked' \subseteq Threads /\ please' \subseteq Threads
    BY <2>2 DEF Delete, Inv, TypeOK
  <2>4. state' \in [Threads -> States] /\ pc' \in [Threads -> Places]
    BY <2>2 DEF Delete, Goto, SetState, Inv, TypeOK, States, Places
  <2> QED
    BY <2>1, <2>2, <2>3, <2>4 DEF Delete, lockVars, local, Inv, TypeOK
<1>27. ASSUME NEW t \in Threads, RemoveExcept(t) PROVE TypeOK'
  BY <1>27, StopTheWorldAssumption DEF Inv, TypeOK, NextInv, Places, States, Affected, RemoveExcept, Goto, SetState, stwVars, lockVars, local
<1>28. ASSUME NEW t \in Threads, NEW s \in Stops, Stop(t, s) PROVE TypeOK'
  BY <1>28, StopTheWorldAssumption DEF Inv, TypeOK, NextInv, Places, States, Affected, Stop, Goto, SetState, stwVars, lockVars, local
<1>29. ASSUME NEW t \in Threads, NEW u \in Threads, Drop(t, u) PROVE TypeOK'
  <2>1. countdown' \in [Stops -> Nat] /\ event' \in [Stops -> BOOLEAN]
    BY <1>29, DeleteCounts
  <2>2. /\ requested' = requested /\ stopped' = stopped /\ requester' = requester /\ Delete(u)
    BY <1>29, DeleteCounts, DeleteFacts
  <2>3. linked' \subseteq Threads /\ please' \subseteq Threads
    BY <2>2 DEF Delete, Inv, TypeOK
  <2>4. state' \in [Threads -> States] /\ pc' \in [Threads -> Places]
    BY <2>2 DEF Delete, Goto, SetState, Inv, TypeOK, States, Places
  <2> QED
    BY <2>1, <2>2, <2>3, <2>4 DEF Delete, lockVars, local, Inv, TypeOK
<1> QED
  BY <1>1, <1>2, <1>3, <1>4, <1>5, <1>6, <1>7, <1>8, <1>9, <1>10, <1>11, <1>12, <1>13, <1>14, <1>15, <1>16, <1>17, <1>18, <1>19, <1>20, <1>21, <1>22, <1>23, <1>24, <1>25, <1>26, <1>27, <1>28, <1>29 DEF Next, Step

-----------------------------------------------------------------------------
(* Who will let go a thread that is suspended.                             *)
Waker(u) ==
  \/ u \in linked /\ (requested[Interp[u]] \/ requested[GLOBAL])
  \/ \E t \in Threads : pc[t] \in {"start", "removed"} /\ u \in todo[t]

WakerInv == \A u \in Threads : state[u] = "suspended" => Waker(u)

LEMMA RequestsIff ==
  ASSUME Inv, NEW u \in Threads
  PROVE  Requests(Interp[u]) # {} <=> requested[Interp[u]] \/ requested[GLOBAL]
BY DEF Requests

LEMMA WakersAre == Inv => WakerInv
BY RequestsIff DEF Inv, SuspendedHasWaker, WakerInv, Waker

(* Whoever is suspended is let go.                                         *)
LEMMA WakerStep ==
  ASSUME Inv, [Next]_vars
  PROVE  WakerInv'
<1>1. CASE UNCHANGED vars
  <2>1. linked' = linked /\ requested' = requested /\ state' = state /\ pc' = pc /\ todo' = todo
    BY <1>1 DEF vars, stwVars, local
  <2> QED
    BY <2>1, WakersAre DEF WakerInv, Waker
<1>2. ASSUME NEW t \in Threads, Attach(t) PROVE WakerInv'
  BY <1>2, StopTheWorldAssumption, WakersAre DEF Inv, TypeOK, WakerInv, Waker, Attach, Goto, SetState, stwVars, lockVars, local
<1>3. ASSUME NEW t \in Threads, Suspend(t) PROVE WakerInv'
  BY <1>3, StopTheWorldAssumption, WakersAre DEF Inv, TypeOK, WakerInv, Waker, Suspend, Goto, SetState, stwVars, lockVars, local
<1>4. ASSUME NEW t \in Threads, DetachSuspended(t) PROVE WakerInv'
  <2>1. /\ linked' = linked /\ requested' = requested /\ todo' = todo
        /\ pc[t] = "detach" /\ (stw[t] = NULL => state' = [state EXCEPT ![t] = "detached"])
        /\ \A v \in Threads \ {t} : state'[v] = state[v] /\ pc'[v] = pc[v]
    BY <1>4 DEF DetachSuspended, SetState, Goto, stwVars, local, Inv, TypeOK
  <2>2. t \in linked
    BY <2>1 DEF Inv, StateInv, TodoInv, Inside, Places
  <2>3. stw[t] # NULL => requested[stw[t]] /\ stw[t] \in {Interp[t], GLOBAL}
    BY <2>1 DEF Inv, LateInv, NextInv
  <2>4. state'[t] = "suspended" => stw[t] # NULL
    BY <2>1 DEF Inv, TypeOK
  <2> QED
    BY <2>1, <2>2, <2>3, <2>4, WakersAre DEF WakerInv, Waker
<1>5. ASSUME NEW t \in Threads, Count(t) PROVE WakerInv'
  BY <1>5, StopTheWorldAssumption, WakersAre DEF Inv, TypeOK, WakerInv, Waker, Count, Goto, SetState, stwVars, lockVars, local, CountDown
<1>6. ASSUME NEW t \in Threads, LockRW(t) PROVE WakerInv'
  BY <1>6, StopTheWorldAssumption, WakersAre DEF Inv, TypeOK, WakerInv, Waker, LockRW, Goto, SetState, stwVars, lockVars, local, WaitAt, RWFree
<1>7. ASSUME NEW t \in Threads, RetryRW(t) PROVE WakerInv'
  BY <1>7, StopTheWorldAssumption, WakersAre DEF Inv, TypeOK, WakerInv, Waker, RetryRW, Goto, SetState, stwVars, lockVars, local, AttachTo, RWFree
<1>8. ASSUME NEW t \in Threads, LockMutex(t) PROVE WakerInv'
  BY <1>8, StopTheWorldAssumption, WakersAre DEF Inv, TypeOK, WakerInv, Waker, LockMutex, Goto, SetState, stwVars, lockVars, local, WaitAt
<1>9. ASSUME NEW t \in Threads, RetryMutex(t) PROVE WakerInv'
  BY <1>9, StopTheWorldAssumption, WakersAre DEF Inv, TypeOK, WakerInv, Waker, RetryMutex, Goto, SetState, stwVars, lockVars, local, AttachTo
<1>10. ASSUME NEW t \in Threads, Request(t) PROVE WakerInv'
  <2>1. /\ linked' = linked /\ state' = state /\ pc[t] = "request"
        /\ requested' = [requested EXCEPT ![stw[t]] = TRUE]
        /\ \A v \in Threads \ {t} : todo'[v] = todo[v] /\ pc'[v] = pc[v]
    BY <1>10 DEF Request, StartScan, Goto, Inv, TypeOK
  <2>2. \A s \in Stops : requested[s] => requested'[s]
    BY <2>1 DEF Inv, TypeOK
  <2>3. \A v \in Threads : Interp[v] \in Stops /\ GLOBAL \in Stops
    BY StopTheWorldAssumption DEF Stops
  <2> QED
    BY <2>1, <2>2, <2>3, WakersAre DEF WakerInv, Waker
<1>11. ASSUME NEW t \in Threads, ScanEnd(t) PROVE WakerInv'
  BY <1>11, StopTheWorldAssumption, WakersAre DEF Inv, TypeOK, WakerInv, Waker, ScanEnd, Goto, SetState, stwVars, lockVars, local, WorldStopped
<1>12. ASSUME NEW t \in Threads, EventSet(t) PROVE WakerInv'
  BY <1>12, StopTheWorldAssumption, WakersAre DEF Inv, TypeOK, WakerInv, Waker, EventSet, Goto, SetState, stwVars, lockVars, local, WorldStopped
<1>13. ASSUME NEW t \in Threads, TimedOut(t) PROVE WakerInv'
  BY <1>13, StopTheWorldAssumption, WakersAre DEF Inv, TypeOK, WakerInv, Waker, TimedOut, Goto, SetState, stwVars, lockVars, local
<1>14. ASSUME NEW t \in Threads, ScanAgain(t) PROVE WakerInv'
  BY <1>14, StopTheWorldAssumption, WakersAre DEF Inv, TypeOK, WakerInv, Waker, ScanAgain, Goto, SetState, stwVars, lockVars, local, StartScan
<1>15. ASSUME NEW t \in Threads, Start(t) PROVE WakerInv'
  <2>1. /\ linked' = linked /\ state' = state /\ headLock = NULL
        /\ todo' = [todo EXCEPT ![t] = Affected(stw[t]) \ {t}] /\ pc' = [pc EXCEPT ![t] = "start"]
        /\ requested' = [requested EXCEPT ![stw[t]] = FALSE] /\ pc[t] \in {"stopped", "removed"}
        /\ pc[t] = "removed" => todo[t] = {}
    BY <1>15 DEF Start, Goto
  <2>2. todo'[t] = Affected(stw[t]) \ {t} /\ pc'[t] = "start"
    BY <2>1 DEF Inv, TypeOK
  <2>3. \A v \in Threads \ {t} : todo'[v] = todo[v] /\ pc'[v] = pc[v]
    BY <2>1 DEF Inv, TypeOK
  <2>4. \A s \in Stops : s # stw[t] => requested'[s] = requested[s]
    BY <2>1 DEF Inv, TypeOK
  <2>5. state[t] = "attached"
    BY <2>1 DEF Inv, StateInv, Inside, Places
  <2>6. ASSUME NEW u \in Threads, state[u] = "suspended", u \in linked, NEW s \in {Interp[u], GLOBAL}, requested[s]
        PROVE  u \in todo'[t] \/ (requested'[s] /\ s \in Stops)
    <3>1. s \in Stops
      BY <2>6, StopTheWorldAssumption DEF Stops
    <3>2. CASE s = stw[t]
      BY <2>2, <2>5, <2>6, <3>2 DEF Affected
    <3> QED
      BY <2>4, <2>6, <3>1, <3>2
  <2> QED
    BY <2>1, <2>2, <2>3, <2>6, WakersAre DEF WakerInv, Waker
<1>16. ASSUME NEW t \in Threads, StartEnd(t) PROVE WakerInv'
  <2>1. /\ linked' = linked /\ requested' = requested /\ todo' = todo /\ state' = state
        /\ todo[t] = {} /\ \A v \in Threads \ {t} : pc'[v] = pc[v]
    BY <1>16 DEF StartEnd, Goto, local, Inv, TypeOK
  <2> QED
    BY <2>1, WakersAre DEF WakerInv, Waker
<1>17. ASSUME NEW t \in Threads, UnlockMutex(t) PROVE WakerInv'
  BY <1>17, StopTheWorldAssumption, WakersAre DEF Inv, TypeOK, WakerInv, Waker, UnlockMutex, Goto, SetState, stwVars, lockVars, local
<1>18. ASSUME NEW t \in Threads, UnlockRW(t) PROVE WakerInv'
  BY <1>18, StopTheWorldAssumption, WakersAre DEF Inv, TypeOK, WakerInv, Waker, UnlockRW, Goto, SetState, stwVars, lockVars, local
<1>19. ASSUME NEW t \in Threads, NEW u \in Threads, Scan(t, u) PROVE WakerInv'
  <2>1. /\ linked' = linked /\ requested' = requested /\ pc' = pc /\ pc[t] = "scan" /\ u \in todo[t]
        /\ \A v \in Threads \ {u} : state'[v] = state[v]
        /\ \A v \in Threads \ {t} : todo'[v] = todo[v]
    BY <1>19 DEF Scan, SetState, stwVars, Inv, TypeOK
  <2>2. u \in linked /\ Concerns(stw[t], u) /\ stw[t] \in {Interp[t], GLOBAL} /\ stw[t] \in Stops
    BY <2>1, StopTheWorldAssumption DEF Inv, TodoInv, Affected, NextInv, HasRW, HasMutex, Stopping, Concerns, Stops
  <2>3. requested[stw[t]]
    BY <2>1, <2>2, StopTheWorldAssumption DEF Inv, RequestInv, Stopping
  <2> QED
    BY <2>1, <2>2, <2>3, WakersAre DEF WakerInv, Waker, Concerns
<1>20. ASSUME NEW t \in Threads, NEW u \in Threads, SetShuttingDown(t, u) PROVE WakerInv'
  <2>1. /\ state' = [state EXCEPT ![u] = "shutting_down"] /\ todo' = [todo EXCEPT ![t] = @ \ {u}]
        /\ pc' = IF pc[u] = "asleep" THEN [pc EXCEPT ![u] = "attach"] ELSE pc
        /\ linked' = linked /\ requested' = requested
    BY <1>20 DEF SetShuttingDown, SetState, UnparkAll, stwVars
  <2>2. \A v \in Threads \ {u} : state'[v] = state[v] /\ \A r \in Threads : v \in todo'[r] <=> v \in todo[r]
    BY <2>1 DEF Inv, TypeOK
  <2>3. state'[u] # "suspended" /\ \A r \in Threads : pc[r] \in {"start", "removed"} => pc'[r] = pc[r]
    BY <2>1 DEF Inv, TypeOK
  <2> QED
    BY <2>1, <2>2, <2>3, WakersAre DEF WakerInv, Waker
<1>21. ASSUME NEW t \in Threads, NEW u \in Threads, Wake(t, u) PROVE WakerInv'
  <2>1. /\ state' = [state EXCEPT ![u] = "detached"] /\ todo' = [todo EXCEPT ![t] = @ \ {u}]
        /\ pc' = IF pc[u] = "asleep" THEN [pc EXCEPT ![u] = "attach"] ELSE pc
        /\ linked' = linked /\ requested' = requested
    BY <1>21 DEF Wake, SetState, UnparkAll, stwVars
  <2>2. \A v \in Threads \ {u} : state'[v] = state[v] /\ \A r \in Threads : v \in todo'[r] <=> v \in todo[r]
    BY <2>1 DEF Inv, TypeOK
  <2>3. state'[u] # "suspended" /\ \A r \in Threads : pc[r] \in {"start", "removed"} => pc'[r] = pc[r]
    BY <2>1 DEF Inv, TypeOK
  <2> QED
    BY <2>1, <2>2, <2>3, WakersAre DEF WakerInv, Waker
<1>22. ASSUME NEW t \in Threads, HandlePending(t) PROVE WakerInv'
  BY <1>22, StopTheWorldAssumption, WakersAre DEF Inv, TypeOK, WakerInv, Waker, HandlePending, Goto, SetState, stwVars, lockVars, local
<1>23. ASSUME NEW t \in Threads, New(t) PROVE WakerInv'
  <2>1. /\ linked' = linked \union {t} /\ requested' = requested /\ todo' = todo /\ pc[t] = "none"
        /\ \A v \in Threads \ {t} : state'[v] = state[v] /\ pc'[v] = pc[v]
    BY <1>23 DEF New, SetState, Goto, stwVars, local, Inv, TypeOK
  <2>2. state'[t] = "suspended" => Requests(Interp[t]) # {}
    BY <1>23 DEF New, SetState, Inv, TypeOK
  <2>3. state'[t] = "suspended" => requested[Interp[t]] \/ requested[GLOBAL]
    BY <2>2, RequestsIff
  <2> QED
    BY <2>1, <2>3, WakersAre DEF WakerInv, Waker
<1>24. ASSUME NEW t \in Threads, Return(t) PROVE WakerInv'
  BY <1>24, StopTheWorldAssumption, WakersAre DEF Inv, TypeOK, WakerInv, Waker, Return, Goto, SetState, stwVars, lockVars, local
<1>25. ASSUME NEW t \in Threads, Detach(t) PROVE WakerInv'
  BY <1>25, StopTheWorldAssumption, WakersAre DEF Inv, TypeOK, WakerInv, Waker, Detach, Goto, SetState, stwVars, lockVars, local
<1>26. ASSUME NEW t \in Threads, Exit(t) PROVE WakerInv'
  <2>1. /\ requested' = requested /\ todo' = todo /\ linked' = linked \ {t}
        /\ state' = [state EXCEPT ![t] = "detached"] /\ pc' = [pc EXCEPT ![t] = "none"]
        /\ pc[t] \in {"run", "out"}
    BY <1>26, DeleteFacts, DeleteCounts DEF Delete, Goto, SetState, local
  <2>2. \A v \in Threads \ {t} : state'[v] = state[v] /\ pc'[v] = pc[v]
    BY <2>1 DEF Inv, TypeOK
  <2>3. state'[t] = "detached"
    BY <2>1 DEF Inv, TypeOK
  <2> QED
    BY <2>1, <2>2, <2>3, WakersAre DEF WakerInv, Waker
<1>27. ASSUME NEW t \in Threads, RemoveExcept(t) PROVE WakerInv'
  <2>1. /\ requested' = requested /\ state' = state /\ pc' = [pc EXCEPT ![t] = "removed"]
        /\ linked' = linked \ {v \in linked \ {t} : Interp[v] = Interp[t]} /\ pc[t] = "stopped"
        /\ todo' = [todo EXCEPT ![t] = {v \in linked \ {t} : Interp[v] = Interp[t]}]
    BY <1>27 DEF RemoveExcept, Goto, stwVars
  <2>2. todo'[t] = {v \in linked \ {t} : Interp[v] = Interp[t]} /\ pc'[t] = "removed"
    BY <2>1 DEF Inv, TypeOK
  <2>3. \A v \in Threads \ {t} : todo'[v] = todo[v] /\ pc'[v] = pc[v]
    BY <2>1 DEF Inv, TypeOK
  <2>4. \A v \in linked : v \in linked' \/ v \in todo'[t]
    BY <2>1, <2>2
  <2> QED
    BY <2>1, <2>2, <2>3, <2>4, WakersAre DEF WakerInv, Waker
<1>28. ASSUME NEW t \in Threads, NEW s \in Stops, Stop(t, s) PROVE WakerInv'
  BY <1>28, StopTheWorldAssumption, WakersAre DEF Inv, TypeOK, WakerInv, Waker, Stop, Goto, SetState, stwVars, lockVars, local
<1>29. ASSUME NEW t \in Threads, NEW u \in Threads, Drop(t, u) PROVE WakerInv'
  <2>1. /\ requested' = requested /\ todo' = todo /\ linked' = linked \ {u}
        /\ state' = [state EXCEPT ![u] = "detached"] /\ pc' = [pc EXCEPT ![u] = "none"]
        /\ pc[u] \in {"run", "out"}
    BY <1>29, DeleteFacts, DeleteCounts DEF Delete, Goto, SetState, local
  <2>2. \A v \in Threads \ {u} : state'[v] = state[v] /\ pc'[v] = pc[v]
    BY <2>1 DEF Inv, TypeOK
  <2>3. state'[u] = "detached"
    BY <2>1 DEF Inv, TypeOK
  <2> QED
    BY <2>1, <2>2, <2>3, WakersAre DEF WakerInv, Waker
<1> QED
  BY <1>1, <1>2, <1>3, <1>4, <1>5, <1>6, <1>7, <1>8, <1>9, <1>10, <1>11, <1>12, <1>13, <1>14, <1>15, <1>16, <1>17, <1>18, <1>19, <1>20, <1>21, <1>22, <1>23, <1>24, <1>25, <1>26, <1>27, <1>28, <1>29 DEF Next, Step

LEMMA SuspendStep ==
  ASSUME Inv, [Next]_vars, StateInv', TodoInv'
  PROVE  SuspendedHasWaker'
<1>1. WakerInv'
  BY WakerStep
<1>2. \A u \in Threads : (Requests(Interp[u]) # {} <=> requested[Interp[u]] \/ requested[GLOBAL])'
  BY DEF Requests
<1> QED
  BY <1>1, <1>2 DEF WakerInv, Waker, SuspendedHasWaker, StateInv, TodoInv

-----------------------------------------------------------------------------
(* The countdown of a stop stays exact if nobody concerned becomes         *)
(* suspended or ceases to be.                                              *)
LEMMA CountKept ==
  ASSUME Inv, NEW s \in Stops, requested[s], requester'[s] = requester[s],
         countdown'[s] = countdown[s], Scanned(s)' = Scanned(s),
         \A u \in Threads : u \in Waited(s)' <=> u \in Waited(s),
         \A u \in Threads : u \in Late(s)' <=> u \in Late(s), linked' \subseteq Threads
  PROVE  countdown'[s] = Scanned(s)' + Cardinality(Waited(s)') + Cardinality(Late(s)')
<1>1. Waited(s) \subseteq Threads /\ Waited(s)' \subseteq Threads
  BY DEF Waited, Affected, Inv, TypeOK
<1>2. Waited(s)' = Waited(s)
  BY <1>1
<1>3. Late(s)' = Late(s)
  BY DEF Late
<1> QED
  BY <1>2, <1>3 DEF Inv, CountdownExact

(* At most one stop at a time waits for a thread.                          *)
LEMMA OneStop ==
  ASSUME Inv, NEW u \in Threads, NEW s \in Stops, NEW z \in Stops, requested[s], requested[z],
         Concerns(s, u), Concerns(z, u)
  PROVE  s = z
<1>1. requester[s] \in Threads /\ stw[requester[s]] = s /\ HasRW(requester[s])
  BY Requester
<1> QED
  BY <1>1, Alone

LEMMA CountQuiet ==
  ASSUME Inv, linked' = linked, requested' = requested, requester' = requester,
         countdown' = countdown, parked' = parked,
         \A v \in Threads : state'[v] = "suspended" <=> state[v] = "suspended",
         \A v \in Threads : pc'[v] = "count" <=> pc[v] = "count",
         \A v \in Threads : pc[v] = "count" => stw'[v] = stw[v],
         \A v \in Threads : pc'[v] = "scan" <=> pc[v] = "scan"
  PROVE  CountdownExact'
<1> SUFFICES ASSUME NEW s \in Stops, requested'[s]
             PROVE  countdown'[s] = Scanned(s)' + Cardinality(Waited(s)') + Cardinality(Late(s)')
  BY DEF CountdownExact
<1>1. requester[s] \in Threads
  BY Requester
<1>2. Scanned(s)' = Scanned(s)
  BY <1>1 DEF Scanned
<1>3. \A u \in Threads : u \in Waited(s)' <=> u \in Waited(s)
  BY DEF Waited, Affected
<1>4. \A u \in Threads : u \in Late(s)' <=> u \in Late(s)
  BY DEF Late
<1>5. linked' \subseteq Threads
  BY DEF Inv, TypeOK
<1> QED
  BY <1>2, <1>3, <1>4, <1>5, CountKept

(* One thread is not waited for any more: the countdown follows.           *)
LEMMA CountOne ==
  ASSUME Inv, NEW s \in Stops, requested[s], NEW u,
         \/ /\ u \in Waited(s) /\ Waited(s)' = Waited(s) \ {u} /\ Late(s)' = Late(s) \union {u}
            /\ u \notin Late(s) /\ countdown'[s] = countdown[s] /\ Scanned(s)' = Scanned(s)
         \/ /\ u \in Waited(s) /\ Waited(s)' = Waited(s) \ {u} /\ Late(s)' = Late(s)
            /\ countdown'[s] = countdown[s] - 1 /\ Scanned(s)' = Scanned(s)
         \/ /\ u \in Waited(s) /\ Waited(s)' = Waited(s) \ {u} /\ Late(s)' = Late(s)
            /\ countdown'[s] = countdown[s] /\ Scanned(s)' = Scanned(s) + 1
         \/ /\ u \in Late(s) /\ Late(s)' = Late(s) \ {u} /\ Waited(s)' = Waited(s)
            /\ countdown'[s] = countdown[s] - 1 /\ Scanned(s)' = Scanned(s)
  PROVE  countdown'[s] = Scanned(s)' + Cardinality(Waited(s)') + Cardinality(Late(s)')
<1>1. TypeOK
  BY DEF Inv
<1>2. IsFiniteSet(Waited(s)) /\ IsFiniteSet(Late(s))
  BY <1>1, SetsFinite
<1>3. Cardinality(Waited(s)) \in Nat /\ Cardinality(Late(s)) \in Nat
  BY <1>1, SetsFinite
<1>4. u \in Waited(s) => Cardinality(Waited(s) \ {u}) = Cardinality(Waited(s)) - 1
  BY <1>2, FS_RemoveElement
<1>5. u \in Late(s) => Cardinality(Late(s) \ {u}) = Cardinality(Late(s)) - 1
  BY <1>2, FS_RemoveElement
<1>6. u \notin Late(s) => Cardinality(Late(s) \union {u}) = Cardinality(Late(s)) + 1
  BY <1>2, FS_AddElement
<1>7. countdown[s] = Scanned(s) + Cardinality(Waited(s)) + Cardinality(Late(s))
  BY DEF Inv, CountdownExact
<1>8. Scanned(s) \in Nat /\ countdown[s] \in Nat
  BY CountFacts
<1>a. CASE u \in Waited(s) /\ Waited(s)' = Waited(s) \ {u} /\ Late(s)' = Late(s) \union {u}
           /\ u \notin Late(s) /\ countdown'[s] = countdown[s] /\ Scanned(s)' = Scanned(s)
  BY <1>a, <1>3, <1>4, <1>6, <1>7, <1>8
<1>b. CASE u \in Waited(s) /\ Waited(s)' = Waited(s) \ {u} /\ Late(s)' = Late(s)
           /\ countdown'[s] = countdown[s] - 1 /\ Scanned(s)' = Scanned(s)
  BY <1>b, <1>3, <1>4, <1>7, <1>8
<1>c. CASE u \in Waited(s) /\ Waited(s)' = Waited(s) \ {u} /\ Late(s)' = Late(s)
           /\ countdown'[s] = countdown[s] /\ Scanned(s)' = Scanned(s) + 1
  BY <1>c, <1>3, <1>4, <1>7, <1>8
<1>d. CASE u \in Late(s) /\ Late(s)' = Late(s) \ {u} /\ Waited(s)' = Waited(s)
           /\ countdown'[s] = countdown[s] - 1 /\ Scanned(s)' = Scanned(s)
  BY <1>d, <1>3, <1>5, <1>7, <1>8
<1> QED
  BY <1>a, <1>b, <1>c, <1>d

(* Every stop counts exactly those it waits for.                           *)
LEMMA CountStep ==
  ASSUME Inv, [Next]_vars
  PROVE  CountdownExact'
<1>1. CASE UNCHANGED vars
  <2>1. /\ linked' = linked /\ requested' = requested /\ requester' = requester
        /\ countdown' = countdown /\ parked' = parked /\ state' = state /\ pc' = pc /\ stw' = stw
    BY <1>1 DEF vars, stwVars, local
  <2> QED
    BY <2>1, CountQuiet
<1>2. ASSUME NEW t \in Threads, Attach(t) PROVE CountdownExact'
  <2>1. /\ linked' = linked /\ requested' = requested /\ requester' = requester
        /\ countdown' = countdown /\ parked' = parked
    BY <1>2 DEF Attach, Goto, SetState, stwVars, lockVars, local
  <2>2. \A v \in Threads : state'[v] = "suspended" <=> state[v] = "suspended"
    BY <1>2 DEF Attach, Goto, SetState, stwVars, lockVars, local, Inv, TypeOK, StateInv, Inside, Places
  <2>3. /\ \A v \in Threads : pc'[v] = "count" <=> pc[v] = "count"
        /\ \A v \in Threads : pc[v] = "count" => stw'[v] = stw[v]
        /\ \A v \in Threads : pc'[v] = "scan" <=> pc[v] = "scan"
    BY <1>2 DEF Attach, Goto, SetState, stwVars, lockVars, local, Inv, TypeOK
  <2> QED
    BY <2>1, <2>2, <2>3, CountQuiet
<1>3. ASSUME NEW t \in Threads, Suspend(t) PROVE CountdownExact'
  <2>1. /\ linked' = linked /\ requested' = requested /\ requester' = requester
        /\ countdown' = countdown /\ parked' = parked
    BY <1>3 DEF Suspend, Goto, SetState, stwVars, lockVars, local
  <2>2. \A v \in Threads : state'[v] = "suspended" <=> state[v] = "suspended"
    BY <1>3 DEF Suspend, Goto, SetState, stwVars, lockVars, local, Inv, TypeOK, StateInv, Inside, Places
  <2>3. /\ \A v \in Threads : pc'[v] = "count" <=> pc[v] = "count"
        /\ \A v \in Threads : pc[v] = "count" => stw'[v] = stw[v]
        /\ \A v \in Threads : pc'[v] = "scan" <=> pc[v] = "scan"
    BY <1>3 DEF Suspend, Goto, SetState, stwVars, lockVars, local, Inv, TypeOK
  <2> QED
    BY <2>1, <2>2, <2>3, CountQuiet
<1>4. ASSUME NEW t \in Threads, DetachSuspended(t) PROVE CountdownExact'
  <2>1. /\ linked' = linked /\ requested' = requested /\ requester' = requester /\ stw' = stw
        /\ countdown' = countdown /\ parked' = parked /\ pc[t] = "detach"
        /\ \A v \in Threads \ {t} : state'[v] = state[v] /\ pc'[v] = pc[v]
        /\ IF stw[t] = NULL THEN state'[t] = "detached" /\ pc'[t] = "attach"
           ELSE state'[t] = "suspended" /\ pc'[t] = "count"
    BY <1>4 DEF DetachSuspended, SetState, Goto, stwVars, local, Inv, TypeOK
  <2>2. state[t] = "attached"
    BY <2>1 DEF Inv, StateInv, Inside, Places
  <2>3. t \in linked
    BY <2>1, <2>2 DEF Inv, StateInv, TodoInv
  <2>a. stw[t] # NULL => requested[stw[t]] /\ stw[t] \in {Interp[t], GLOBAL} /\ stw[t] \in Stops
    BY <2>1, StopTheWorldAssumption DEF Inv, LateInv, NextInv, Stops
  <2> SUFFICES ASSUME NEW z \in Stops, requested'[z]
               PROVE  countdown'[z] = Scanned(z)' + Cardinality(Waited(z)') + Cardinality(Late(z)')
    BY DEF CountdownExact
  <2>k. linked' \subseteq Threads
    BY TypeStep DEF TypeOK
  <2>4. requester[z] \in Threads \ {t}
    BY <2>1, Requester DEF Stopping
  <2>5. Scanned(z)' = Scanned(z)
    BY <2>1, <2>4 DEF Scanned
  <2>6. CASE stw[t] = z
    <3>1. stw[t] # NULL /\ Concerns(z, t)
      BY <2>6, <2>a, StopTheWorldAssumption DEF Stops, Concerns
    <3>2. t \in Waited(z) /\ t \notin Late(z)
      BY <2>1, <2>2, <2>3, <2>4, <3>1 DEF Waited, Affected, Late, Concerns
    <3>3. Waited(z)' = Waited(z) \ {t}
      BY <2>1, <2>4, <3>1, <3>2 DEF Waited, Affected, Inv, TypeOK
    <3>4. Late(z)' = Late(z) \union {t}
      BY <2>1, <2>6, <3>1 DEF Late
    <3> QED
      BY <2>1, <2>5, <3>2, <3>3, <3>4, CountOne
  <2>7. CASE stw[t] # z
    <3>1. \A v \in Threads : v \in Late(z)' <=> v \in Late(z)
      BY <2>1, <2>7 DEF Late
    <3>2. stw[t] = NULL \/ ~ Concerns(z, t)
      BY <2>1, <2>7, <2>a, OneStop DEF Concerns
    <3>3. \A v \in Threads : v \in Waited(z)' <=> v \in Waited(z)
      BY <2>1, <2>2, <3>2 DEF Waited, Affected, Concerns
    <3> QED
      BY <2>1, <2>5, <2>k, <3>1, <3>3, CountKept
  <2> QED
    BY <2>6, <2>7
<1>5. ASSUME NEW t \in Threads, Count(t) PROVE CountdownExact'
  <2>1. /\ linked' = linked /\ state' = state /\ parked' = parked /\ pc[t] = "count" /\ pc'[t] = "attach"
        /\ \A v \in Threads \ {t} : stw'[v] = stw[v] /\ pc'[v] = pc[v]
    BY <1>5 DEF Count, Goto, Inv, TypeOK
  <2>2. requested' = requested /\ requester' = requester /\ t \in Late(stw[t]) /\ stw[t] \in Stops
    BY <1>5, CountCounts
  <2> SUFFICES ASSUME NEW z \in Stops, requested'[z]
               PROVE  countdown'[z] = Scanned(z)' + Cardinality(Waited(z)') + Cardinality(Late(z)')
    BY DEF CountdownExact
  <2>k. linked' \subseteq Threads
    BY TypeStep DEF TypeOK
  <2>4. requester[z] \in Threads \ {t}
    BY <2>1, <2>2, Requester DEF Stopping
  <2>5. Scanned(z)' = Scanned(z)
    BY <2>1, <2>2, <2>4 DEF Scanned
  <2>6. \A v \in Threads : v \in Waited(z)' <=> v \in Waited(z)
    BY <2>1, <2>2 DEF Waited, Affected
  <2>7. CASE stw[t] = z
    <3>1. Waited(z)' = Waited(z)
      BY <2>k, <2>6 DEF Waited, Affected, Inv, TypeOK
    <3>2. Late(z)' = Late(z) \ {t}
      BY <2>1 DEF Late
    <3>3. countdown'[z] = countdown[z] - 1
      BY <1>5, <2>7, CountCounts
    <3> QED
      BY <2>2, <2>5, <2>7, <3>1, <3>2, <3>3, CountOne
  <2>8. CASE stw[t] # z
    <3>1. \A v \in Threads : v \in Late(z)' <=> v \in Late(z)
      BY <2>1, <2>8 DEF Late
    <3>2. countdown'[z] = countdown[z]
      BY <1>5, <2>8, CountCounts
    <3> QED
      BY <2>2, <2>5, <2>6, <2>k, <3>1, <3>2, CountKept
  <2> QED
    BY <2>7, <2>8
<1>6. ASSUME NEW t \in Threads, LockRW(t) PROVE CountdownExact'
  <2>1. /\ linked' = linked /\ requested' = requested /\ requester' = requester
        /\ countdown' = countdown /\ parked' = parked
    BY <1>6 DEF LockRW, Goto, SetState, stwVars, lockVars, local, WaitAt, RWFree
  <2>2. \A v \in Threads : state'[v] = "suspended" <=> state[v] = "suspended"
    BY <1>6 DEF LockRW, Goto, SetState, stwVars, lockVars, local, WaitAt, RWFree, Inv, TypeOK, StateInv, Inside, Places
  <2>3. /\ \A v \in Threads : pc'[v] = "count" <=> pc[v] = "count"
        /\ \A v \in Threads : pc[v] = "count" => stw'[v] = stw[v]
        /\ \A v \in Threads : pc'[v] = "scan" <=> pc[v] = "scan"
    BY <1>6 DEF LockRW, Goto, SetState, stwVars, lockVars, local, WaitAt, RWFree, Inv, TypeOK
  <2> QED
    BY <2>1, <2>2, <2>3, CountQuiet
<1>7. ASSUME NEW t \in Threads, RetryRW(t) PROVE CountdownExact'
  <2>1. /\ linked' = linked /\ requested' = requested /\ requester' = requester
        /\ countdown' = countdown /\ parked' = parked
    BY <1>7 DEF RetryRW, Goto, SetState, stwVars, lockVars, local, AttachTo, RWFree
  <2>2. \A v \in Threads : state'[v] = "suspended" <=> state[v] = "suspended"
    BY <1>7 DEF RetryRW, Goto, SetState, stwVars, lockVars, local, AttachTo, RWFree, Inv, TypeOK, StateInv, Inside, Places
  <2>3. /\ \A v \in Threads : pc'[v] = "count" <=> pc[v] = "count"
        /\ \A v \in Threads : pc[v] = "count" => stw'[v] = stw[v]
        /\ \A v \in Threads : pc'[v] = "scan" <=> pc[v] = "scan"
    BY <1>7 DEF RetryRW, Goto, SetState, stwVars, lockVars, local, AttachTo, RWFree, Inv, TypeOK
  <2> QED
    BY <2>1, <2>2, <2>3, CountQuiet
<1>8. ASSUME NEW t \in Threads, LockMutex(t) PROVE CountdownExact'
  <2>1. /\ linked' = linked /\ requested' = requested /\ requester' = requester
        /\ countdown' = countdown /\ parked' = parked
    BY <1>8 DEF LockMutex, Goto, SetState, stwVars, lockVars, local, WaitAt
  <2>2. \A v \in Threads : state'[v] = "suspended" <=> state[v] = "suspended"
    BY <1>8 DEF LockMutex, Goto, SetState, stwVars, lockVars, local, WaitAt, Inv, TypeOK, StateInv, Inside, Places
  <2>3. /\ \A v \in Threads : pc'[v] = "count" <=> pc[v] = "count"
        /\ \A v \in Threads : pc[v] = "count" => stw'[v] = stw[v]
        /\ \A v \in Threads : pc'[v] = "scan" <=> pc[v] = "scan"
    BY <1>8 DEF LockMutex, Goto, SetState, stwVars, lockVars, local, WaitAt, Inv, TypeOK
  <2> QED
    BY <2>1, <2>2, <2>3, CountQuiet
<1>9. ASSUME NEW t \in Threads, RetryMutex(t) PROVE CountdownExact'
  <2>1. /\ linked' = linked /\ requested' = requested /\ requester' = requester
        /\ countdown' = countdown /\ parked' = parked
    BY <1>9 DEF RetryMutex, Goto, SetState, stwVars, lockVars, local, AttachTo
  <2>2. \A v \in Threads : state'[v] = "suspended" <=> state[v] = "suspended"
    BY <1>9 DEF RetryMutex, Goto, SetState, stwVars, lockVars, local, AttachTo, Inv, TypeOK, StateInv, Inside, Places
  <2>3. /\ \A v \in Threads : pc'[v] = "count" <=> pc[v] = "count"
        /\ \A v \in Threads : pc[v] = "count" => stw'[v] = stw[v]
        /\ \A v \in Threads : pc'[v] = "scan" <=> pc[v] = "scan"
    BY <1>9 DEF RetryMutex, Goto, SetState, stwVars, lockVars, local, AttachTo, Inv, TypeOK
  <2> QED
    BY <2>1, <2>2, <2>3, CountQuiet
<1>10. ASSUME NEW t \in Threads, Request(t) PROVE CountdownExact'
  <2>1. /\ linked' = linked /\ state' = state /\ stw' = stw /\ headLock = NULL /\ pc[t] = "request"
        /\ requested' = [requested EXCEPT ![stw[t]] = TRUE]
        /\ requester' = [requester EXCEPT ![stw[t]] = t]
        /\ countdown' = [countdown EXCEPT ![stw[t]] = Cardinality(Affected(stw[t]) \ {t})]
        /\ pc'[t] = "stopped" \/ (pc'[t] = "scan" /\ parked'[t] = 0)
        /\ \A v \in Threads \ {t} : pc'[v] = pc[v] /\ parked'[v] = parked[v]
    BY <1>10 DEF Request, StartScan, Goto, Inv, TypeOK
  <2>2. stw[t] \in Stops /\ HasRW(t) /\ HasMutex(t)
    BY <2>1, StopTheWorldAssumption DEF Inv, NextInv, HasRW, HasMutex, Stops
  <2>3. ASSUME NEW v \in Threads, NEW s \in Stops, requested[s], Concerns(s, v), Concerns(stw[t], v)
        PROVE  FALSE
    <3>1. requester[s] = t
      BY <2>2, <2>3, Alone
    <3> QED
      BY <2>1, <2>3, <3>1, Requester DEF Stopping
  <2> SUFFICES ASSUME NEW z \in Stops, requested'[z]
               PROVE  countdown'[z] = Scanned(z)' + Cardinality(Waited(z)') + Cardinality(Late(z)')
    BY DEF CountdownExact
  <2>k. linked' \subseteq Threads
    BY TypeStep DEF TypeOK
  <2>4. CASE z = stw[t]
    <3>1. \A v \in Affected(z) \ {t} : state[v] # "suspended"
      <4> SUFFICES ASSUME NEW v \in Affected(z) \ {t}, state[v] = "suspended" PROVE FALSE
        OBVIOUS
      <4>1. v \in Threads /\ v \in linked /\ Concerns(z, v)
        BY DEF Affected, Concerns, Inv, TypeOK
      <4>2. ~ requested[Interp[v]] /\ ~ requested[GLOBAL]
        BY <2>3, <2>4, <4>1, StopTheWorldAssumption DEF Concerns, Stops
      <4>3. \A r \in Threads : pc[r] \in {"start", "removed"} => v \notin todo[r]
        BY <2>1, <4>1, StopTheWorldAssumption DEF Inv, HeadInv, StateInv
      <4> QED
        BY <4>1, <4>2, <4>3, WakersAre DEF WakerInv, Waker
    <3>2. requester'[z] = t /\ countdown'[z] = Cardinality(Affected(z) \ {t})
      BY <2>1, <2>2, <2>4 DEF Inv, TypeOK
    <3>3. Waited(z)' = Affected(z) \ {t}
      BY <2>1, <3>1, <3>2 DEF Waited, Affected
    <3>4. ~ requested[z]
      BY <2>1, <2>2, <2>4, Requester DEF Inv, MutexInv, Stopping
    <3>5. Late(z)' = {}
      <4>1. Late(z)' = Late(z)
        BY <2>1 DEF Late
      <4>2. Late(z) = {}
        BY <3>4, StopTheWorldAssumption DEF Late, Inv, LateInv, Stops
      <4> QED
        BY <4>1, <4>2
    <3>6. Scanned(z)' = 0
      BY <2>1, <3>2 DEF Scanned
    <3>7. Cardinality({}) = 0 /\ Cardinality(Affected(z) \ {t}) \in Nat
      BY FS_EmptySet, FS_Subset, FS_CardinalityType, StopTheWorldAssumption DEF Affected, Inv, TypeOK
    <3> QED
      BY <3>2, <3>3, <3>5, <3>6, <3>7
  <2>5. CASE z # stw[t]
    <3>1. requested[z] /\ requester'[z] = requester[z] /\ countdown'[z] = countdown[z]
      BY <2>1, <2>5 DEF Inv, TypeOK
    <3>2. requester[z] \in Threads \ {t}
      BY <2>1, <3>1, Requester DEF Stopping
    <3>3. Scanned(z)' = Scanned(z)
      BY <2>1, <3>1, <3>2 DEF Scanned
    <3>4. \A v \in Threads : v \in Waited(z)' <=> v \in Waited(z)
      BY <2>1, <3>1 DEF Waited, Affected
    <3>5. \A v \in Threads : v \in Late(z)' <=> v \in Late(z)
      BY <2>1 DEF Late
    <3> QED
      BY <2>k, <3>1, <3>3, <3>4, <3>5, CountKept
  <2> QED
    BY <2>4, <2>5
<1>11. ASSUME NEW t \in Threads, ScanEnd(t) PROVE CountdownExact'
  <2>1. /\ linked' = linked /\ state' = state /\ stw' = stw /\ pc[t] = "scan" /\ pc'[t] \in {"stopped", "event"}
        /\ requested' = requested /\ requester' = requester
        /\ countdown' = [countdown EXCEPT ![stw[t]] = @ - parked[t]]
        /\ \A v \in Threads \ {t} : pc'[v] = pc[v] /\ parked'[v] = parked[v]
    BY <1>11 DEF ScanEnd, WorldStopped, Goto, Inv, TypeOK
  <2>2. stw[t] \in Stops
    BY <2>1, StopTheWorldAssumption DEF Inv, NextInv, HasRW, HasMutex, Stopping, Stops
  <2>3. requester[stw[t]] = t
    BY <2>1, <2>2 DEF Inv, RequestInv, Stopping
  <2> SUFFICES ASSUME NEW z \in Stops, requested'[z]
               PROVE  countdown'[z] = Scanned(z)' + Cardinality(Waited(z)') + Cardinality(Late(z)')
    BY DEF CountdownExact
  <2>k. linked' \subseteq Threads
    BY TypeStep DEF TypeOK
  <2>4. \A v \in Threads : v \in Waited(z)' <=> v \in Waited(z)
    BY <2>1 DEF Waited, Affected
  <2>5. \A v \in Threads : v \in Late(z)' <=> v \in Late(z)
    BY <2>1 DEF Late
  <2>6. CASE z = stw[t]
    <3>1. Scanned(z)' = 0 /\ Scanned(z) = parked[t]
      BY <2>1, <2>3, <2>6 DEF Scanned
    <3>2. countdown'[z] = countdown[z] - parked[t]
      BY <2>1, <2>2, <2>6 DEF Inv, TypeOK
    <3>3. Waited(z)' = Waited(z) /\ Late(z)' = Late(z)
      BY <2>1 DEF Waited, Affected, Late
    <3>4. countdown[z] = Scanned(z) + Cardinality(Waited(z)) + Cardinality(Late(z))
      BY <2>1 DEF Inv, CountdownExact
    <3>5. Cardinality(Waited(z)) \in Nat /\ Cardinality(Late(z)) \in Nat /\ parked[t] \in Nat
      BY SetsFinite DEF Inv, TypeOK
    <3> QED
      BY <3>1, <3>2, <3>3, <3>4, <3>5
  <2>7. CASE z # stw[t]
    <3>1. countdown'[z] = countdown[z]
      BY <2>1, <2>7 DEF Inv, TypeOK
    <3>2. requester[z] \in Threads \ {t}
      BY <2>1, <2>7, Requester
    <3>3. Scanned(z)' = Scanned(z)
      BY <2>1, <3>2 DEF Scanned
    <3> QED
      BY <2>1, <2>4, <2>5, <2>k, <3>1, <3>3, CountKept
  <2> QED
    BY <2>6, <2>7
<1>12. ASSUME NEW t \in Threads, EventSet(t) PROVE CountdownExact'
  <2>1. /\ linked' = linked /\ requested' = requested /\ requester' = requester
        /\ countdown' = countdown /\ parked' = parked
    BY <1>12 DEF EventSet, Goto, SetState, stwVars, lockVars, local, WorldStopped
  <2>2. \A v \in Threads : state'[v] = "suspended" <=> state[v] = "suspended"
    BY <1>12 DEF EventSet, Goto, SetState, stwVars, lockVars, local, WorldStopped, Inv, TypeOK, StateInv, Inside, Places
  <2>3. /\ \A v \in Threads : pc'[v] = "count" <=> pc[v] = "count"
        /\ \A v \in Threads : pc[v] = "count" => stw'[v] = stw[v]
        /\ \A v \in Threads : pc'[v] = "scan" <=> pc[v] = "scan"
    BY <1>12 DEF EventSet, Goto, SetState, stwVars, lockVars, local, WorldStopped, Inv, TypeOK
  <2> QED
    BY <2>1, <2>2, <2>3, CountQuiet
<1>13. ASSUME NEW t \in Threads, TimedOut(t) PROVE CountdownExact'
  <2>1. /\ linked' = linked /\ requested' = requested /\ requester' = requester
        /\ countdown' = countdown /\ parked' = parked
    BY <1>13 DEF TimedOut, Goto, SetState, stwVars, lockVars, local
  <2>2. \A v \in Threads : state'[v] = "suspended" <=> state[v] = "suspended"
    BY <1>13 DEF TimedOut, Goto, SetState, stwVars, lockVars, local, Inv, TypeOK, StateInv, Inside, Places
  <2>3. /\ \A v \in Threads : pc'[v] = "count" <=> pc[v] = "count"
        /\ \A v \in Threads : pc[v] = "count" => stw'[v] = stw[v]
        /\ \A v \in Threads : pc'[v] = "scan" <=> pc[v] = "scan"
    BY <1>13 DEF TimedOut, Goto, SetState, stwVars, lockVars, local, Inv, TypeOK
  <2> QED
    BY <2>1, <2>2, <2>3, CountQuiet
<1>14. ASSUME NEW t \in Threads, ScanAgain(t) PROVE CountdownExact'
  <2>1. /\ linked' = linked /\ state' = state /\ stw' = stw /\ countdown' = countdown
        /\ \A v \in Threads \ {t} : pc'[v] = pc[v] /\ parked'[v] = parked[v]
        /\ requested' = requested /\ requester' = requester
        /\ pc[t] = "again" /\ pc'[t] = "scan" /\ parked'[t] = 0
    BY <1>14 DEF ScanAgain, StartScan, Goto, stwVars, local, Inv, TypeOK
  <2>2. stw[t] \in Stops
    BY <2>1, StopTheWorldAssumption DEF Inv, NextInv, HasRW, HasMutex, Stopping, Stops
  <2> SUFFICES ASSUME NEW z \in Stops, requested'[z]
               PROVE  countdown'[z] = Scanned(z)' + Cardinality(Waited(z)') + Cardinality(Late(z)')
    BY DEF CountdownExact
  <2>k. linked' \subseteq Threads
    BY TypeStep DEF TypeOK
  <2>4. \A v \in Threads : v \in Late(z)' <=> v \in Late(z)
    BY <2>1 DEF Late
  <2>5. requested[z] /\ requester'[z] = requester[z]
    BY <2>1
  <2>6. requester[z] \in Threads
    BY <2>5, Requester
  <2>8. Scanned(z)' = Scanned(z)
    BY <2>1, <2>5, <2>6 DEF Scanned
  <2>9. \A v \in Threads : v \in Waited(z)' <=> v \in Waited(z)
    BY <2>1, <2>5 DEF Waited, Affected
  <2> QED
    BY <2>1, <2>4, <2>5, <2>8, <2>9, <2>k, CountKept
<1>15. ASSUME NEW t \in Threads, Start(t) PROVE CountdownExact'
  <2>1. /\ linked' = linked /\ state' = state /\ stw' = stw /\ countdown' = countdown
        /\ \A v \in Threads \ {t} : pc'[v] = pc[v] /\ parked'[v] = parked[v]
        /\ requested' = [requested EXCEPT ![stw[t]] = FALSE] /\ requester' = requester
        /\ pc[t] \in {"stopped", "removed"} /\ pc'[t] = "start" /\ parked' = parked
    BY <1>15 DEF Start, Goto, stwVars, local, Inv, TypeOK
  <2>2. stw[t] \in Stops
    BY <2>1, StopTheWorldAssumption DEF Inv, NextInv, HasRW, HasMutex, Stopping, Stops
  <2> SUFFICES ASSUME NEW z \in Stops, requested'[z]
               PROVE  countdown'[z] = Scanned(z)' + Cardinality(Waited(z)') + Cardinality(Late(z)')
    BY DEF CountdownExact
  <2>k. linked' \subseteq Threads
    BY TypeStep DEF TypeOK
  <2>4. \A v \in Threads : v \in Late(z)' <=> v \in Late(z)
    BY <2>1 DEF Late
  <2>5. requested[z] /\ requester'[z] = requester[z]
    BY <2>1, <2>2 DEF Inv, TypeOK
  <2>6. requester[z] \in Threads
    BY <2>5, Requester
  <2>8. Scanned(z)' = Scanned(z)
    BY <2>1, <2>5, <2>6 DEF Scanned
  <2>9. \A v \in Threads : v \in Waited(z)' <=> v \in Waited(z)
    BY <2>1, <2>5 DEF Waited, Affected
  <2> QED
    BY <2>1, <2>4, <2>5, <2>8, <2>9, <2>k, CountKept
<1>16. ASSUME NEW t \in Threads, StartEnd(t) PROVE CountdownExact'
  <2>1. /\ linked' = linked /\ state' = state /\ stw' = stw /\ countdown' = countdown
        /\ \A v \in Threads \ {t} : pc'[v] = pc[v] /\ parked'[v] = parked[v]
        /\ requested' = requested /\ requester' = [requester EXCEPT ![stw[t]] = NULL]
        /\ pc[t] = "start" /\ pc'[t] = "unmutex" /\ parked' = parked
    BY <1>16 DEF StartEnd, Goto, stwVars, local, Inv, TypeOK
  <2>2. stw[t] \in Stops
    BY <2>1, StopTheWorldAssumption DEF Inv, NextInv, HasRW, HasMutex, Stopping, Stops
  <2> SUFFICES ASSUME NEW z \in Stops, requested'[z]
               PROVE  countdown'[z] = Scanned(z)' + Cardinality(Waited(z)') + Cardinality(Late(z)')
    BY DEF CountdownExact
  <2>k. linked' \subseteq Threads
    BY TypeStep DEF TypeOK
  <2>4. \A v \in Threads : v \in Late(z)' <=> v \in Late(z)
    BY <2>1 DEF Late
  <2>a. requester[stw[t]] = t
    BY <2>1, <2>2 DEF Inv, RequestInv
  <2>b. z # stw[t]
    BY <2>1, <2>a, Requester DEF Stopping
  <2>5. requested[z] /\ requester'[z] = requester[z]
    BY <2>1, <2>2, <2>b DEF Inv, TypeOK
  <2>6. requester[z] \in Threads
    BY <2>5, Requester
  <2>8. Scanned(z)' = Scanned(z)
    BY <2>1, <2>5, <2>6 DEF Scanned
  <2>9. \A v \in Threads : v \in Waited(z)' <=> v \in Waited(z)
    BY <2>1, <2>5 DEF Waited, Affected
  <2> QED
    BY <2>1, <2>4, <2>5, <2>8, <2>9, <2>k, CountKept
<1>17. ASSUME NEW t \in Threads, UnlockMutex(t) PROVE CountdownExact'
  <2>1. /\ linked' = linked /\ requested' = requested /\ requester' = requester
        /\ countdown' = countdown /\ parked' = parked
    BY <1>17 DEF UnlockMutex, Goto, SetState, stwVars, lockVars, local
  <2>2. \A v \in Threads : state'[v] = "suspended" <=> state[v] = "suspended"
    BY <1>17 DEF UnlockMutex, Goto, SetState, stwVars, lockVars, local, Inv, TypeOK, StateInv, Inside, Places
  <2>3. /\ \A v \in Threads : pc'[v] = "count" <=> pc[v] = "count"
        /\ \A v \in Threads : pc[v] = "count" => stw'[v] = stw[v]
        /\ \A v \in Threads : pc'[v] = "scan" <=> pc[v] = "scan"
    BY <1>17 DEF UnlockMutex, Goto, SetState, stwVars, lockVars, local, Inv, TypeOK
  <2> QED
    BY <2>1, <2>2, <2>3, CountQuiet
<1>18. ASSUME NEW t \in Threads, UnlockRW(t) PROVE CountdownExact'
  <2>1. /\ linked' = linked /\ requested' = requested /\ requester' = requester
        /\ countdown' = countdown /\ parked' = parked
    BY <1>18 DEF UnlockRW, Goto, SetState, stwVars, lockVars, local
  <2>2. \A v \in Threads : state'[v] = "suspended" <=> state[v] = "suspended"
    BY <1>18 DEF UnlockRW, Goto, SetState, stwVars, lockVars, local, Inv, TypeOK, StateInv, Inside, Places
  <2>3. /\ \A v \in Threads : pc'[v] = "count" <=> pc[v] = "count"
        /\ \A v \in Threads : pc[v] = "count" => stw'[v] = stw[v]
        /\ \A v \in Threads : pc'[v] = "scan" <=> pc[v] = "scan"
    BY <1>18 DEF UnlockRW, Goto, SetState, stwVars, lockVars, local, Inv, TypeOK
  <2> QED
    BY <2>1, <2>2, <2>3, CountQuiet
<1>19. ASSUME NEW t \in Threads, NEW u \in Threads, Scan(t, u) PROVE CountdownExact'
  <2>1. /\ linked' = linked /\ stw' = stw /\ countdown' = countdown /\ pc' = pc /\ pc[t] = "scan"
        /\ requested' = requested /\ requester' = requester /\ u \in todo[t]
        /\ \A v \in Threads \ {t} : parked'[v] = parked[v]
        /\ \A v \in Threads \ {u} : state'[v] = state[v]
        /\ IF state[u] = "detached" THEN state'[u] = "suspended" /\ parked'[t] = parked[t] + 1
           ELSE state' = state /\ parked' = parked
    BY <1>19 DEF Scan, SetState, stwVars, Inv, TypeOK
  <2>2. stw[t] \in Stops /\ HasRW(t) /\ HasMutex(t)
    BY <2>1, StopTheWorldAssumption DEF Inv, NextInv, HasRW, HasMutex, Stopping, Stops
  <2>3. requester[stw[t]] = t
    BY <2>1, <2>2 DEF Inv, RequestInv, Stopping
  <2>4. u # t /\ u \in linked /\ Concerns(stw[t], u)
    BY <2>1 DEF Inv, TodoInv, Affected, Concerns
  <2> SUFFICES ASSUME NEW z \in Stops, requested'[z]
               PROVE  countdown'[z] = Scanned(z)' + Cardinality(Waited(z)') + Cardinality(Late(z)')
    BY DEF CountdownExact
  <2>k. linked' \subseteq Threads
    BY TypeStep DEF TypeOK
  <2>5. \A v \in Threads : v \in Late(z)' <=> v \in Late(z)
    BY <2>1 DEF Late
  <2>6. requester[z] \in Threads /\ (requester[z] = t => z = stw[t])
    BY <2>1, Requester
  <2>7. CASE state[u] # "detached"
    <3>1. Scanned(z)' = Scanned(z)
      BY <2>1, <2>7 DEF Scanned
    <3>2. \A v \in Threads : v \in Waited(z)' <=> v \in Waited(z)
      BY <2>1, <2>7 DEF Waited, Affected
    <3> QED
      BY <2>1, <2>5, <2>k, <3>1, <3>2, CountKept
  <2>8. CASE state[u] = "detached" /\ z = stw[t]
    <3>1. Scanned(z)' = Scanned(z) + 1
      BY <2>1, <2>3, <2>8 DEF Scanned
    <3>2. u \in Waited(z)
      BY <2>3, <2>4, <2>8 DEF Waited, Affected, Concerns
    <3>3. Waited(z)' = Waited(z) \ {u}
      BY <2>1, <2>8 DEF Waited, Affected, Inv, TypeOK
    <3>4. Late(z)' = Late(z)
      BY <2>1 DEF Late
    <3> QED
      BY <2>1, <3>1, <3>2, <3>3, <3>4, CountOne
  <2>9. CASE state[u] = "detached" /\ z # stw[t]
    <3>1. Scanned(z)' = Scanned(z)
      BY <2>1, <2>6, <2>9 DEF Scanned
    <3>2. ~ Concerns(z, u)
      BY <2>1, <2>2, <2>4, <2>9, Alone
    <3>3. \A v \in Threads : v \in Waited(z)' <=> v \in Waited(z)
      BY <2>1, <3>2 DEF Waited, Affected, Concerns
    <3> QED
      BY <2>1, <2>5, <2>k, <3>1, <3>3, CountKept
  <2> QED
    BY <2>7, <2>8, <2>9
<1>20. ASSUME NEW t \in Threads, NEW u \in Threads, SetShuttingDown(t, u) PROVE CountdownExact'
  <2>1. /\ linked' = linked /\ stw' = stw /\ countdown' = countdown /\ parked' = parked
        /\ requested' = requested /\ requester' = requester /\ u \in todo[t] /\ pc[t] = "removed"
        /\ \A v \in Threads \ {u} : state'[v] = state[v]
        /\ \A v \in Threads : pc'[v] = pc[v] \/ (pc[v] = "asleep" /\ pc'[v] = "attach")
    BY <1>20 DEF SetShuttingDown, SetState, UnparkAll, stwVars, Inv, TypeOK
  <2> SUFFICES ASSUME NEW z \in Stops, requested'[z]
               PROVE  countdown'[z] = Scanned(z)' + Cardinality(Waited(z)') + Cardinality(Late(z)')
    BY DEF CountdownExact
  <2>k. linked' \subseteq Threads
    BY TypeStep DEF TypeOK
  <2>5. \A v \in Threads : v \in Late(z)' <=> v \in Late(z)
    BY <2>1 DEF Late
  <2>6. requester[z] \in Threads
    BY <2>1, Requester
  <2>7. Scanned(z)' = Scanned(z)
    BY <2>1, <2>6 DEF Scanned
  <2>8. u \notin linked
    BY <2>1, RemovedFacts
  <2>9. \A v \in Threads : v \in Waited(z)' <=> v \in Waited(z)
    BY <2>1, <2>8 DEF Waited, Affected, Concerns
  <2> QED
    BY <2>1, <2>5, <2>7, <2>9, <2>k, CountKept
<1>21. ASSUME NEW t \in Threads, NEW u \in Threads, Wake(t, u) PROVE CountdownExact'
  <2>1. /\ linked' = linked /\ stw' = stw /\ countdown' = countdown /\ parked' = parked
        /\ requested' = requested /\ requester' = requester /\ u \in todo[t] /\ pc[t] = "start"
        /\ \A v \in Threads \ {u} : state'[v] = state[v]
        /\ \A v \in Threads : pc'[v] = pc[v] \/ (pc[v] = "asleep" /\ pc'[v] = "attach")
    BY <1>21 DEF Wake, SetState, UnparkAll, stwVars, Inv, TypeOK
  <2> SUFFICES ASSUME NEW z \in Stops, requested'[z]
               PROVE  countdown'[z] = Scanned(z)' + Cardinality(Waited(z)') + Cardinality(Late(z)')
    BY DEF CountdownExact
  <2>k. linked' \subseteq Threads
    BY TypeStep DEF TypeOK
  <2>5. \A v \in Threads : v \in Late(z)' <=> v \in Late(z)
    BY <2>1 DEF Late
  <2>6. requester[z] \in Threads
    BY <2>1, Requester
  <2>7. Scanned(z)' = Scanned(z)
    BY <2>1, <2>6 DEF Scanned
  <2>a. Concerns(stw[t], u) /\ HasRW(t) /\ HasMutex(t)
    BY <1>21, WakeFacts
  <2>b. pc[requester[z]] \in Stopping
    BY <2>1, Requester
  <2>8. ~ Concerns(z, u)
    BY <2>1, <2>a, <2>b, Alone DEF Stopping
  <2>9. \A v \in Threads : v \in Waited(z)' <=> v \in Waited(z)
    BY <2>1, <2>8 DEF Waited, Affected, Concerns
  <2> QED
    BY <2>1, <2>5, <2>7, <2>9, <2>k, CountKept
<1>22. ASSUME NEW t \in Threads, HandlePending(t) PROVE CountdownExact'
  <2>1. /\ linked' = linked /\ requested' = requested /\ requester' = requester
        /\ countdown' = countdown /\ parked' = parked
    BY <1>22 DEF HandlePending, Goto, SetState, stwVars, lockVars, local
  <2>2. \A v \in Threads : state'[v] = "suspended" <=> state[v] = "suspended"
    BY <1>22 DEF HandlePending, Goto, SetState, stwVars, lockVars, local, Inv, TypeOK, StateInv, Inside, Places
  <2>3. /\ \A v \in Threads : pc'[v] = "count" <=> pc[v] = "count"
        /\ \A v \in Threads : pc[v] = "count" => stw'[v] = stw[v]
        /\ \A v \in Threads : pc'[v] = "scan" <=> pc[v] = "scan"
    BY <1>22 DEF HandlePending, Goto, SetState, stwVars, lockVars, local, Inv, TypeOK
  <2> QED
    BY <2>1, <2>2, <2>3, CountQuiet
<1>23. ASSUME NEW t \in Threads, New(t) PROVE CountdownExact'
  <2>1. /\ linked' = linked \union {t} /\ stw' = stw /\ countdown' = countdown /\ parked' = parked
        /\ requested' = requested /\ requester' = requester /\ pc[t] = "none" /\ pc'[t] = "out"
        /\ \A v \in Threads \ {t} : state'[v] = state[v] /\ pc'[v] = pc[v]
        /\ Requests(Interp[t]) # {} => state'[t] = "suspended"
    BY <1>23 DEF New, SetState, Goto, stwVars, local, Inv, TypeOK
  <2> SUFFICES ASSUME NEW z \in Stops, requested'[z]
               PROVE  countdown'[z] = Scanned(z)' + Cardinality(Waited(z)') + Cardinality(Late(z)')
    BY DEF CountdownExact
  <2>k. linked' \subseteq Threads
    BY TypeStep DEF TypeOK
  <2>5. \A v \in Threads : v \in Late(z)' <=> v \in Late(z)
    BY <2>1 DEF Late
  <2>6. requester[z] \in Threads \ {t}
    BY <2>1, Requester DEF Stopping
  <2>7. Scanned(z)' = Scanned(z)
    BY <2>1, <2>6 DEF Scanned
  <2>8. t \notin Waited(z)
    BY <2>1 DEF Waited, Affected, Inv, StateInv
  <2>9. Concerns(z, t) => state'[t] = "suspended"
    BY <2>1 DEF Concerns, Requests
  <2>10. t \notin Waited(z)'
    BY <2>9 DEF Waited, Affected, Concerns
  <2>11. \A v \in Threads \ {t} : v \in Waited(z)' <=> v \in Waited(z)
    BY <2>1 DEF Waited, Affected
  <2> QED
    BY <2>1, <2>5, <2>7, <2>8, <2>10, <2>11, <2>k, CountKept
<1>24. ASSUME NEW t \in Threads, Return(t) PROVE CountdownExact'
  <2>1. /\ linked' = linked /\ requested' = requested /\ requester' = requester
        /\ countdown' = countdown /\ parked' = parked
    BY <1>24 DEF Return, Goto, SetState, stwVars, lockVars, local
  <2>2. \A v \in Threads : state'[v] = "suspended" <=> state[v] = "suspended"
    BY <1>24 DEF Return, Goto, SetState, stwVars, lockVars, local, Inv, TypeOK, StateInv, Inside, Places
  <2>3. /\ \A v \in Threads : pc'[v] = "count" <=> pc[v] = "count"
        /\ \A v \in Threads : pc[v] = "count" => stw'[v] = stw[v]
        /\ \A v \in Threads : pc'[v] = "scan" <=> pc[v] = "scan"
    BY <1>24 DEF Return, Goto, SetState, stwVars, lockVars, local, Inv, TypeOK
  <2> QED
    BY <2>1, <2>2, <2>3, CountQuiet
<1>25. ASSUME NEW t \in Threads, Detach(t) PROVE CountdownExact'
  <2>1. /\ linked' = linked /\ requested' = requested /\ requester' = requester
        /\ countdown' = countdown /\ parked' = parked
    BY <1>25 DEF Detach, Goto, SetState, stwVars, lockVars, local
  <2>2. \A v \in Threads : state'[v] = "suspended" <=> state[v] = "suspended"
    BY <1>25 DEF Detach, Goto, SetState, stwVars, lockVars, local, Inv, TypeOK, StateInv, Inside, Places
  <2>3. /\ \A v \in Threads : pc'[v] = "count" <=> pc[v] = "count"
        /\ \A v \in Threads : pc[v] = "count" => stw'[v] = stw[v]
        /\ \A v \in Threads : pc'[v] = "scan" <=> pc[v] = "scan"
    BY <1>25 DEF Detach, Goto, SetState, stwVars, lockVars, local, Inv, TypeOK
  <2> QED
    BY <2>1, <2>2, <2>3, CountQuiet
<1>26. ASSUME NEW t \in Threads, Exit(t) PROVE CountdownExact'
  <2>1. /\ linked' = linked \ {t} /\ stw' = stw /\ parked' = parked
        /\ pc[t] \in {"run", "out"} /\ pc'[t] = "none"
        /\ \A v \in Threads \ {t} : state'[v] = state[v] /\ pc'[v] = pc[v]
    BY <1>26, DeleteFacts DEF Delete, SetState, Goto, local, Inv, TypeOK
  <2>2. requested' = requested /\ requester' = requester
    BY <1>26, DeleteCounts
  <2> SUFFICES ASSUME NEW z \in Stops, requested'[z]
               PROVE  countdown'[z] = Scanned(z)' + Cardinality(Waited(z)') + Cardinality(Late(z)')
    BY DEF CountdownExact
  <2>k. linked' \subseteq Threads
    BY TypeStep DEF TypeOK
  <2>5. \A v \in Threads : v \in Late(z)' <=> v \in Late(z)
    BY <2>1 DEF Late
  <2>6. requester[z] \in Threads \ {t}
    BY <2>1, <2>2, Requester DEF Stopping
  <2>7. Scanned(z)' = Scanned(z)
    BY <2>1, <2>2, <2>6 DEF Scanned
  <2>8. \A v \in Threads : v \in Waited(z)' <=> v \in Waited(z) /\ v # t
    BY <2>1, <2>2 DEF Waited, Affected
  <2>9. CASE t \in Waited(z)
    <3>1. Waited(z)' = Waited(z) \ {t} /\ Late(z)' = Late(z)
      BY <2>k, <2>5, <2>8 DEF Waited, Affected, Late, Inv, TypeOK
    <3>2. countdown'[z] = countdown[z] - 1
      BY <1>26, <2>2, <2>9, DeleteCounts
    <3> QED
      BY <2>2, <2>7, <2>9, <3>1, <3>2, CountOne
  <2>10. CASE t \notin Waited(z)
    <3>1. countdown'[z] = countdown[z]
      BY <1>26, <2>10, DeleteCounts
    <3> QED
      BY <2>2, <2>5, <2>7, <2>8, <2>10, <2>k, <3>1, CountKept
  <2> QED
    BY <2>9, <2>10
<1>27. ASSUME NEW t \in Threads, RemoveExcept(t) PROVE CountdownExact'
  <2>1. /\ linked' \subseteq linked /\ stw' = stw /\ countdown' = countdown /\ parked' = parked
        /\ requested' = requested /\ requester' = requester /\ state' = state /\ t \notin linked \ linked'
        /\ pc[t] = "stopped" /\ stw[t] = GLOBAL /\ pc'[t] = "removed"
        /\ \A v \in Threads \ {t} : pc'[v] = pc[v]
    BY <1>27 DEF RemoveExcept, Goto, stwVars, Inv, TypeOK
  <2>2. GLOBAL \in Stops /\ requester[GLOBAL] = t /\ stopped[GLOBAL]
    BY <2>1, StopTheWorldAssumption DEF Inv, RequestInv, Stopping, Stops
  <2>3. \A v \in linked \ {t} : state[v] = "suspended"
    BY <2>2, StoppedFacts DEF Concerns
  <2> SUFFICES ASSUME NEW z \in Stops, requested'[z]
               PROVE  countdown'[z] = Scanned(z)' + Cardinality(Waited(z)') + Cardinality(Late(z)')
    BY DEF CountdownExact
  <2>k. linked' \subseteq Threads
    BY TypeStep DEF TypeOK
  <2>5. \A v \in Threads : v \in Late(z)' <=> v \in Late(z)
    BY <2>1 DEF Late
  <2>6. requester[z] \in Threads
    BY <2>1, Requester
  <2>7. Scanned(z)' = Scanned(z)
    BY <2>1, <2>6 DEF Scanned
  <2>9. \A v \in Threads : v \in Waited(z)' <=> v \in Waited(z)
    BY <2>1, <2>3 DEF Waited, Affected
  <2> QED
    BY <2>1, <2>5, <2>7, <2>9, <2>k, CountKept
<1>28. ASSUME NEW t \in Threads, NEW s \in Stops, Stop(t, s) PROVE CountdownExact'
  <2>1. /\ linked' = linked /\ requested' = requested /\ requester' = requester
        /\ countdown' = countdown /\ parked' = parked
    BY <1>28 DEF Stop, Goto, SetState, stwVars, lockVars, local
  <2>2. \A v \in Threads : state'[v] = "suspended" <=> state[v] = "suspended"
    BY <1>28 DEF Stop, Goto, SetState, stwVars, lockVars, local, Inv, TypeOK, StateInv, Inside, Places
  <2>3. /\ \A v \in Threads : pc'[v] = "count" <=> pc[v] = "count"
        /\ \A v \in Threads : pc[v] = "count" => stw'[v] = stw[v]
        /\ \A v \in Threads : pc'[v] = "scan" <=> pc[v] = "scan"
    BY <1>28 DEF Stop, Goto, SetState, stwVars, lockVars, local, Inv, TypeOK
  <2> QED
    BY <2>1, <2>2, <2>3, CountQuiet
<1>29. ASSUME NEW t \in Threads, NEW u \in Threads, Drop(t, u) PROVE CountdownExact'
  <2>1. /\ linked' = linked \ {u} /\ stw' = stw /\ parked' = parked
        /\ pc[u] \in {"run", "out"} /\ pc'[u] = "none"
        /\ \A v \in Threads \ {u} : state'[v] = state[v] /\ pc'[v] = pc[v]
    BY <1>29, DeleteFacts DEF Delete, SetState, Goto, local, Inv, TypeOK
  <2>2. requested' = requested /\ requester' = requester
    BY <1>29, DeleteCounts
  <2> SUFFICES ASSUME NEW z \in Stops, requested'[z]
               PROVE  countdown'[z] = Scanned(z)' + Cardinality(Waited(z)') + Cardinality(Late(z)')
    BY DEF CountdownExact
  <2>k. linked' \subseteq Threads
    BY TypeStep DEF TypeOK
  <2>5. \A v \in Threads : v \in Late(z)' <=> v \in Late(z)
    BY <2>1 DEF Late
  <2>6. requester[z] \in Threads \ {u}
    BY <2>1, <2>2, Requester DEF Stopping
  <2>7. Scanned(z)' = Scanned(z)
    BY <2>1, <2>2, <2>6 DEF Scanned
  <2>8. \A v \in Threads : v \in Waited(z)' <=> v \in Waited(z) /\ v # u
    BY <2>1, <2>2 DEF Waited, Affected
  <2>9. CASE u \in Waited(z)
    <3>1. Waited(z)' = Waited(z) \ {u} /\ Late(z)' = Late(z)
      BY <2>k, <2>5, <2>8 DEF Waited, Affected, Late, Inv, TypeOK
    <3>2. countdown'[z] = countdown[z] - 1
      BY <1>29, <2>2, <2>9, DeleteCounts
    <3> QED
      BY <2>2, <2>7, <2>9, <3>1, <3>2, CountOne
  <2>10. CASE u \notin Waited(z)
    <3>1. countdown'[z] = countdown[z]
      BY <1>29, <2>10, DeleteCounts
    <3> QED
      BY <2>2, <2>5, <2>7, <2>8, <2>10, <2>k, <3>1, CountKept
  <2> QED
    BY <2>9, <2>10
<1> QED
  BY <1>1, <1>2, <1>3, <1>4, <1>5, <1>6, <1>7, <1>8, <1>9, <1>10, <1>11, <1>12, <1>13, <1>14, <1>15, <1>16, <1>17, <1>18, <1>19, <1>20, <1>21, <1>22, <1>23, <1>24, <1>25, <1>26, <1>27, <1>28, <1>29 DEF Next, Step

-----------------------------------------------------------------------------
LEMMA InitInv == Init => Inv
<1> SUFFICES ASSUME Init PROVE Inv
  OBVIOUS
<1>1. TypeOK
  BY StopTheWorldAssumption DEF Init, TypeOK, States, Places
<1>2. \A t \in Threads : pc[t] \in {"out", "none"} /\ next[t] = "run" /\ state[t] = "detached"
  BY DEF Init
<1>3. \A t \in Threads : ~ HasRW(t) /\ ~ HasMutex(t)
  BY <1>2 DEF HasRW, HasMutex, Attaching, Stopping
<1>4. HeadInv /\ MutexInv /\ RWInv /\ NextInv
  BY <1>2, <1>3, StopTheWorldAssumption DEF Init, HeadInv, MutexInv, RWInv, NextInv
<1>5. RequestInv /\ LateInv /\ TodoInv
  BY <1>2, StopTheWorldAssumption DEF Init, RequestInv, LateInv, TodoInv, Stopping
<1>6. StateInv
  BY <1>2, <1>3, StopTheWorldAssumption DEF Init, StateInv, Inside
<1>7. SuspendedHasWaker /\ CountdownExact /\ EventInv
  BY <1>2 DEF Init, SuspendedHasWaker, CountdownExact, EventInv
<1> QED
  BY <1>1, <1>4, <1>5, <1>6, <1>7 DEF Inv

(* The invariant holds, and with it the properties that the run checks.    *)
THEOREM Invariance == Spec => []Inv
<1>1. Init => Inv
  BY InitInv
<1>2. Inv /\ [Next]_vars => Inv'
  <2> SUFFICES ASSUME Inv, [Next]_vars PROVE Inv'
    OBVIOUS
  <2>1. TypeOK' /\ HeadInv' /\ MutexInv' /\ RWInv' /\ NextInv' /\ RequestInv'
    BY TypeStep, HeadStep, MutexStep, RWStep, NextStep, RequestStep
  <2>2. StateInv' /\ TodoInv' /\ LateInv'
    BY StateStep, TodoStep, LateStep
  <2>3. SuspendedHasWaker' /\ CountdownExact' /\ EventInv'
    BY <2>2, SuspendStep, CountStep, EventStep
  <2> QED
    BY <2>1, <2>2, <2>3 DEF Inv
<1> QED
  BY <1>1, <1>2, PTL DEF Spec

-----------------------------------------------------------------------------
(* The refinement: worlds that stop and start at once.                     *)

LEMMA Stands == Inv => WorldStands
<1> SUFFICES ASSUME Inv, NEW s \in Stops, NEW u \in Threads, stopped[s], Concerns(s, u), u # requester[s]
             PROVE  state[u] # "attached"
  BY DEF WorldStands, Concerns
<1>1. CASE u \in linked
  BY <1>1, StoppedFacts
<1>2. CASE u \notin linked
  BY <1>2 DEF Inv, StateInv, TodoInv
<1> QED
  BY <1>1, <1>2

(* A thread that finalization has removed and that has still to hang.      *)
Gone(t) == pc[t] # "none" /\ t \notin linked

SameThread(u) == (state'[u] = "attached" <=> state[u] = "attached") /\ (Gone(u)' <=> Gone(u))
SameStop(s) == stopped'[s] = stopped[s] /\ (stopped[s] => requester'[s] = requester[s])

LEMMA WorldQuiet ==
  ASSUME \A u \in Threads : SameThread(u), \A s \in Stops : SameStop(s)
  PROVE  UNCHANGED World!vars
BY DEF World!vars, SameThread, SameStop, Gone

(* Only who has stopped a world is its stopper.                            *)
LEMMA StopperIs ==
  ASSUME Inv, NEW t \in Threads, pc[t] \notin {"stopped", "removed"}
  PROVE  ~ World!HasStopped(t) /\ \A s \in Stops : stopped[s] => requester[s] # t
<1>1. \A s \in Stops : stopped[s] => requester[s] # t
  BY DEF Inv, RequestInv
<1> QED
  BY <1>1, StopTheWorldAssumption DEF World!HasStopped

LEMMA WorldAttach ==
  ASSUME Inv, WorldStands', NEW t \in Threads, pc[t] = "attach", state[t] = "detached",
         state'[t] = "attached", Gone(t)' <=> Gone(t),
         \A u \in Threads \ {t} : SameThread(u), UNCHANGED stwVars
  PROVE  [World!Next]_World!vars
<1>1. ~ World!Stopped(t)
  BY StopperIs, StopTheWorldAssumption
     DEF World!Stopped, World!Concerns, WorldStands, stwVars
<1>2. ~ Gone(t)
  BY DEF Gone, Inv, StateInv, TodoInv
<1>3. World!Attach(t)
  BY <1>1, <1>2 DEF World!Attach, SameThread, Gone, stwVars
<1> QED
  BY <1>3 DEF World!Next

LEMMA WorldDetach ==
  ASSUME Inv, NEW t \in Threads, pc[t] \in Inside \ {"stopped", "removed"},
         state'[t] # "attached", Gone(t)' <=> Gone(t),
         \A u \in Threads \ {t} : SameThread(u), \A s \in Stops : SameStop(s)
  PROVE  [World!Next]_World!vars
<1>1. state[t] = "attached" /\ ~ World!HasStopped(t)
  BY StopperIs DEF Inv, StateInv
<1>2. World!Detach(t)
  BY <1>1 DEF World!Detach, SameThread, SameStop, Gone
<1> QED
  BY <1>2 DEF World!Next

LEMMA WorldStop ==
  ASSUME Inv, WorldStands', NEW t \in Threads, NEW s \in Stops,
         pc[t] \in Inside \ {"stopped", "removed"}, ~ stopped[s], stopped'[s], requester'[s] = t,
         \A u \in Threads : SameThread(u), \A r \in Stops \ {s} : SameStop(r)
  PROVE  [World!Next]_World!vars
<1>1. state[t] = "attached" /\ ~ World!HasStopped(t)
  BY StopperIs DEF Inv, StateInv
<1>2. \A u \in Threads : state[u] = "attached" /\ World!Concerns(s, u) => u = t
  BY DEF WorldStands, World!Concerns, SameThread
<1>3. World!Stop(t, s)
  BY <1>1, <1>2 DEF World!Stop, SameThread, SameStop, Gone
<1> QED
  BY <1>3 DEF World!Next

LEMMA WorldStart ==
  ASSUME Inv, NEW t \in Threads, NEW s \in Stops,
         stopped[s], requester[s] = t, ~ stopped'[s],
         \A u \in Threads : SameThread(u), \A r \in Stops \ {s} : SameStop(r)
  PROVE  [World!Next]_World!vars
<1>1. World!Start(t, s)
  BY DEF World!Start, SameThread, SameStop, Gone
<1> QED
  BY <1>1 DEF World!Next

LEMMA WorldRemove ==
  ASSUME Inv, NEW t \in Threads, NEW others \in SUBSET Threads, t \notin others,
         stopped[GLOBAL], requester[GLOBAL] = t,
         \A u \in Threads : state'[u] = state[u] /\ (Gone(u)' <=> Gone(u) \/ u \in others),
         \A s \in Stops : SameStop(s)
  PROVE  [World!Next]_World!vars
<1>1. World!Remove(t, others)
  BY DEF World!Remove, SameStop, Gone, Stops
<1> QED
  BY <1>1 DEF World!Next

(* One step of a thread is one step of the worlds, or none.                *)
LEMMA QuietStep ==
  ASSUME Inv, NEW t \in Threads,
         \/ New(t) \/ Return(t) \/ HandlePending(t) \/ Suspend(t) \/ Count(t)
         \/ (\E s \in Stops : Stop(t, s)) \/ RetryRW(t) \/ RetryMutex(t)
         \/ TimedOut(t) \/ ScanAgain(t) \/ UnlockMutex(t) \/ UnlockRW(t)
  PROVE  (\A u \in Threads : SameThread(u)) /\ (\A s \in Stops : SameStop(s))
<1>0. /\ pc \in [Threads -> Places] /\ state \in [Threads -> States]
      /\ linked \subseteq Threads
  BY DEF Inv, TypeOK
<1> USE DEF SameThread, SameStop, Gone, Goto, SetState, stwVars
<1>1. CASE New(t)
  BY <1>0, <1>1 DEF New, Inv, StateInv, Inside
<1>2. CASE Return(t)
  BY <1>0, <1>2 DEF Return
<1>3. CASE HandlePending(t)
  BY <1>0, <1>3 DEF HandlePending
<1>4. CASE Suspend(t)
  BY <1>0, <1>4 DEF Suspend
<1>5. CASE Count(t)
  BY <1>0, <1>5 DEF Count, CountDown
<1>6. CASE \E s \in Stops : Stop(t, s)
  BY <1>0, <1>6 DEF Stop
<1>7. CASE RetryRW(t)
  BY <1>0, <1>7 DEF RetryRW, AttachTo
<1>8. CASE RetryMutex(t)
  BY <1>0, <1>8 DEF RetryMutex, AttachTo
<1>9. CASE TimedOut(t)
  BY <1>0, <1>9 DEF TimedOut
<1>10. CASE ScanAgain(t)
  BY <1>0, <1>10 DEF ScanAgain, StartScan
<1>11. CASE UnlockMutex(t)
  BY <1>0, <1>11 DEF UnlockMutex
<1>12. CASE UnlockRW(t)
  BY <1>0, <1>12 DEF UnlockRW
<1> QED
  BY <1>1, <1>2, <1>3, <1>4, <1>5, <1>6, <1>7, <1>8, <1>9, <1>10, <1>11, <1>12

LEMMA QuietWake ==
  ASSUME Inv, NEW t \in Threads, NEW u \in Threads,
         Scan(t, u) \/ SetShuttingDown(t, u) \/ Wake(t, u) \/ Drop(t, u)
  PROVE  (\A r \in Threads : SameThread(r)) /\ (\A s \in Stops : SameStop(s))
<1>0. /\ pc \in [Threads -> Places] /\ state \in [Threads -> States]
      /\ linked \subseteq Threads
  BY DEF Inv, TypeOK
<1> USE DEF SameThread, SameStop, Gone, Goto, SetState, stwVars
<1>1. CASE Scan(t, u)
  BY <1>0, <1>1 DEF Scan
<1>2. CASE SetShuttingDown(t, u)
  <2>1. state[u] = "suspended"
    BY <1>2 DEF SetShuttingDown, Inv, TodoInv
  <2> QED
    BY <1>0, <1>2, <2>1 DEF SetShuttingDown, UnparkAll
<1>3. CASE Wake(t, u)
  <2>1. state[u] = "suspended"
    BY <1>3 DEF Wake, Inv, TodoInv
  <2> QED
    BY <1>0, <1>3, <2>1 DEF Wake, UnparkAll
<1>4. CASE Drop(t, u)
  <2>1. state[u] # "attached"
    BY <1>4 DEF Drop, Inv, StateInv, Inside
  <2> QED
    BY <1>0, <1>4, <2>1 DEF Drop, Delete, CountDown
<1> QED
  BY <1>1, <1>2, <1>3, <1>4

LEMMA LeaveStep ==
  ASSUME Inv, NEW t \in Threads,
         \/ Detach(t) \/ Exit(t) \/ DetachSuspended(t)
         \/ WaitAt(t, "waitrw") /\ pc[t] = "rw"
         \/ WaitAt(t, "waitmutex") /\ pc[t] = "mutex"
  PROVE  [World!Next]_World!vars
<1>0. /\ pc \in [Threads -> Places] /\ state \in [Threads -> States]
      /\ linked \subseteq Threads
  BY DEF Inv, TypeOK
<1>1. pc[t] \in Inside \ {"stopped", "removed"}
  BY DEF Detach, Exit, DetachSuspended, Inside, Places
<1>2. t \in linked
  BY <1>1 DEF Inside, Inv, StateInv, TodoInv
<1>3. /\ state' = [state EXCEPT ![t] = state'[t]] /\ state'[t] # "attached"
      /\ pc' = [pc EXCEPT ![t] = pc'[t]]
      /\ \A s \in Stops : SameStop(s)
      /\ linked' = linked \/ (linked' = linked \ {t} /\ pc'[t] = "none")
  BY <1>0 DEF Detach, Exit, Delete, CountDown, DetachSuspended, WaitAt, SetState, Goto, SameStop, stwVars
<1>4. \A u \in Threads \ {t} : SameThread(u)
  BY <1>0, <1>3 DEF SameThread, Gone
<1>5. Gone(t)' <=> Gone(t)
  BY <1>2, <1>3 DEF Gone
<1> QED
  BY <1>1, <1>3, <1>4, <1>5, WorldDetach

LEMMA StepWorld ==
  ASSUME Inv, Inv', NEW t \in Threads,
         \/ Step(t) \/ HandlePending(t)
         \/ New(t) \/ Return(t) \/ Detach(t) \/ Exit(t) \/ RemoveExcept(t)
         \/ \E s \in Stops : Stop(t, s)
         \/ \E u \in Threads : Drop(t, u)
  PROVE  [World!Next]_World!vars
<1>0. /\ pc \in [Threads -> Places] /\ state \in [Threads -> States]
      /\ linked \subseteq Threads /\ stw \in [Threads -> Stops \union {NULL}]
      /\ stopped \in [Stops -> BOOLEAN] /\ requester \in [Stops -> Threads \union {NULL}]
  BY DEF Inv, TypeOK
<1>1. WorldStands'
  <2>1. Inv' => WorldStands'
    BY Stands, PTL
  <2> QED
    BY <2>1
<1> DEFINE s == stw[t]
<1>2. CASE \/ New(t) \/ Return(t) \/ HandlePending(t) \/ Suspend(t) \/ Count(t)
           \/ (\E r \in Stops : Stop(t, r)) \/ RetryRW(t) \/ RetryMutex(t)
           \/ TimedOut(t) \/ ScanAgain(t) \/ UnlockMutex(t) \/ UnlockRW(t)
  BY <1>2, QuietStep, WorldQuiet
<1>3. CASE \E u \in Threads : Scan(t, u) \/ SetShuttingDown(t, u) \/ Wake(t, u) \/ Drop(t, u)
  BY <1>3, QuietWake, WorldQuiet
<1>4. CASE \/ Detach(t) \/ Exit(t) \/ DetachSuspended(t)
           \/ WaitAt(t, "waitrw") /\ pc[t] = "rw"
           \/ WaitAt(t, "waitmutex") /\ pc[t] = "mutex"
  BY <1>4, LeaveStep
<1>5. CASE Attach(t)
  <2>1. /\ UNCHANGED stwVars /\ linked' = linked /\ pc[t] = "attach"
        /\ pc' = [pc EXCEPT ![t] = pc'[t]] /\ pc'[t] # "none"
    BY <1>0, <1>5 DEF Attach, Goto, Inv, TypeOK
  <2>2. Gone(t)' <=> Gone(t)
    BY <2>1 DEF Gone
  <2>3. CASE state[t] = "detached" /\ SetState(t, "attached")
    <3>1. \A u \in Threads \ {t} : SameThread(u)
      BY <1>0, <2>1, <2>3 DEF SameThread, Gone, SetState
    <3> QED
      BY <1>0, <1>1, <2>1, <2>2, <2>3, <3>1, WorldAttach DEF SetState
  <2>4. CASE state' = state
    <3>1. \A u \in Threads : SameThread(u)
      BY <1>0, <2>1, <2>2, <2>4 DEF SameThread, Gone
    <3>2. \A r \in Stops : SameStop(r)
      BY <2>1 DEF SameStop, stwVars
    <3> QED
      BY <3>1, <3>2, WorldQuiet
  <2> QED
    BY <1>5, <2>3, <2>4 DEF Attach
<1>6. CASE /\ UNCHANGED <<state, linked, stwVars>>
           /\ pc[t] # "none" /\ pc' = [pc EXCEPT ![t] = pc'[t]] /\ pc'[t] # "none"
  <2>1. \A u \in Threads : SameThread(u)
    BY <1>0, <1>6 DEF SameThread, Gone
  <2>2. \A r \in Stops : SameStop(r)
    BY <1>6 DEF SameStop, stwVars
  <2> QED
    BY <2>1, <2>2, WorldQuiet
<1>7. CASE LockRW(t)
  <2>1. CASE RWFree(t)
    BY <1>0, <1>6, <1>7, <2>1 DEF LockRW, Goto
  <2>2. CASE ~ RWFree(t)
    BY <1>4, <1>7, <2>2 DEF LockRW
  <2> QED
    BY <2>1, <2>2
<1>8. CASE LockMutex(t)
  <2>1. CASE mutex[s] = NULL
    BY <1>0, <1>6, <1>8, <2>1 DEF LockMutex, Goto
  <2>2. CASE mutex[s] # NULL
    BY <1>4, <1>8, <2>2 DEF LockMutex
  <2> QED
    BY <2>1, <2>2
(* The steps of a requester, that has its stop to itself.                  *)
<1>9. CASE Request(t) \/ ScanEnd(t) \/ EventSet(t)
  <2>1. /\ pc[t] \in {"request", "scan", "event"} /\ UNCHANGED <<state, linked>>
        /\ pc' = [pc EXCEPT ![t] = pc'[t]] /\ pc'[t] # "none"
    BY <1>0, <1>9 DEF Request, ScanEnd, EventSet, WorldStopped, StartScan, Goto
  <2>2. HasMutex(t) /\ s \in Stops
    BY <2>1, StopTheWorldAssumption DEF HasMutex, Stopping, HasRW, Inv, NextInv, Stops
  <2>3. ~ stopped[s]
    <3>1. stopped[s] => requester[s] \in Threads /\ pc[requester[s]] \in {"stopped", "removed"}
                         /\ stw[requester[s]] = s
      BY <1>0, <2>2 DEF Inv, RequestInv
    <3>2. stopped[s] => mutex[s] = requester[s]
      BY <2>2, <3>1 DEF Inv, MutexInv, HasMutex, Stopping
    <3>3. mutex[s] = t
      BY <2>2 DEF Inv, MutexInv
    <3> QED
      BY <2>1, <3>1, <3>2, <3>3
  <2>4. requester'[s] = t
    <3>1. CASE Request(t)
      BY <1>0, <2>2, <3>1 DEF Request
    <3>2. CASE ScanEnd(t) \/ EventSet(t)
      BY <2>1, <2>2, <3>2 DEF ScanEnd, EventSet, Inv, RequestInv, Stopping
    <3> QED
      BY <1>9, <3>1, <3>2
  <2>5. \A u \in Threads : SameThread(u)
    BY <1>0, <2>1 DEF SameThread, Gone
  <2>6. \A r \in Stops \ {s} : SameStop(r)
    BY <1>0, <1>9, <2>2 DEF SameStop, Request, ScanEnd, EventSet, WorldStopped
  <2>7. CASE stopped'[s]
    BY <1>1, <2>1, <2>2, <2>3, <2>4, <2>5, <2>6, <2>7, WorldStop DEF Inside, Places
  <2>8. CASE ~ stopped'[s]
    <3>1. SameStop(s)
      BY <1>0, <2>2, <2>3, <2>8 DEF SameStop, Inv, TypeOK
    <3> QED
      BY <2>5, <2>6, <3>1, WorldQuiet
  <2> QED
    BY <2>7, <2>8
<1>10. CASE Start(t)
  <2>1. /\ pc[t] \in {"stopped", "removed"} /\ UNCHANGED <<state, linked, requester>>
        /\ stopped' = [stopped EXCEPT ![s] = FALSE]
        /\ pc' = [pc EXCEPT ![t] = "start"]
    BY <1>10 DEF Start, Goto
  <2>2. s \in Stops
    BY <2>1, StopTheWorldAssumption DEF HasMutex, Stopping, HasRW, Inv, NextInv, Stops
  <2>3. requester[s] = t /\ stopped[s]
    BY <2>1, <2>2, StopTheWorldAssumption DEF Inv, RequestInv, Stopping
  <2>4. ~ stopped'[s] /\ \A r \in Stops \ {s} : SameStop(r)
    BY <1>0, <2>1, <2>2 DEF SameStop
  <2>5. \A u \in Threads : SameThread(u)
    BY <1>0, <2>1 DEF SameThread, Gone
  <2> QED
    BY <2>2, <2>3, <2>4, <2>5, WorldStart
<1>11. CASE StartEnd(t)
  <2>1. /\ pc[t] = "start" /\ UNCHANGED <<state, linked, stopped>>
        /\ requester' = [requester EXCEPT ![s] = NULL]
        /\ pc' = [pc EXCEPT ![t] = "unmutex"]
    BY <1>11 DEF StartEnd, Goto
  <2>2. s \in Stops
    BY <2>1, StopTheWorldAssumption DEF HasMutex, Stopping, HasRW, Inv, NextInv, Stops
  <2>3. requester[s] = t /\ ~ stopped[s]
    BY <2>1, <2>2, StopTheWorldAssumption DEF Inv, RequestInv, Stopping
  <2>4. \A r \in Stops : SameStop(r)
    BY <1>0, <2>1, <2>2, <2>3 DEF SameStop
  <2>5. \A u \in Threads : SameThread(u)
    BY <1>0, <2>1 DEF SameThread, Gone
  <2> QED
    BY <2>4, <2>5, WorldQuiet
<1>12. CASE RemoveExcept(t)
  <2> DEFINE others == {u \in linked \ {t} : Interp[u] = Interp[t]}
  <2>1. /\ pc[t] = "stopped" /\ s = GLOBAL /\ UNCHANGED <<state, stwVars>>
        /\ linked' = linked \ others
        /\ pc' = [pc EXCEPT ![t] = "removed"]
    BY <1>12 DEF RemoveExcept, Goto
  <2>2. GLOBAL \in Stops
    BY DEF Stops
  <2>3. requester[GLOBAL] = t /\ stopped[GLOBAL]
    BY <2>1, <2>2, StopTheWorldAssumption DEF Inv, RequestInv, Stopping
  <2>4. \A r \in Stops : SameStop(r)
    BY <2>1 DEF SameStop, stwVars
  <2>5. \A u \in Threads : state'[u] = state[u] /\ (Gone(u)' <=> Gone(u) \/ u \in others)
    BY <1>0, <2>1 DEF Gone, Inv, StateInv
  <2>6. others \in SUBSET Threads /\ t \notin others
    BY <1>0
  <2> HIDE DEF others
  <2> QED
    BY <2>3, <2>4, <2>5, <2>6, WorldRemove
<1> QED
  BY <1>2, <1>3, <1>4, <1>5, <1>7, <1>8, <1>9, <1>10, <1>11, <1>12 DEF Step

LEMMA InitWorld == Init => World!Init
BY StopTheWorldAssumption DEF Init, World!Init

(* Scans, countdowns and state words implement worlds that stop and start  *)
(* at once.                                                                *)
THEOREM Implementation == Spec => ImplementsWorld
<1>1. Inv /\ Inv' /\ [Next]_vars => [World!Next]_World!vars
  <2> SUFFICES ASSUME Inv, Inv', [Next]_vars PROVE [World!Next]_World!vars
    OBVIOUS
  <2>1. CASE UNCHANGED vars
    BY <2>1 DEF vars, stwVars, World!vars
  <2>2. CASE Next
    BY <2>2, StepWorld DEF Next
  <2> QED
    BY <2>1, <2>2
<1> QED
  BY <1>1, InitWorld, Invariance, PTL DEF Spec, ImplementsWorld, World!Spec

(* While the world is stopped nobody concerned but the requester is        *)
(* attached.                                                               *)
THEOREM WorldStandsHolds == Spec => []WorldStands
BY Stands, Invariance, PTL

(* A stop counts down exactly those it waits for.                          *)
THEOREM CountdownExactHolds == Spec => []CountdownExact
<1>1. Inv => CountdownExact
  BY DEF Inv
<1> QED
  BY <1>1, Invariance, PTL

(* Whoever is suspended is on the list of somebody who lets it go.         *)
THEOREM SuspendedHasWakerHolds == Spec => []SuspendedHasWaker
<1>1. Inv => SuspendedHasWaker
  BY DEF Inv
<1> QED
  BY <1>1, Invariance, PTL

(* A thread that is told to hang at finalization holds no lock of the      *)
(* protocol.                                                               *)
THEOREM HungHoldNothingHolds == Spec => []HungHoldNothing
<1>1. Inv => HungHoldNothing
  <2> SUFFICES ASSUME Inv, NEW t \in Threads, state[t] = "shutting_down"
               PROVE  /\ t # headLock /\ t # writer /\ t \notin readers
                      /\ \A s \in Stops : mutex[s] # t
    BY DEF HungHoldNothing
  <2>1. ~ HasRW(t)
    BY DEF Inv, StateInv
  <2>2. ~ HasMutex(t) /\ pc[t] \notin {"scan", "start"}
    BY <2>1 DEF HasRW, HasMutex, Stopping
  <2> QED
    BY <2>1, <2>2, StopTheWorldAssumption DEF Inv, HeadInv, MutexInv, RWInv
<1> QED
  BY <1>1, Invariance, PTL

=============================================================================
