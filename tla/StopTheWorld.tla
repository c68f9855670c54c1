---------------------------- MODULE StopTheWorld -----------------------------
(***************************************************************************)
(* Thread states of the free-threaded build and the stop-the-world         *)
(* protocol (Python/pystate.c): threads attach and detach by the state     *)
(* word of their thread state, and a thread stops the others of its        *)
(* interpreter, or of all interpreters, and starts them again.             *)
(*                                                                         *)
(* One action reads or writes shared state once.  HEAD_LOCK, the rwmutex   *)
(* and the mutexes are what RWMutex and PyMutex promise; a thread detaches *)
(* when it has to wait for them, but not for HEAD_LOCK.  Parking on a      *)
(* state word is one action, as ParkingLot allows.  So are the store of a  *)
(* state word and the UnparkAll after it (Wake, SetShuttingDown): between  *)
(* them only the thread itself can be asleep there, and nobody can begin   *)
(* to sleep on a word that no longer says "suspended".  The GIL is         *)
(* disabled.                                                               *)
(***************************************************************************)
EXTENDS Naturals, FiniteSets

CONSTANTS
  Threads,    \* thread states, each with the OS thread that is bound to it
  Interps,
  Interp,     \* the interpreter of a thread state
  GLOBAL,     \* the stop-the-world state of the runtime
  NULL,
  Started,    \* the thread states at the beginning
  Stoppers    \* bound: which stops each thread may ask for

ASSUME StopTheWorldAssumption ==
  /\ Interp \in [Threads -> Interps]
  /\ GLOBAL \notin Interps /\ NULL \notin Interps \union {GLOBAL}
  /\ NULL \notin Threads /\ IsFiniteSet(Threads)
  /\ Started \subseteq Threads
  /\ Stoppers \in [Threads -> SUBSET (Interps \union {GLOBAL})]
  /\ \A t \in Threads : Stoppers[t] \subseteq {Interp[t], GLOBAL}

VARIABLES
  \* shared
  state,      \* tstate->state
  linked,     \* the thread states in the lists of the interpreters
  please,     \* threads with _PY_EVAL_PLEASE_STOP_BIT
  requested, stopped, countdown, event, requester,   \* struct _stoptheworld_state
  headLock,   \* who holds HEAD_LOCK
  readers, writer,   \* who holds runtime->stoptheworld_mutex
  mutex,      \* who holds the mutex of a stop
  \* of each thread
  pc,
  stw,        \* the stop it takes part in, or NULL
  next,       \* where it goes on once it is attached
  todo,       \* the thread states its loop has still to visit
  parked      \* num_parked

stwVars == <<requested, stopped, countdown, event, requester>>
lockVars == <<headLock, readers, writer, mutex>>
local == <<stw, next, todo, parked>>
vars == <<state, linked, please, stwVars, lockVars, pc, local>>

Stops == Interps \union {GLOBAL}
States == {"detached", "attached", "suspended", "shutting_down"}

(* "run": executing Python or C code with the thread state attached;       *)
(* "out": outside of the interpreter; "asleep": parked on the state word;  *)
(* "rw" and "mutex": wants a lock; "waitrw" and "waitmutex": waits for it. *)
Places ==
  {"none", "run", "out", "suspend", "detach", "count", "attach", "asleep", "hung",
   "rw", "waitrw", "mutex", "waitmutex", "request", "scan", "event", "again", "stopped",
   "removed", "start", "unmutex", "unrw"}

(* For whom _Py_FOR_EACH_STW_INTERP and _Py_FOR_EACH_TSTATE loop.          *)
Affected(s) == {t \in linked : s = GLOBAL \/ Interp[t] = s}

TypeOK ==
  /\ state \in [Threads -> States]
  /\ linked \subseteq Threads
  /\ please \subseteq Threads
  /\ requested \in [Stops -> BOOLEAN]
  /\ stopped \in [Stops -> BOOLEAN]
  /\ countdown \in [Stops -> Nat]
  /\ event \in [Stops -> BOOLEAN]
  /\ requester \in [Stops -> Threads \union {NULL}]
  /\ headLock \in Threads \union {NULL}
  /\ readers \subseteq Threads
  /\ writer \in Threads \union {NULL}
  /\ mutex \in [Stops -> Threads \union {NULL}]
  /\ pc \in [Threads -> Places]
  /\ stw \in [Threads -> Stops \union {NULL}]
  /\ next \in [Threads -> {"run", "rw", "mutex", "request"}]
  /\ todo \in [Threads -> SUBSET Threads]
  /\ parked \in [Threads -> Nat]

Init ==
  /\ state = [t \in Threads |-> "detached"]
  /\ linked = Started
  /\ please = {}
  /\ requested = [s \in Stops |-> FALSE]
  /\ stopped = [s \in Stops |-> FALSE]
  /\ countdown = [s \in Stops |-> 0]
  /\ event = [s \in Stops |-> FALSE]
  /\ requester = [s \in Stops |-> NULL]
  /\ headLock = NULL
  /\ readers = {}
  /\ writer = NULL
  /\ mutex = [s \in Stops |-> NULL]
  /\ pc = [t \in Threads |-> IF t \in Started THEN "out" ELSE "none"]
  /\ stw = [t \in Threads |-> NULL]
  /\ next = [t \in Threads |-> "run"]
  /\ todo = [t \in Threads |-> {}]
  /\ parked = [t \in Threads |-> 0]

Goto(t, place) == pc' = [pc EXCEPT ![t] = place]
SetState(t, s) == state' = [state EXCEPT ![t] = s]

(* decrement_stoptheworld_countdown, of all stops in S.                    *)
CountDown(S) ==
  /\ countdown' = [s \in Stops |-> IF s \in S THEN countdown[s] - 1 ELSE countdown[s]]
  /\ event' = [s \in Stops |-> event[s] \/ (s \in S /\ countdown[s] = 1)]
  /\ UNCHANGED <<requested, stopped, requester>>

(* The stops that a thread state of interpreter i takes part in.           *)
Requests(i) == {s \in {i, GLOBAL} : requested[s]}

(* _PyParkingLot_UnparkAll of u's state word, as t moves on.               *)
UnparkAll(u) == pc' = IF pc[u] = "asleep" THEN [pc EXCEPT ![u] = "attach"] ELSE pc

-----------------------------------------------------------------------------
(* Attach and detach *)

(* PyThreadState_New, by a thread that may have no thread state: suspended *)
(* if a stop is under way, which does not count it.                        *)
New(t) ==
  /\ pc[t] = "none"
  /\ headLock = NULL
  /\ linked' = linked \union {t}
  /\ SetState(t, IF Requests(Interp[t]) = {} THEN "detached" ELSE "suspended")
  /\ Goto(t, "out")
  /\ UNCHANGED <<please, stwVars, lockVars, local>>

Return(t) ==
  /\ pc[t] = "out"
  /\ Goto(t, "attach")
  /\ UNCHANGED <<state, linked, please, stwVars, lockVars, local>>

(* _PyThreadState_Attach, tstate_wait_attach: the compare-exchange, a park *)
(* on the state word, or the end of a thread that must not go on.          *)
Attach(t) ==
  /\ pc[t] = "attach"
  /\ \/ /\ state[t] = "detached" /\ SetState(t, "attached")
        /\ Goto(t, next[t]) /\ next' = [next EXCEPT ![t] = "run"]
     \/ state[t] = "suspended" /\ Goto(t, "asleep") /\ UNCHANGED <<state, next>>
     \/ state[t] = "shutting_down" /\ Goto(t, "hung") /\ UNCHANGED <<state, next>>
  /\ UNCHANGED <<linked, please, stwVars, lockVars, stw, todo, parked>>

(* _PyThreadState_Detach: around a call that blocks.                       *)
Detach(t) ==
  /\ pc[t] = "run"
  /\ SetState(t, "detached")
  /\ Goto(t, "out")
  /\ UNCHANGED <<linked, please, stwVars, lockVars, local>>

(* _Py_HandlePending: the thread is asked to stop.                         *)
HandlePending(t) ==
  /\ pc[t] = "run"
  /\ t \in please
  /\ please' = please \ {t}
  /\ Goto(t, "suspend")
  /\ UNCHANGED <<state, linked, stwVars, lockVars, local>>

(* Mutant of Suspend: the request it was asked for cannot be over.         *)
SuspendAnyway(t) ==
  /\ pc[t] = "suspend"
  /\ headLock = NULL
  /\ stw' = [stw EXCEPT ![t] = IF requested[GLOBAL] THEN GLOBAL ELSE Interp[t]]
  /\ Goto(t, "detach")
  /\ UNCHANGED <<state, linked, please, stwVars, lockVars, next, todo, parked>>

(* _PyThreadState_Suspend: which stop is it?  The request may be over.     *)
Suspend(t) ==
  /\ pc[t] = "suspend"
  /\ headLock = NULL
  /\ LET S == Requests(Interp[t])
     IN  stw' = [stw EXCEPT ![t] = IF GLOBAL \in S THEN GLOBAL
                                   ELSE IF S # {} THEN Interp[t] ELSE NULL]
  /\ Goto(t, "detach")
  /\ UNCHANGED <<state, linked, please, stwVars, lockVars, next, todo, parked>>

DetachSuspended(t) ==
  /\ pc[t] = "detach"
  /\ IF stw[t] = NULL THEN SetState(t, "detached") /\ Goto(t, "attach")
     ELSE SetState(t, "suspended") /\ Goto(t, "count")
  /\ UNCHANGED <<linked, please, stwVars, lockVars, local>>

Count(t) ==
  /\ pc[t] = "count"
  /\ headLock = NULL
  /\ CountDown({stw[t]})
  /\ stw' = [stw EXCEPT ![t] = NULL]
  /\ Goto(t, "attach")
  /\ UNCHANGED <<state, linked, please, lockVars, next, todo, parked>>

(* Mutant of Delete: a stop goes on waiting for it.                        *)
DeleteUncounted(u) ==
  /\ headLock = NULL
  /\ linked' = linked \ {u}
  /\ please' = please \ {u}
  /\ SetState(u, "detached")
  /\ Goto(u, "none")
  /\ UNCHANGED <<stwVars, lockVars, local>>

(* tstate_delete_common: no stop waits for a deleted thread state.         *)
Delete(u) ==
  /\ headLock = NULL
  /\ linked' = linked \ {u}
  /\ please' = please \ {u}
  /\ IF state[u] = "suspended" THEN UNCHANGED stwVars ELSE CountDown(Requests(Interp[u]))
  /\ SetState(u, "detached")
  /\ Goto(u, "none")
  /\ UNCHANGED <<lockVars, local>>

(* _PyThreadState_DeleteCurrent: the state word still says attached.       *)
Exit(t) == pc[t] = "run" /\ Delete(t)

(* PyThreadState_Delete of a thread state that no thread runs with.        *)
Drop(t, u) == pc[t] = "run" /\ pc[u] = "out" /\ u \in linked /\ Delete(u)

-----------------------------------------------------------------------------
(* stop_the_world *)

Stop(t, s) ==
  /\ pc[t] = "run"
  /\ s \in Stoppers[t]
  /\ stw' = [stw EXCEPT ![t] = s]
  /\ Goto(t, "rw")
  /\ UNCHANGED <<state, linked, please, stwVars, lockVars, next, todo, parked>>

(* The thread detaches while it waits for a lock.                          *)
WaitAt(t, place) ==
  /\ SetState(t, "detached")
  /\ Goto(t, place)
  /\ UNCHANGED <<linked, please, stwVars, lockVars, local>>

AttachTo(t, place) ==
  /\ next' = [next EXCEPT ![t] = place]
  /\ Goto(t, "attach")
  /\ UNCHANGED <<state, linked, please, stwVars, stw, todo, parked>>

(* May t have stoptheworld_mutex, for writing or for reading?              *)
RWFree(t) == writer = NULL /\ (stw[t] = GLOBAL => readers = {})

LockRW(t) ==
  /\ pc[t] = "rw"
  /\ \/ /\ RWFree(t)
        /\ IF stw[t] = GLOBAL THEN writer' = t /\ UNCHANGED readers
           ELSE readers' = readers \union {t} /\ UNCHANGED writer
        /\ Goto(t, "mutex")
        /\ UNCHANGED <<state, linked, please, stwVars, headLock, mutex, local>>
     \/ ~ RWFree(t) /\ WaitAt(t, "waitrw")

RetryRW(t) == pc[t] = "waitrw" /\ RWFree(t) /\ AttachTo(t, "rw") /\ UNCHANGED lockVars

LockMutex(t) ==
  /\ pc[t] = "mutex"
  /\ \/ /\ mutex[stw[t]] = NULL
        /\ mutex' = [mutex EXCEPT ![stw[t]] = t]
        /\ Goto(t, "request")
        /\ UNCHANGED <<state, linked, please, stwVars, headLock, readers, writer, local>>
     \/ mutex[stw[t]] # NULL /\ WaitAt(t, "waitmutex")

(* Woken to try again, or handed the mutex.                                *)
RetryMutex(t) ==
  /\ pc[t] = "waitmutex"
  /\ mutex[stw[t]] = NULL
  /\ \/ AttachTo(t, "mutex") /\ UNCHANGED mutex
     \/ AttachTo(t, "request") /\ mutex' = [mutex EXCEPT ![stw[t]] = t]
  /\ UNCHANGED <<headLock, readers, writer>>

(* park_detached_threads starts, with HEAD_LOCK.                           *)
StartScan(t) ==
  /\ headLock' = t
  /\ todo' = [todo EXCEPT ![t] = Affected(stw[t]) \ {t}]
  /\ parked' = [parked EXCEPT ![t] = 0]
  /\ Goto(t, "scan")

(* All other threads are counted, and if there is one the first scan       *)
(* follows under the same lock.                                            *)
Request(t) ==
  /\ pc[t] = "request"
  /\ headLock = NULL
  /\ LET s == stw[t]
         others == Affected(s) \ {t}
     IN  /\ requested' = [requested EXCEPT ![s] = TRUE]
         /\ event' = [event EXCEPT ![s] = FALSE]
         /\ requester' = [requester EXCEPT ![s] = t]
         /\ countdown' = [countdown EXCEPT ![s] = Cardinality(others)]
         /\ IF others = {}
            THEN /\ stopped' = [stopped EXCEPT ![s] = TRUE]
                 /\ Goto(t, "stopped")
                 /\ UNCHANGED <<headLock, todo, parked>>
            ELSE StartScan(t) /\ UNCHANGED stopped
  /\ UNCHANGED <<state, linked, please, readers, writer, mutex, stw, next>>

(* Mutant of Scan: who is detached now needs no asking.                    *)
ScanOnce(t, u) ==
  /\ pc[t] = "scan"
  /\ u \in todo[t]
  /\ todo' = [todo EXCEPT ![t] = @ \ {u}]
  /\ IF state[u] = "detached"
     THEN SetState(u, "suspended") /\ parked' = [parked EXCEPT ![t] = @ + 1]
     ELSE UNCHANGED <<state, parked>>
  /\ UNCHANGED <<linked, please, stwVars, lockVars, pc, stw, next>>

(* Detached threads are suspended, attached ones asked to stop.            *)
Scan(t, u) ==
  /\ pc[t] = "scan"
  /\ u \in todo[t]
  /\ todo' = [todo EXCEPT ![t] = @ \ {u}]
  /\ IF state[u] = "detached"
     THEN SetState(u, "suspended") /\ parked' = [parked EXCEPT ![t] = @ + 1]
     ELSE UNCHANGED <<state, parked>>
  /\ please' = IF state[u] = "attached" THEN please \union {u} ELSE please
  /\ UNCHANGED <<linked, stwVars, lockVars, pc, stw, next>>

WorldStopped(t) ==
  /\ stopped' = [stopped EXCEPT ![stw[t]] = TRUE]
  /\ Goto(t, "stopped")

(* Mutant of ScanEnd: the other threads are not counted down to zero.      *)
ScanEndEarly(t) ==
  /\ pc[t] = "scan"
  /\ todo[t] = {}
  /\ headLock' = NULL
  /\ countdown' = [countdown EXCEPT ![stw[t]] = @ - parked[t]]
  /\ IF parked[t] > 0 THEN WorldStopped(t) ELSE Goto(t, "event") /\ UNCHANGED stopped
  /\ parked' = [parked EXCEPT ![t] = 0]
  /\ UNCHANGED <<state, linked, please, requested, event, requester,
                 readers, writer, mutex, stw, next, todo>>

ScanEnd(t) ==
  /\ pc[t] = "scan"
  /\ todo[t] = {}
  /\ headLock' = NULL
  /\ countdown' = [countdown EXCEPT ![stw[t]] = @ - parked[t]]
  /\ IF parked[t] > 0 /\ countdown[stw[t]] = parked[t] THEN WorldStopped(t)
     ELSE Goto(t, "event") /\ UNCHANGED stopped
  /\ parked' = [parked EXCEPT ![t] = 0]
  /\ UNCHANGED <<state, linked, please, requested, event, requester,
                 readers, writer, mutex, stw, next, todo>>

(* PyEvent_WaitTimed, attached: the event is set, or it is time to scan.   *)
EventSet(t) ==
  /\ pc[t] = "event"
  /\ event[stw[t]]
  /\ WorldStopped(t)
  /\ UNCHANGED <<state, linked, please, requested, countdown, event, requester, lockVars, local>>

TimedOut(t) ==
  /\ pc[t] = "event"
  /\ ~ event[stw[t]]
  /\ Goto(t, "again")
  /\ UNCHANGED <<state, linked, please, stwVars, lockVars, local>>

ScanAgain(t) ==
  /\ pc[t] = "again"
  /\ headLock = NULL
  /\ StartScan(t)
  /\ UNCHANGED <<state, linked, please, stwVars, readers, writer, mutex, stw, next>>

-----------------------------------------------------------------------------
(* Finalization, in a stopped world: _PyThreadState_RemoveExcept, then     *)
(* _PyThreadState_SetShuttingDown of every thread state removed.           *)

RemoveExcept(t) ==
  /\ pc[t] = "stopped" /\ stw[t] = GLOBAL
  /\ headLock = NULL
  /\ LET removed == {u \in linked \ {t} : Interp[u] = Interp[t]}
     IN  /\ removed # {}
         /\ linked' = linked \ removed
         /\ todo' = [todo EXCEPT ![t] = removed]
  /\ Goto(t, "removed")
  /\ UNCHANGED <<state, please, stwVars, lockVars, stw, next, parked>>

SetShuttingDown(t, u) ==
  /\ pc[t] = "removed"
  /\ u \in todo[t]
  /\ SetState(u, "shutting_down")
  /\ UnparkAll(u)
  /\ todo' = [todo EXCEPT ![t] = @ \ {u}]
  /\ UNCHANGED <<linked, please, stwVars, lockVars, stw, next, parked>>

-----------------------------------------------------------------------------
(* start_the_world *)

Start(t) ==
  /\ \/ pc[t] = "stopped"
     \/ pc[t] = "removed" /\ todo[t] = {}
  /\ headLock = NULL
  /\ headLock' = t
  /\ requested' = [requested EXCEPT ![stw[t]] = FALSE]
  /\ stopped' = [stopped EXCEPT ![stw[t]] = FALSE]
  /\ todo' = [todo EXCEPT ![t] = Affected(stw[t]) \ {t}]
  /\ Goto(t, "start")
  /\ UNCHANGED <<state, linked, please, countdown, event, requester,
                 readers, writer, mutex, stw, next, parked>>

Wake(t, u) ==
  /\ pc[t] = "start"
  /\ u \in todo[t]
  /\ SetState(u, "detached")
  /\ UnparkAll(u)
  /\ todo' = [todo EXCEPT ![t] = @ \ {u}]
  /\ UNCHANGED <<linked, please, stwVars, lockVars, stw, next, parked>>

StartEnd(t) ==
  /\ pc[t] = "start"
  /\ todo[t] = {}
  /\ requester' = [requester EXCEPT ![stw[t]] = NULL]
  /\ headLock' = NULL
  /\ Goto(t, "unmutex")
  /\ UNCHANGED <<state, linked, please, requested, stopped, countdown, event,
                 readers, writer, mutex, local>>

UnlockMutex(t) ==
  /\ pc[t] = "unmutex"
  /\ mutex' = [mutex EXCEPT ![stw[t]] = NULL]
  /\ Goto(t, "unrw")
  /\ UNCHANGED <<state, linked, please, stwVars, headLock, readers, writer, local>>

(* Mutant of UnlockRW: releases the lock as if it were the only reader.    *)
UnlockRWForAll(t) ==
  /\ pc[t] = "unrw"
  /\ writer' = NULL /\ readers' = {}
  /\ stw' = [stw EXCEPT ![t] = NULL]
  /\ Goto(t, "run")
  /\ UNCHANGED <<state, linked, please, stwVars, headLock, mutex, next, todo, parked>>

UnlockRW(t) ==
  /\ pc[t] = "unrw"
  /\ IF stw[t] = GLOBAL THEN writer' = NULL /\ UNCHANGED readers
     ELSE readers' = readers \ {t} /\ UNCHANGED writer
  /\ stw' = [stw EXCEPT ![t] = NULL]
  /\ Goto(t, "run")
  /\ UNCHANGED <<state, linked, please, stwVars, headLock, mutex, next, todo, parked>>

-----------------------------------------------------------------------------
(* What a thread does once it is inside of one of these functions.         *)
Step(t) ==
  \/ Attach(t) \/ Suspend(t) \/ DetachSuspended(t) \/ Count(t)
  \/ LockRW(t) \/ RetryRW(t) \/ LockMutex(t) \/ RetryMutex(t)
  \/ Request(t) \/ ScanEnd(t) \/ EventSet(t) \/ TimedOut(t) \/ ScanAgain(t)
  \/ Start(t) \/ StartEnd(t) \/ UnlockMutex(t) \/ UnlockRW(t)
  \/ \E u \in Threads : Scan(t, u) \/ SetShuttingDown(t, u) \/ Wake(t, u)

Next ==
  \E t \in Threads :
    \/ Step(t) \/ HandlePending(t)
    \/ New(t) \/ Return(t) \/ Detach(t) \/ Exit(t) \/ RemoveExcept(t)
    \/ \E s \in Stops : Stop(t, s)
    \/ \E u \in Threads : Drop(t, u)

Spec == Init /\ [][Next]_vars

(* A thread that is asked to stop and runs again and again sees it, and    *)
(* HEAD_LOCK, a PyMutex, is had by who wants it.                           *)
Persist(t) == HandlePending(t) \/ Suspend(t) \/ Count(t) \/ ScanAgain(t)

FairSpec ==
  Spec /\ \A t \in Threads : WF_vars(Step(t)) /\ SF_vars(Persist(t))

-----------------------------------------------------------------------------
(* Properties *)

(* While the world is stopped nobody but the requester is attached: no     *)
(* thread of the interpreters concerned runs Python code or touches        *)
(* objects, whenever it was created, detached, came back or was removed.   *)
WorldStands ==
  \A s \in Stops, u \in Threads :
    stopped[s] /\ (s = GLOBAL \/ Interp[u] = s) /\ u # requester[s] => state[u] # "attached"

World == INSTANCE WorldSpec WITH
  attached <- {t \in Threads : state[t] = "attached"},
  stopper  <- [s \in Stops |-> IF stopped[s] THEN requester[s] ELSE NULL],
  removed  <- {t \in Threads : pc[t] # "none" /\ t \notin linked}

(* The state words, the scans and the countdowns implement worlds that     *)
(* stop and start at once, with everybody concerned but the one who stops  *)
(* them outside, and for ever if it is removed.                            *)
ImplementsWorld == World!Spec

(* Whom a stop still waits for: those not suspended, those that are but    *)
(* have not said so, and what the running scan has not yet taken off.      *)
Waited(s) == {u \in Affected(s) \ {requester[s]} : state[u] # "suspended"}
Late(s) == {u \in Threads : pc[u] = "count" /\ stw[u] = s}
Scanned(s) == IF pc[requester[s]] = "scan" THEN parked[requester[s]] ELSE 0

(* A stop counts exactly those it still waits for (the assertions of       *)
(* decrement_stoptheworld_countdown and park_detached_threads).            *)
CountdownExact ==
  \A s \in Stops :
    requested[s] => countdown[s] = Scanned(s) + Cardinality(Waited(s)) + Cardinality(Late(s))

(* Whoever is suspended will be let go: by the requester of a stop that    *)
(* concerns it, on whose list it still is (the assertion of                *)
(* start_the_world), or by the finalizing thread; so nobody sleeps on a    *)
(* state word for ever.                                                    *)
SuspendedHasWaker ==
  \A u \in Threads :
    /\ pc[u] = "asleep" => state[u] = "suspended"
    /\ state[u] = "suspended" =>
         \/ u \in linked /\ Requests(Interp[u]) # {}
         \/ \E t \in Threads : pc[t] \in {"start", "removed"} /\ u \in todo[t]
    /\ \A t \in Threads : pc[t] = "start" /\ u \in todo[t] => state[u] = "suspended"

(* A thread that hangs at finalization takes no lock of the protocol with  *)
(* it (gh-137433: "Acquire the rwmutex first to avoid deadlocks with       *)
(* daemon threads that may hang when blocked on lock acquisition").        *)
HungHoldNothing ==
  \A t \in Threads :
    state[t] = "shutting_down" =>
      /\ t # headLock /\ t # writer /\ t \notin readers
      /\ \A s \in Stops : mutex[s] # t

(* Every request is answered: the world stops, although threads attach,    *)
(* detach, end and are created meanwhile.                                  *)
StopsEnd == \A s \in Stops : requested[s] ~> stopped[s]

-----------------------------------------------------------------------------
(* The inductive invariant behind the safety properties above.             *)

(* Where a thread is inside of the interpreter, where it has asked for a   *)
(* stop, and from where to where it holds the locks of the protocol.       *)
Inside == Places \ {"none", "out", "count", "attach", "asleep", "hung", "waitrw", "waitmutex"}
Stopping == {"scan", "event", "again", "stopped", "removed"}
Attaching(t) == pc[t] \in {"attach", "asleep"}
HasMutex(t) ==
  \/ pc[t] \in Stopping \union {"request", "start", "unmutex"}
  \/ Attaching(t) /\ next[t] = "request"
HasRW(t) ==
  \/ HasMutex(t)
  \/ pc[t] \in {"mutex", "waitmutex", "unrw"}
  \/ Attaching(t) /\ next[t] = "mutex"

HeadInv == \A t \in Threads : headLock = t <=> pc[t] \in {"scan", "start"}

MutexInv == \A t \in Threads, s \in Stops : mutex[s] = t <=> HasMutex(t) /\ stw[t] = s

RWInv ==
  /\ \A t \in Threads : t \in readers <=> HasRW(t) /\ stw[t] # GLOBAL
  /\ \A t \in Threads : writer = t <=> HasRW(t) /\ stw[t] = GLOBAL
  /\ writer # NULL => readers = {}

(* A thread goes on where it waited, and knows which stop it is for.       *)
NextInv ==
  \A t \in Threads :
    /\ next[t] # "run" => pc[t] \in {"attach", "asleep", "hung"}
    /\ HasRW(t) \/ next[t] # "run" \/ pc[t] \in {"rw", "waitrw", "count"} =>
         stw[t] \in {Interp[t], GLOBAL}
    /\ pc[t] = "detach" => stw[t] \in {Interp[t], GLOBAL, NULL}
    /\ pc[t] = "removed" => stw[t] = GLOBAL

(* The state of a stop says how far its requester is.                      *)
RequestInv ==
  \A s \in Stops :
    /\ \A t \in Threads : requester[s] = t <=> stw[t] = s /\ pc[t] \in Stopping \union {"start"}
    /\ requested[s] <=> requester[s] # NULL /\ pc[requester[s]] \in Stopping
    /\ stopped[s] <=> requester[s] # NULL /\ pc[requester[s]] \in {"stopped", "removed"}

StateInv ==
  \A t \in Threads :
    /\ state[t] = "attached" <=> pc[t] \in Inside
    /\ pc[t] = "none" => state[t] = "detached"
    /\ pc[t] \in {"asleep", "count"} => state[t] = "suspended"
    /\ pc[t] = "hung" => state[t] = "shutting_down"
    /\ state[t] = "shutting_down" => ~ HasRW(t)
    /\ t \in linked <=> /\ pc[t] # "none" /\ state[t] # "shutting_down"
                        /\ \A r \in Threads : pc[r] = "removed" => t \notin todo[r]

TodoInv ==
  \A t \in Threads :
    /\ pc[t] \in {"scan", "start"} => todo[t] \subseteq Affected(stw[t]) \ {t}
    /\ pc[t] \in {"start", "removed"} => \A u \in todo[t] : state[u] = "suspended"

(* A thread that stops for a request stops it from being over.             *)
LateInv ==
  \A t \in Threads : pc[t] \in {"detach", "count"} /\ stw[t] # NULL => requested[stw[t]]

(* The event of a stop that goes on says that nobody is waited for.        *)
EventInv ==
  \A s \in Stops : requested[s] /\ (event[s] \/ stopped[s]) => countdown[s] = 0

Inv ==
  /\ TypeOK /\ HeadInv /\ MutexInv /\ RWInv /\ NextInv /\ RequestInv
  /\ StateInv /\ TodoInv /\ LateInv /\ SuspendedHasWaker
  /\ CountdownExact /\ EventInv
=============================================================================
