-------------------------------- MODULE Queue --------------------------------
(***************************************************************************)
(* queue.Queue (Lib/queue.py): put, get, task_done, join and shutdown of   *)
(* many threads, on three conditions that share one lock.  Items are only  *)
(* counted, so this stands for LifoQueue and PriorityQueue as well.        *)
(***************************************************************************)
EXTENDS Condition

CONSTANTS
  maxsize,     \* the size of the queue, which is bounded here
  Kinds,       \* how put and get are called: "block", "timed", "now"
  MayShutDown

ASSUME QueueAssumption ==
  /\ maxsize \in Nat \ {0} /\ MayShutDown \in BOOLEAN
  /\ Conditions = {"not_empty", "not_full", "all_tasks_done"}
  /\ Kinds \subseteq {"block", "timed", "now"}

VARIABLES
  qsize, unfinished_tasks, is_shutdown,
  call,     \* the call a thread is in: its method and its kind
  got       \* the threads with a task for which they will call task_done

queueVars == <<qsize, unfinished_tasks, is_shutdown>>
vars == <<conditionVars, queueVars, call, got>>

NoCall == [method |-> "none", kind |-> "block"]
Calls == [method : {"put", "get"}, kind : Kinds] \union {[method |-> "join", kind |-> "block"]}

TypeOK ==
  /\ ConditionTypeOK
  /\ qsize \in 0 .. maxsize /\ unfinished_tasks \in Nat /\ is_shutdown \in BOOLEAN
  /\ call \in [Threads -> Calls \union {NoCall}]
  /\ got \subseteq Threads

Init ==
  /\ ConditionInit
  /\ qsize = 0 /\ unfinished_tasks = 0 /\ is_shutdown = FALSE
  /\ call = [t \in Threads |-> NoCall]
  /\ got = {}

(* What a call notifies: one waiter of c, all waiters of the conditions C. *)
One(c) == [d \in Conditions |-> IF d = c THEN 1 ELSE 0]
All(t, C) == [d \in Conditions |-> IF d \in C THEN Len(Waiters(t)[d]) ELSE 0]

(* A thread comes to the lock: with a new call, or from the wait of one.   *)
(* Who has a task to do may put, but does the task before it gets or joins.*)
Begins(t, c) == pc[t] = "idle" /\ (t \in got => c.method = "put")
Resumes(t, c) == pc[t] = "awake" /\ c = call[t]

(* May the call give up?  A timed one when its time is over, and if it has *)
(* not been notified its time is over.                                     *)
GivesUp(t, c) == c.kind # "block"
WaitsOn(t, c) == c.kind = "block" \/ (c.kind = "timed" /\ (pc[t] = "awake" => gotit[t]))

(* raise ShutDown, Full or Empty, or return from join.                     *)
Quit(t) == Leave(t) /\ call' = [call EXCEPT ![t] = NoCall] /\ UNCHANGED <<queueVars, got>>

WaitFor(t, c, condition) ==
  /\ Wait(t, condition)
  /\ call' = [call EXCEPT ![t] = c]
  /\ UNCHANGED <<queueVars, got>>

Put(t, c) ==
  \/ is_shutdown /\ Quit(t)
  \/ ~ is_shutdown /\ qsize >= maxsize /\ GivesUp(t, c) /\ Quit(t)
  \/ ~ is_shutdown /\ qsize >= maxsize /\ WaitsOn(t, c) /\ WaitFor(t, c, "not_full")
  \/ /\ ~ is_shutdown /\ qsize < maxsize
     /\ qsize' = qsize + 1
     /\ unfinished_tasks' = unfinished_tasks + 1
     /\ LeaveNotifying(t, One("not_empty"))
     /\ call' = [call EXCEPT ![t] = NoCall]
     /\ UNCHANGED <<is_shutdown, got>>

TakeFromFull(t) ==    \* as if only a queue that was full had somebody wait to put
  /\ qsize' = qsize - 1
  /\ got' = got \union {t}
  /\ IF qsize = maxsize THEN LeaveNotifying(t, One("not_full")) ELSE Leave(t)
  /\ call' = [call EXCEPT ![t] = NoCall]
  /\ UNCHANGED <<unfinished_tasks, is_shutdown>>

TakeItem(t) ==
  /\ qsize' = qsize - 1
  /\ got' = got \union {t}
  /\ LeaveNotifying(t, One("not_full"))
  /\ call' = [call EXCEPT ![t] = NoCall]
  /\ UNCHANGED <<unfinished_tasks, is_shutdown>>

Get(t, c) ==
  \/ qsize = 0 /\ is_shutdown /\ Quit(t)
  \/ qsize = 0 /\ ~ is_shutdown /\ GivesUp(t, c) /\ Quit(t)
  \/ qsize = 0 /\ ~ is_shutdown /\ WaitsOn(t, c) /\ WaitFor(t, c, "not_empty")
  \/ qsize > 0 /\ TakeItem(t)

Join(t, c) ==
  \/ unfinished_tasks = 0 /\ Quit(t)
  \/ unfinished_tasks # 0 /\ WaitFor(t, c, "all_tasks_done")

(* One stretch of a call with the lock held.                               *)
Run(t, c) ==
  \/ c.method = "put" /\ Put(t, c)
  \/ c.method = "get" /\ Get(t, c)
  \/ c.method = "join" /\ Join(t, c)

(* task_done: once for every task a thread has got.                        *)
TaskDone(t) ==
  /\ pc[t] = "idle" /\ t \in got
  /\ unfinished_tasks > 0    \* or a ValueError
  /\ got' = got \ {t}
  /\ unfinished_tasks' = unfinished_tasks - 1
  /\ LeaveNotifying(t, All(t, IF unfinished_tasks = 1 THEN {"all_tasks_done"} ELSE {}))
  /\ UNCHANGED <<qsize, is_shutdown, call>>

ShutdownForgets(t, immediate) ==    \* as if it forgot the tasks at work
  /\ pc[t] = "idle" /\ MayShutDown
  /\ is_shutdown' = TRUE
  /\ qsize' = IF immediate THEN 0 ELSE qsize
  /\ unfinished_tasks' = IF immediate THEN 0 ELSE unfinished_tasks
  /\ LeaveNotifying(t, All(t, IF immediate THEN Conditions ELSE {"not_empty", "not_full"}))
  /\ UNCHANGED <<call, got>>

ShutdownTellsPutters(t, immediate) ==    \* as if getters had nothing to look at again
  /\ pc[t] = "idle" /\ MayShutDown
  /\ is_shutdown' = TRUE
  /\ IF immediate
     THEN /\ qsize' = 0
          /\ unfinished_tasks' = IF unfinished_tasks > qsize THEN unfinished_tasks - qsize ELSE 0
     ELSE UNCHANGED <<qsize, unfinished_tasks>>
  /\ LeaveNotifying(t, All(t, {"not_full"} \union (IF immediate THEN {"all_tasks_done"} ELSE {})))
  /\ UNCHANGED <<call, got>>

(* shutdown(immediate): an immediate one drains the queue.                 *)
Shutdown(t, immediate) ==
  /\ pc[t] = "idle" /\ MayShutDown
  /\ is_shutdown' = TRUE
  /\ IF immediate
     THEN /\ qsize' = 0
          /\ unfinished_tasks' = IF unfinished_tasks > qsize THEN unfinished_tasks - qsize ELSE 0
     ELSE UNCHANGED <<qsize, unfinished_tasks>>
  /\ LeaveNotifying(t, All(t, IF immediate THEN Conditions ELSE {"not_empty", "not_full"}))
  /\ UNCHANGED <<call, got>>

Next ==
  \E t \in Threads :
    \/ \E c \in Calls : (Begins(t, c) \/ Resumes(t, c)) /\ Run(t, c)
    \/ WakeUp(t) /\ UNCHANGED <<queueVars, call, got>>
    \/ call[t].kind = "timed" /\ TimeOut(t) /\ UNCHANGED <<queueVars, call, got>>
    \/ TaskDone(t)
    \/ \E immediate \in BOOLEAN : Shutdown(t, immediate)

Spec == Init /\ [][Next]_vars

(* Threads that can run do, and a task that was got is done some time.     *)
Progress(t) ==
  \/ \E c \in Calls : Resumes(t, c) /\ Run(t, c)
  \/ WakeUp(t) /\ UNCHANGED <<queueVars, call, got>>
  \/ TaskDone(t)

FairSpec == Spec /\ \A t \in Threads : WF_vars(Progress(t))

-----------------------------------------------------------------------------
(* Properties *)

(* The count of unfinished tasks is that of the items in the queue and of  *)
(* those that consumers work on, whatever was drained at shutdown.         *)
UnfinishedExact == unfinished_tasks = qsize + Cardinality(got)

(* Threads that a notification is still to come to.                        *)
Sleepers(c) == {t \in Threads : pc[t] = "asleep" /\ on[t] = c /\ t \notin notified}
Awake(c) == {t \in Threads : on[t] = c} \ Sleepers(c)

(* No notification is lost, although waits time out at any moment and      *)
(* other threads come in between: if somebody sleeps, there are as many    *)
(* threads about to look as there are items to get, or places to put one;  *)
(* and who joins sleeps only while there are unfinished tasks.             *)
NobodyForgotten ==
  /\ Sleepers("not_empty") # {} => qsize <= Cardinality(Awake("not_empty"))
  /\ Sleepers("not_full") # {} => maxsize - qsize <= Cardinality(Awake("not_full"))
  /\ Sleepers("all_tasks_done") # {} => unfinished_tasks > 0

(* shutdown() unblocks all callers of put and get, and of join too once    *)
(* the tasks that were got are done and the queue is empty.                *)
ShutdownFrees ==
  \A t \in Threads :
    is_shutdown /\ (call[t].method = "join" => qsize = 0) ~> pc[t] = "idle"

Buffer == INSTANCE BufferSpec
  WITH size <- maxsize, items <- qsize, working <- got, closed <- is_shutdown, waits <- call

(* Conditions with waiters that may be late, and a count of unfinished     *)
(* tasks, implement calls that are answered at once or wait for what is    *)
(* not there: a call raises only for a reason that holds then, and join()  *)
(* returns when the queue is empty and nobody works on an item.            *)
ImplementsBuffer == Buffer!Spec

-----------------------------------------------------------------------------
(* The inductive invariant of the safety properties.                       *)

(* What a thread waits for is what its call waits for.  A thread with a    *)
(* task does not get another one before it is done.                        *)
CallInv ==
  /\ \A t \in Threads :
       /\ on[t] = "not_empty" => call[t].method = "get"
       /\ on[t] = "not_full" => call[t].method = "put"
       /\ on[t] = "all_tasks_done" => call[t].method = "join"
  /\ \A t \in got : on[t] \in {NULL, "not_full"}

(* A thread is in a call as long as it has to do with a wait of it.        *)
IdleInv == \A t \in Threads : pc[t] = "idle" <=> call[t] = NoCall

(* The notifications that are on their way are enough for those who have   *)
(* had none; nobody waits to put in a queue that is shut down.             *)
DebtInv ==
  /\ Untold("not_empty") # {} => qsize <= Cardinality(Told("not_empty"))
  /\ Untold("not_full") # {} => maxsize - qsize <= Cardinality(Told("not_full")) /\ ~ is_shutdown
  /\ Untold("all_tasks_done") # {} => unfinished_tasks > 0

Inv == TypeOK /\ ConditionInv /\ CallInv /\ UnfinishedExact /\ DebtInv
=============================================================================
