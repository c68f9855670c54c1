-------------------------------- MODULE QSBR --------------------------------
(***************************************************************************)
(* Quiescent-state based reclamation of the free-threaded build            *)
(* (Python/qsbr.c) and the queues of delayed frees (Objects/obmalloc.c):   *)
(* memory that other threads may be reading without a lock is freed once   *)
(* every attached thread has passed a quiescent state.                     *)
(*                                                                         *)
(* One shared pointer stands for the data: threads read it without a lock, *)
(* and a thread that replaces what it points to frees the old node later.  *)
(* One action reads or writes shared state once; memory is sequentially    *)
(* consistent, which the fence of qsbr_poll_scan and the store of attach   *)
(* are there for.  What happens in a stopped world is one action: nobody   *)
(* else is attached (StopTheWorld!WorldStands).                            *)
(***************************************************************************)
EXTENDS Naturals, Sequences, SequencesExt

CONSTANTS
  Threads,           \* the threads, each with its slot of the array of QSBR states
  Nodes,             \* blocks of memory
  DEFERRED_LIMIT,    \* QSBR_DEFERRED_LIMIT
  MaxSeq,            \* bound: the last write sequence
  NULL

ASSUME QSBRAssumption ==
  /\ DEFERRED_LIMIT \in Nat /\ MaxSeq \in Nat
  /\ NULL \notin Nodes \union Threads /\ Nodes # {}

QSBR_OFFLINE == 0
QSBR_INITIAL == 1
QSBR_INCR == 2

VARIABLES
  \* shared
  wr_seq, rd_seq,
  seq,         \* qsbr->seq
  current,     \* the node that the shared pointer points to
  interpQueue, has_work, mutex,    \* interp->mem_free_queue
  \* of each thread
  pc,
  holds,       \* the node it has read from the shared pointer and may use
  old,         \* the node it has replaced
  queue,       \* tstate->mem_free_queue: nodes and their goals
  deferred,    \* qsbr->deferred_count
  should,      \* qsbr->should_process
  reg,         \* the sequence it has loaded, min_seq of its scan
  slots,       \* the slots that its scan has still to read
  seen,        \* the rd_seq it has loaded
  source       \* whose queue it processes, and why

seqVars == <<wr_seq, rd_seq, seq>>
queueVars == <<interpQueue, has_work, mutex, queue>>
scanVars == <<reg, slots, seen>>
counters == <<deferred, should>>
vars == <<seqVars, current, queueVars, pc, holds, old, counters, scanVars, source>>

Items == [node : Nodes, goal : Nat]
Places == {"none", "off", "attach", "on", "quiet", "retire", "poll", "load", "scan",
           "publish", "swap", "work", "trylock", "done", "ending"}

TypeOK ==
  /\ wr_seq \in Nat /\ rd_seq \in Nat
  /\ seq \in [Threads -> Nat]
  /\ current \in Nodes
  /\ interpQueue \in Seq(Items) /\ has_work \in BOOLEAN /\ mutex \in Threads \union {NULL}
  /\ pc \in [Threads -> Places]
  /\ holds \in [Threads -> Nodes \union {NULL}]
  /\ old \in [Threads -> Nodes \union {NULL}]
  /\ queue \in [Threads -> Seq(Items)]
  /\ deferred \in [Threads -> Nat] /\ should \in [Threads -> BOOLEAN]
  /\ reg \in [Threads -> Nat] /\ slots \in [Threads -> SUBSET Threads] /\ seen \in [Threads -> Nat]
  /\ source \in [Threads -> {"own", "interp", "abandon"}]

Init ==
  /\ wr_seq = QSBR_INITIAL /\ rd_seq = QSBR_INITIAL
  /\ seq = [t \in Threads |-> QSBR_OFFLINE]
  /\ current \in Nodes
  /\ interpQueue = <<>> /\ has_work = FALSE /\ mutex = NULL
  /\ pc = [t \in Threads |-> "none"]
  /\ holds = [t \in Threads |-> NULL]
  /\ old = [t \in Threads |-> NULL]
  /\ queue = [t \in Threads |-> <<>>]
  /\ deferred = [t \in Threads |-> 0]
  /\ should = [t \in Threads |-> FALSE]
  /\ reg = [t \in Threads |-> 0]
  /\ slots = [t \in Threads |-> {}]
  /\ seen = [t \in Threads |-> 0]
  /\ source = [t \in Threads |-> "own"]

Goto(t, place) == pc' = [pc EXCEPT ![t] = place]

(* The queue of the interpreter, whose owner is NULL, and of each thread.  *)
Owners == Threads \union {NULL}
QueueOf(o) == IF o = NULL THEN interpQueue ELSE queue[o]
Waiting(o) == {QueueOf(o)[i].node : i \in DOMAIN QueueOf(o)}

(* Memory that is allocated: all the rest may be allocated anew.           *)
Live == {current} \union {old[t] : t \in Threads} \union UNION {Waiting(o) : o \in Owners}

-----------------------------------------------------------------------------
(* Threads and what they read *)

(* _Py_qsbr_reserve and _Py_qsbr_register, of a new thread state.          *)
Register(t) ==
  /\ pc[t] = "none"
  /\ Goto(t, "off")
  /\ UNCHANGED <<seqVars, current, queueVars, holds, old, counters, scanVars, source>>

(* _Py_qsbr_attach: the load, and then the store.  The thread state counts *)
(* as attached before.                                                     *)
AttachLoad(t) ==
  /\ pc[t] = "off"
  /\ reg' = [reg EXCEPT ![t] = wr_seq]
  /\ Goto(t, "attach")
  /\ UNCHANGED <<seqVars, current, queueVars, holds, old, counters, slots, seen, source>>

AttachStore(t) ==
  /\ pc[t] = "attach"
  /\ seq' = [seq EXCEPT ![t] = reg[t]]
  /\ reg' = [reg EXCEPT ![t] = 0]
  /\ Goto(t, "on")
  /\ UNCHANGED <<wr_seq, rd_seq, current, queueVars, holds, old, counters, slots, seen, source>>

(* A thread uses a node it has read until its next quiescent state.        *)
Read(t) ==
  /\ pc[t] = "on" /\ holds[t] = NULL
  /\ holds' = [holds EXCEPT ![t] = current]
  /\ UNCHANGED <<seqVars, current, queueVars, pc, old, counters, scanVars, source>>

Drop(t) ==
  /\ pc[t] = "on" /\ holds[t] # NULL
  /\ holds' = [holds EXCEPT ![t] = NULL]
  /\ UNCHANGED <<seqVars, current, queueVars, pc, old, counters, scanVars, source>>

(* _Py_qsbr_quiescent_state, of the evaluation loop: load and store.       *)
QuietLoad(t) ==
  /\ pc[t] = "on" /\ holds[t] = NULL
  /\ seq[t] # wr_seq
  /\ reg' = [reg EXCEPT ![t] = wr_seq]
  /\ Goto(t, "quiet")
  /\ UNCHANGED <<seqVars, current, queueVars, holds, old, counters, slots, seen, source>>

QuietStore(t) ==
  /\ pc[t] = "quiet"
  /\ seq' = [seq EXCEPT ![t] = reg[t]]
  /\ reg' = [reg EXCEPT ![t] = 0]
  /\ Goto(t, "on")
  /\ UNCHANGED <<wr_seq, rd_seq, current, queueVars, holds, old, counters, slots, seen, source>>

(* _Py_qsbr_detach; a thread that ends is unregistered after it, and the   *)
(* next one with its slot finds the counters as they were left.            *)
Detach(t) ==
  /\ holds[t] = NULL
  /\ \/ pc[t] = "on" /\ Goto(t, "off")
     \/ pc[t] = "ending" /\ Goto(t, "none")
  /\ seq' = [seq EXCEPT ![t] = QSBR_OFFLINE]
  /\ UNCHANGED <<wr_seq, rd_seq, current, queueVars, holds, old, counters, scanVars, source>>

-----------------------------------------------------------------------------
(* Delayed frees *)

(* The data gets a new node: the writer publishes it, then frees the old.  *)
Replace(t, node) ==
  /\ pc[t] = "on"
  /\ node \notin Live \union {holds[u] : u \in Threads}
  /\ current' = node
  /\ old' = [old EXCEPT ![t] = current]
  /\ Goto(t, "retire")
  /\ UNCHANGED <<seqVars, queueVars, holds, counters, scanVars, source>>

(* Mutant of Retire: what is freed later waits for the current sequence.   *)
RetireCurrent(t, large, full) ==
  /\ pc[t] = "retire"
  /\ LET advance == large \/ deferred[t] + 1 > DEFERRED_LIMIT
         goal == wr_seq + QSBR_INCR
     IN  /\ advance => wr_seq < MaxSeq
         /\ wr_seq' = IF advance THEN goal ELSE wr_seq
         /\ deferred' = [deferred EXCEPT ![t] = IF advance THEN 0 ELSE @ + 1]
         /\ should' = [should EXCEPT ![t] = ~ full /\ (advance \/ @)]
         /\ queue' = [queue EXCEPT ![t] = Append(@, [node |-> old[t], goal |-> wr_seq'])]
  /\ old' = [old EXCEPT ![t] = NULL]
  /\ IF full THEN Goto(t, "poll") /\ source' = [source EXCEPT ![t] = "own"]
     ELSE Goto(t, "on") /\ UNCHANGED source
  /\ UNCHANGED <<rd_seq, seq, current, interpQueue, has_work, mutex, holds, scanVars>>

(* free_delayed: the write sequence is advanced if much is deferred (the   *)
(* memory is not counted: large says that it is too much).  The queue is   *)
(* processed at once if its last chunk is full.                            *)
Retire(t, large, full) ==
  /\ pc[t] = "retire"
  /\ LET advance == large \/ deferred[t] + 1 > DEFERRED_LIMIT
         goal == wr_seq + QSBR_INCR
     IN  /\ advance => wr_seq < MaxSeq
         /\ wr_seq' = IF advance THEN goal ELSE wr_seq
         /\ deferred' = [deferred EXCEPT ![t] = IF advance THEN 0 ELSE @ + 1]
         /\ should' = [should EXCEPT ![t] = ~ full /\ (advance \/ @)]
         /\ queue' = [queue EXCEPT ![t] = Append(@, [node |-> old[t], goal |-> goal])]
  /\ old' = [old EXCEPT ![t] = NULL]
  /\ IF full THEN Goto(t, "poll") /\ source' = [source EXCEPT ![t] = "own"]
     ELSE Goto(t, "on") /\ UNCHANGED source
  /\ UNCHANGED <<rd_seq, seq, current, interpQueue, has_work, mutex, holds, scanVars>>

(* A stopped world: no other thread is attached.                           *)
WorldStopped(t) == \A u \in Threads \ {t} : pc[u] \in {"none", "off"}

(* The world is stopped already, the interpreter finalizes (so that nobody *)
(* else can attach), or there is no memory for a chunk, for which the      *)
(* world is stopped: the old node is freed at once, by a caller that does  *)
(* not use it any more.                                                    *)
RetireNow(t) ==
  /\ pc[t] = "retire" /\ holds[t] # old[t]
  /\ WorldStopped(t)
  /\ old' = [old EXCEPT ![t] = NULL]
  /\ Goto(t, "on")
  /\ UNCHANGED <<seqVars, current, queueVars, holds, counters, scanVars, source>>

(* _PyMem_ProcessDelayed, from the eval breaker.                           *)
Process(t) ==
  /\ pc[t] = "on" /\ should[t]
  /\ should' = [should EXCEPT ![t] = FALSE]
  /\ source' = [source EXCEPT ![t] = "own"]
  /\ Goto(t, "poll")
  /\ UNCHANGED <<seqVars, current, queueVars, holds, old, deferred, scanVars>>

(* process_queue: the queue it reads, and what follows when it returns.    *)
Queue(t) == IF source[t] = "own" THEN queue[t] ELSE interpQueue
Leave(t) == Goto(t, IF source[t] = "own" THEN "work" ELSE "done") /\ UNCHANGED <<queue, interpQueue>>

(* The first item is freed and the next is looked at.                      *)
Free(t) ==
  /\ IF source[t] = "own" THEN queue' = [queue EXCEPT ![t] = Tail(@)] /\ UNCHANGED interpQueue
     ELSE interpQueue' = Tail(interpQueue) /\ UNCHANGED queue
  /\ Goto(t, "poll")

(* _Py_qsbr_poll: is the goal reached already?                             *)
Poll(t) ==
  /\ pc[t] = "poll"
  /\ \/ Queue(t) = <<>> /\ Leave(t)
     \/ Queue(t) # <<>> /\ Head(Queue(t)).goal <= rd_seq /\ Free(t)
     \/ /\ Queue(t) # <<>> /\ Head(Queue(t)).goal > rd_seq
        /\ Goto(t, "load")
        /\ UNCHANGED <<queue, interpQueue>>
  /\ UNCHANGED <<seqVars, current, has_work, mutex, holds, old, counters, scanVars, source>>

(* qsbr_poll_scan: the minimum is at most the written sequence ...         *)
ScanBegin(t) ==
  /\ pc[t] = "load"
  /\ reg' = [reg EXCEPT ![t] = wr_seq]
  /\ slots' = [slots EXCEPT ![t] = Threads]
  /\ Goto(t, "scan")
  /\ UNCHANGED <<seqVars, current, queueVars, holds, old, counters, seen, source>>

(* ... and that of each slot: one slot of the array (in any order).   *)
Scan(t, u) ==
  /\ pc[t] = "scan"
  /\ u \in slots[t]
  /\ slots' = [slots EXCEPT ![t] = @ \ {u}]
  /\ reg' = [reg EXCEPT ![t] = IF seq[u] # QSBR_OFFLINE /\ seq[u] < @ THEN seq[u] ELSE @]
  /\ Goto(t, IF slots[t] = {u} THEN "publish" ELSE "scan")
  /\ UNCHANGED <<seqVars, current, queueVars, holds, old, counters, seen, source>>

(* The answer of the poll.                                                 *)
Answer(t, rd) == IF Head(Queue(t)).goal <= rd THEN Free(t) ELSE Leave(t)

Publish(t) ==
  /\ pc[t] = "publish"
  /\ IF rd_seq < reg[t]
     THEN /\ seen' = [seen EXCEPT ![t] = rd_seq] /\ Goto(t, "swap")
          /\ UNCHANGED <<reg, queue, interpQueue>>
     ELSE Answer(t, rd_seq) /\ reg' = [reg EXCEPT ![t] = 0] /\ UNCHANGED seen
  /\ UNCHANGED <<seqVars, current, has_work, mutex, holds, old, counters, slots, source>>

(* The compare-exchange of rd_seq, which may fail.                         *)
Swap(t) ==
  /\ pc[t] = "swap"
  /\ rd_seq' = IF rd_seq = seen[t] THEN reg[t] ELSE rd_seq
  /\ Answer(t, reg[t])
  /\ reg' = [reg EXCEPT ![t] = 0]
  /\ seen' = [seen EXCEPT ![t] = 0]
  /\ UNCHANGED <<wr_seq, seq, current, has_work, mutex, holds, old, counters, slots, source>>

(* maybe_process_interp_queue: has_work is read without the lock, and the  *)
(* lock is only tried.                                                     *)
LookForWork(t) ==
  /\ pc[t] = "work"
  /\ Goto(t, IF has_work THEN "trylock" ELSE "on")
  /\ UNCHANGED <<seqVars, current, queueVars, holds, old, counters, scanVars, source>>

TryLock(t) ==
  /\ pc[t] = "trylock"
  /\ IF mutex = NULL
     THEN mutex' = t /\ source' = [source EXCEPT ![t] = "interp"] /\ Goto(t, "poll")
     ELSE Goto(t, "on") /\ UNCHANGED <<mutex, source>>
  /\ UNCHANGED <<seqVars, current, interpQueue, has_work, queue, holds, old, counters, scanVars>>

(* Mutant of Unlock: only work that was there before is announced.         *)
UnlockQuiet(t) ==
  /\ pc[t] = "done"
  /\ has_work' = (has_work /\ interpQueue # <<>>)
  /\ mutex' = NULL
  /\ Goto(t, IF source[t] = "abandon" THEN "ending" ELSE "on")
  /\ source' = [source EXCEPT ![t] = "own"]
  /\ UNCHANGED <<seqVars, current, interpQueue, queue, holds, old, counters, scanVars>>

Unlock(t) ==
  /\ pc[t] = "done"
  /\ has_work' = (interpQueue # <<>>)
  /\ mutex' = NULL
  /\ Goto(t, IF source[t] = "abandon" THEN "ending" ELSE "on")
  /\ source' = [source EXCEPT ![t] = "own"]
  /\ UNCHANGED <<seqVars, current, interpQueue, queue, holds, old, counters, scanVars>>

(* Mutant of Abandon: the thread keeps what it has handed over.            *)
AbandonCopies(t) ==
  /\ pc[t] = "on" /\ holds[t] = NULL
  /\ IF queue[t] = <<>> THEN Goto(t, "ending") /\ UNCHANGED <<queueVars, source>>
     ELSE /\ mutex = NULL
          /\ mutex' = t
          /\ interpQueue' = interpQueue \o queue[t]
          /\ source' = [source EXCEPT ![t] = "abandon"]
          /\ Goto(t, "poll")
          /\ UNCHANGED <<has_work, queue>>
  /\ UNCHANGED <<seqVars, current, holds, old, counters, scanVars>>

(* _PyMem_AbandonDelayed, of a thread that ends: its queue is merged into  *)
(* the interpreter's, which it processes.  A thread that has to wait for   *)
(* the lock detaches, comes back and tries again.                          *)
Abandon(t) ==
  /\ pc[t] = "on" /\ holds[t] = NULL
  /\ IF queue[t] = <<>> THEN Goto(t, "ending") /\ UNCHANGED <<queueVars, source>>
     ELSE /\ mutex = NULL
          /\ mutex' = t
          /\ interpQueue' = interpQueue \o queue[t]
          /\ queue' = [queue EXCEPT ![t] = <<>>]
          /\ source' = [source EXCEPT ![t] = "abandon"]
          /\ Goto(t, "poll")
          /\ UNCHANGED has_work
  /\ UNCHANGED <<seqVars, current, holds, old, counters, scanVars>>

(* The same of a thread state that no thread runs with, which t deletes.   *)
AbandonOther(t, u) ==
  /\ pc[t] = "on" /\ pc[u] = "off"
  /\ IF queue[u] = <<>> THEN Goto(u, "none") /\ UNCHANGED <<queueVars, source>>
     ELSE /\ mutex = NULL
          /\ mutex' = t
          /\ interpQueue' = interpQueue \o queue[u]
          /\ queue' = [queue EXCEPT ![u] = <<>>]
          /\ source' = [source EXCEPT ![t] = "interp"]
          /\ pc' = [pc EXCEPT ![t] = "poll", ![u] = "none"]
          /\ UNCHANGED has_work
  /\ UNCHANGED <<seqVars, current, holds, old, counters, scanVars>>

(* The collector in a stopped world: it advances the write sequence and    *)
(* observes it, merges the queues of all threads and frees what is in them *)
(* (process_delayed_frees in Python/gc_free_threading.c).                  *)
Collect(t) ==
  /\ pc[t] = "on" /\ holds[t] = NULL
  /\ WorldStopped(t)
  /\ wr_seq < MaxSeq
  /\ LET goal == wr_seq + QSBR_INCR
         late == \E o \in Owners : \E i \in DOMAIN QueueOf(o) : QueueOf(o)[i].goal > rd_seq
     IN  /\ wr_seq' = goal
         /\ rd_seq' = IF late THEN goal ELSE rd_seq
         /\ seq' = [seq EXCEPT ![t] = goal]
  /\ queue' = [u \in Threads |-> <<>>]
  /\ interpQueue' = <<>> /\ has_work' = FALSE
  /\ UNCHANGED <<current, mutex, pc, holds, old, counters, scanVars, source>>

-----------------------------------------------------------------------------
Next ==
  \E t \in Threads :
    \/ Register(t) \/ AttachLoad(t) \/ AttachStore(t) \/ Detach(t)
    \/ Read(t) \/ Drop(t) \/ QuietLoad(t) \/ QuietStore(t)
    \/ \E node \in Nodes : Replace(t, node)
    \/ \E large, full \in BOOLEAN : Retire(t, large, full)
    \/ RetireNow(t) \/ Process(t) \/ Abandon(t) \/ Collect(t)
    \/ Poll(t) \/ ScanBegin(t) \/ Publish(t) \/ Swap(t)
    \/ \E u \in Threads : Scan(t, u) \/ AbandonOther(t, u)
    \/ LookForWork(t) \/ TryLock(t) \/ Unlock(t)

Spec == Init /\ [][Next]_vars

-----------------------------------------------------------------------------
(* Properties *)

(* Nobody uses memory that has been freed: a node that a thread has read   *)
(* and may still use waits in a queue, is still the current one, or has    *)
(* just been replaced.                                                     *)
HeldIsLive == \A t \in Threads : holds[t] # NULL => holds[t] \in Live

(* A node is freed once: it waits at one place of one queue, and is not    *)
(* in use as the current one.                                              *)
FreedOnce ==
  \A o \in Owners : \A i \in DOMAIN QueueOf(o) :
    LET node == QueueOf(o)[i].node
    IN  /\ node # current /\ \A t \in Threads : node # old[t]
        /\ \A p \in Owners : \A j \in DOMAIN QueueOf(p) :
             QueueOf(p)[j].node = node => p = o /\ j = i

(* What ended threads left behind is announced to those that could free    *)
(* it, whenever nobody is at work on it.                                   *)
WorkAnnounced == mutex = NULL /\ interpQueue # <<>> => has_work

(* Memory that was replaced and is not freed yet.                          *)
Garbage == ({old[t] : t \in Threads} \ {NULL}) \union UNION {Waiting(o) : o \in Owners}

Reclamation == INSTANCE ReclamationSpec WITH garbage <- Garbage, held <- holds

(* Readers without locks, the queues of delayed frees and the polls        *)
(* together are memory of which only garbage that nobody holds is freed.   *)
ImplementsReclamation == Reclamation!Spec

-----------------------------------------------------------------------------
(* The inductive invariant behind the safety properties above.             *)

(* Nobody has seen, and no poll has promised, more than was written.       *)
SequenceInv ==
  /\ 0 < wr_seq /\ rd_seq <= wr_seq
  /\ \A t \in Threads : seq[t] <= wr_seq /\ reg[t] <= wr_seq

(* A thread is online from its attach on, whose load gave it a sequence;   *)
(* only then, and not in a quiescent state, it holds a node.               *)
OnlineInv ==
  \A t \in Threads :
    /\ seq[t] = QSBR_OFFLINE <=> pc[t] \in {"none", "off", "attach"}
    /\ pc[t] \in {"attach", "quiet"} => reg[t] > 0
    /\ pc[t] \in {"none", "off", "attach", "quiet"} => holds[t] = NULL
    /\ old[t] # NULL <=> pc[t] = "retire"

Scanning == {"scan", "publish", "swap"}
Polling == Scanning \union {"load"}

(* Who processes the interpreter's queue has its mutex; a poll that has to *)
(* scan is about the first item of the queue that is still there.          *)
ProcessInv ==
  \A t \in Threads :
    /\ source[t] # "own" <=> mutex = t
    /\ source[t] # "own" => pc[t] \in Polling \union {"poll", "done"}
    /\ pc[t] = "done" => source[t] # "own"
    /\ pc[t] \in Polling => Queue(t) # <<>>
    /\ pc[t] \in {"publish", "swap"} => slots[t] = {}

(* A node that a thread still uses is not freed yet, and is not about to   *)
(* be: the thread has been online since before the goal of the node was    *)
(* set, and every scan that has passed the thread has seen that.           *)
GoalsInv ==
  \A t \in Threads : \A o \in Owners : \A i \in DOMAIN QueueOf(o) :
    LET item == QueueOf(o)[i]
    IN  holds[t] = item.node =>
          /\ rd_seq < item.goal
          /\ seq[t] < item.goal
          /\ \A u \in Threads :
               pc[u] \in Scanning /\ t \notin slots[u] => reg[u] < item.goal

(* The node that is in use and those just replaced are different ones.     *)
NodesInv ==
  /\ \A t \in Threads : old[t] # current
  /\ \A t, u \in Threads : old[t] # NULL /\ old[t] = old[u] => t = u

Inv ==
  /\ TypeOK /\ SequenceInv /\ OnlineInv /\ ProcessInv /\ NodesInv /\ GoalsInv
  /\ HeldIsLive /\ FreedOnce /\ WorkAnnounced
====
