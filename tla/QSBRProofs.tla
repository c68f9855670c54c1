----------------------------- MODULE QSBRProofs -----------------------------
(***************************************************************************)
(* The safety properties of QSBR, for every set of threads and of nodes,   *)
(* and every limit of what is deferred.                                    *)
(***************************************************************************)
EXTENDS QSBR, SequenceTheorems, TLAPS

(* What a thread does to a queue: it frees the first item, appends one, or *)
(* hands the whole queue over to the end of another.                       *)
LEMMA TailFacts ==
  ASSUME NEW S, NEW q \in Seq(S), q # <<>>
  PROVE  /\ Tail(q) \in Seq(S)
         /\ 1 \in DOMAIN q /\ Head(q) = q[1] /\ q[1] \in S
         /\ \A i \in DOMAIN Tail(q) : i \in Nat /\ i + 1 \in DOMAIN q /\ Tail(q)[i] = q[i + 1]
         /\ \A i \in DOMAIN q : i # 1 => i - 1 \in DOMAIN Tail(q) /\ Tail(q)[i - 1] = q[i]
OBVIOUS

LEMMA AppendFacts ==
  ASSUME NEW S, NEW q \in Seq(S), NEW e \in S
  PROVE  /\ Append(q, e) \in Seq(S)
         /\ \A i \in DOMAIN Append(q, e) :
              \/ i \in DOMAIN q /\ Append(q, e)[i] = q[i]
              \/ i = Len(q) + 1 /\ i \notin DOMAIN q /\ Append(q, e)[i] = e
         /\ \A i \in DOMAIN q : i \in DOMAIN Append(q, e) /\ Append(q, e)[i] = q[i]
         /\ Len(q) + 1 \in DOMAIN Append(q, e) /\ Append(q, e)[Len(q) + 1] = e
OBVIOUS

LEMMA ConcatFacts ==
  ASSUME NEW S, NEW q \in Seq(S), NEW r \in Seq(S)
  PROVE  /\ q \o r \in Seq(S)
         /\ \A i \in DOMAIN (q \o r) :
              \/ i \in DOMAIN q /\ (q \o r)[i] = q[i]
              \/ /\ i \notin DOMAIN q /\ i - Len(q) \in DOMAIN r /\ i \in Nat
                 /\ (q \o r)[i] = r[i - Len(q)]
         /\ \A i \in DOMAIN q : i \in DOMAIN (q \o r) /\ (q \o r)[i] = q[i]
         /\ \A i \in DOMAIN r :
              Len(q) + i \in DOMAIN (q \o r) /\ (q \o r)[Len(q) + i] = r[i]
OBVIOUS

(* The polls of a queue leave it alone or free its first item.             *)
LEMMA FreeFacts ==
  ASSUME TypeOK, NEW t \in Threads, Queue(t) # <<>>, Free(t)
  PROVE  /\ pc' = [pc EXCEPT ![t] = "poll"]
         /\ queue' \in [Threads -> Seq(Items)] /\ interpQueue' \in Seq(Items)
         /\ \A u \in Threads \ {t} : queue'[u] = queue[u]
         /\ \/ source[t] = "own" /\ queue'[t] = Tail(queue[t]) /\ interpQueue' = interpQueue
            \/ source[t] # "own" /\ queue' = queue /\ interpQueue' = Tail(interpQueue)
<1>1. CASE source[t] = "own"
  <2>1. queue[t] \in Seq(Items) /\ queue[t] # <<>>
    BY <1>1 DEF TypeOK, Queue
  <2>2. Tail(queue[t]) \in Seq(Items)
    BY <2>1
  <2> QED
    BY <1>1, <2>2, ZenonT(60) DEF TypeOK, Free, Goto
<1>2. CASE source[t] # "own"
  <2>1. interpQueue \in Seq(Items) /\ interpQueue # <<>>
    BY <1>2 DEF TypeOK, Queue
  <2>2. Tail(interpQueue) \in Seq(Items)
    BY <2>1
  <2> QED
    BY <1>2, <2>2 DEF TypeOK, Free, Goto
<1> QED
  BY <1>1, <1>2

LEMMA LeaveFacts ==
  ASSUME TypeOK, NEW t \in Threads, Leave(t)
  PROVE  /\ pc' = [pc EXCEPT ![t] = IF source[t] = "own" THEN "work" ELSE "done"]
         /\ queue' = queue /\ interpQueue' = interpQueue
BY DEF Leave, Goto

(* What a poll does.                                                       *)
LEMMA PollFacts ==
  ASSUME TypeOK, ProcessInv, NEW t \in Threads, Poll(t) \/ Publish(t) \/ Swap(t)
  PROVE  \/ Leave(t) /\ pc[t] \in {"poll", "publish", "swap"}
         \/ /\ pc[t] \in {"poll", "publish", "swap"}
            /\ Queue(t) # <<>> /\ Free(t)
            /\ Head(Queue(t)).goal <= IF pc[t] = "swap" THEN reg[t] ELSE rd_seq
         \/ /\ pc[t] = "poll" /\ pc' = [pc EXCEPT ![t] = "load"]
            /\ Queue(t) # <<>> /\ queue' = queue /\ interpQueue' = interpQueue
         \/ /\ pc[t] = "publish" /\ pc' = [pc EXCEPT ![t] = "swap"]
            /\ Queue(t) # <<>> /\ queue' = queue /\ interpQueue' = interpQueue
<1>1. CASE Poll(t)
  BY <1>1 DEF Poll, Goto
<1>2. CASE Publish(t)
  <2>1. Queue(t) # <<>>
    BY <1>2 DEF Publish, ProcessInv, Scanning, Polling
  <2> QED
    BY <1>2, <2>1 DEF Publish, Answer, Goto
<1>3. CASE Swap(t)
  <2>1. Queue(t) # <<>>
    BY <1>3 DEF Swap, ProcessInv, Scanning, Polling
  <2> QED
    BY <1>3, <2>1 DEF Swap, Answer, Goto
<1> QED
  BY <1>1, <1>2, <1>3

LEMMA PollEffect ==
  ASSUME TypeOK, ProcessInv, NEW t \in Threads, Poll(t) \/ Publish(t) \/ Swap(t)
  PROVE  /\ pc' \in [Threads -> Places]
         /\ queue' \in [Threads -> Seq(Items)] /\ interpQueue' \in Seq(Items)
         /\ \A u \in Threads \ {t} : pc'[u] = pc[u] /\ queue'[u] = queue[u]
         /\ pc'[t] \in {"work", "done", "poll", "load", "swap"}
         /\ pc'[t] = "done" => source[t] # "own"
         /\ source[t] = "own" => interpQueue' = interpQueue
         /\ source[t] # "own" => queue' = queue /\ pc'[t] # "work"
         /\ pc'[t] \in {"load", "swap"} =>
              queue' = queue /\ interpQueue' = interpQueue /\ Queue(t) # <<>>
<1>1. /\ pc \in [Threads -> Places] /\ queue \in [Threads -> Seq(Items)]
      /\ interpQueue \in Seq(Items)
  BY DEF TypeOK
<1>2. CASE Leave(t)
  BY <1>1, <1>2, LeaveFacts DEF Places
<1>3. CASE Queue(t) # <<>> /\ Free(t)
  BY <1>1, <1>3, FreeFacts DEF Places
<1>4. CASE /\ pc' = [pc EXCEPT ![t] = "load"] \/ pc' = [pc EXCEPT ![t] = "swap"]
           /\ Queue(t) # <<>> /\ queue' = queue /\ interpQueue' = interpQueue
  BY <1>1, <1>4 DEF Places
<1> QED
  BY <1>2, <1>3, <1>4, PollFacts

LEMMA InitInv == Init => Inv
<1> SUFFICES ASSUME Init PROVE Inv
  OBVIOUS
<1>1. TypeOK
  <2>1. <<>> \in Seq(Items)
    OBVIOUS
  <2> QED
    BY <2>1 DEF Init, TypeOK, Places, QSBR_INITIAL, QSBR_OFFLINE
<1>2. \A o \in Owners : QueueOf(o) = <<>>
  BY DEF Init, Owners, QueueOf
<1>3. SequenceInv /\ OnlineInv /\ ProcessInv /\ NodesInv
  BY QSBRAssumption DEF Init, SequenceInv, OnlineInv, ProcessInv, NodesInv, Scanning, Polling, QSBR_INITIAL, QSBR_OFFLINE
<1>4. GoalsInv /\ FreedOnce
  BY <1>2 DEF GoalsInv, FreedOnce
<1>5. HeldIsLive /\ WorkAnnounced
  BY DEF Init, HeldIsLive, WorkAnnounced
<1> QED
  BY <1>1, <1>3, <1>4, <1>5 DEF Inv

(* Type correctness.                                                       *)
LEMMA TypeStep ==
  ASSUME TypeOK, OnlineInv, ProcessInv, [Next]_vars
  PROVE  TypeOK'
<1>1. CASE UNCHANGED vars
  BY <1>1 DEF TypeOK, Places, vars, seqVars, queueVars, scanVars, counters
<1>2. ASSUME NEW t \in Threads, Register(t) PROVE TypeOK'
  BY <1>2 DEF TypeOK, Places, Register, Goto, seqVars, queueVars, scanVars, counters
<1>3. ASSUME NEW t \in Threads, AttachLoad(t) PROVE TypeOK'
  BY <1>3 DEF TypeOK, Places, AttachLoad, Goto, seqVars, queueVars, scanVars, counters
<1>4. ASSUME NEW t \in Threads, AttachStore(t) PROVE TypeOK'
  BY <1>4 DEF TypeOK, Places, AttachStore, Goto, seqVars, queueVars, scanVars, counters
<1>5. ASSUME NEW t \in Threads, Detach(t) PROVE TypeOK'
  <2>1. pc' \in [Threads -> Places]
    BY <1>5, ZenonT(60) DEF TypeOK, Places, Detach, Goto
  <2>2. seq' \in [Threads -> Nat]
    BY <1>5 DEF TypeOK, Detach, QSBR_OFFLINE
  <2> QED
    BY <1>5, <2>1, <2>2 DEF TypeOK, Detach, queueVars, scanVars, counters
<1>6. ASSUME NEW t \in Threads, Read(t) PROVE TypeOK'
  BY <1>6 DEF TypeOK, Places, Read, Goto, seqVars, queueVars, scanVars, counters
<1>7. ASSUME NEW t \in Threads, Drop(t) PROVE TypeOK'
  BY <1>7 DEF TypeOK, Places, Drop, Goto, seqVars, queueVars, scanVars, counters
<1>8. ASSUME NEW t \in Threads, QuietLoad(t) PROVE TypeOK'
  BY <1>8 DEF TypeOK, Places, QuietLoad, Goto, seqVars, queueVars, scanVars, counters
<1>9. ASSUME NEW t \in Threads, QuietStore(t) PROVE TypeOK'
  BY <1>9 DEF TypeOK, Places, QuietStore, Goto, seqVars, queueVars, scanVars, counters
<1>10. ASSUME NEW t \in Threads, NEW node \in Nodes, Replace(t, node) PROVE TypeOK'
  BY <1>10 DEF TypeOK, Places, Replace, Goto, seqVars, queueVars, scanVars, counters
<1>11. ASSUME NEW t \in Threads, NEW large \in BOOLEAN, NEW full \in BOOLEAN, Retire(t, large, full) PROVE TypeOK'
  <2> DEFINE item == [node |-> old[t], goal |-> wr_seq + QSBR_INCR]
  <2>1. item \in Items
    BY <1>11, QSBRAssumption DEF Retire, OnlineInv, TypeOK, Items, QSBR_INCR
  <2>2. Append(queue[t], item) \in Seq(Items)
    BY <2>1, AppendFacts DEF TypeOK
  <2>3. queue' \in [Threads -> Seq(Items)]
    BY <1>11, <2>2 DEF TypeOK, Retire
  <2>4. pc' \in [Threads -> Places] /\ source' \in [Threads -> {"own", "interp", "abandon"}]
    BY <1>11 DEF TypeOK, Places, Retire, Goto
  <2>5. /\ wr_seq' \in Nat /\ deferred' \in [Threads -> Nat] /\ should' \in [Threads -> BOOLEAN]
        /\ old' \in [Threads -> Nodes \union {NULL}]
    BY <1>11, SMTT(60) DEF TypeOK, Retire, QSBR_INCR
  <2> QED
    BY <1>11, <2>3, <2>4, <2>5 DEF TypeOK, Retire, scanVars
<1>12. ASSUME NEW t \in Threads, RetireNow(t) PROVE TypeOK'
  BY <1>12 DEF TypeOK, Places, RetireNow, Goto, seqVars, queueVars, scanVars, counters
<1>13. ASSUME NEW t \in Threads, Process(t) PROVE TypeOK'
  BY <1>13 DEF TypeOK, Places, Process, Goto, seqVars, queueVars, scanVars, counters
<1>14. ASSUME NEW t \in Threads, Abandon(t) PROVE TypeOK'
  <2>1. interpQueue \o queue[t] \in Seq(Items)
    BY ConcatFacts DEF TypeOK
  <2>2. queue' \in [Threads -> Seq(Items)] /\ interpQueue' \in Seq(Items)
    <3>1. queue \in [Threads -> Seq(Items)] /\ interpQueue \in Seq(Items) /\ <<>> \in Seq(Items)
      BY DEF TypeOK
    <3> QED
      BY <1>14, <2>1, <3>1 DEF Abandon, queueVars
  <2> QED
    BY <1>14, <2>2 DEF TypeOK, Places, Abandon, Goto, seqVars, queueVars, scanVars, counters
<1>15. ASSUME NEW t \in Threads, Collect(t) PROVE TypeOK'
  <2>1. wr_seq' \in Nat /\ rd_seq' \in Nat /\ seq' \in [Threads -> Nat]
    <3> HIDE DEF Owners, QueueOf
    <3> QED BY <1>15 DEF TypeOK, Collect, QSBR_INCR
  <2>2. queue' \in [Threads -> Seq(Items)] /\ interpQueue' \in Seq(Items)
    BY <1>15 DEF Collect
  <2> QED
    BY <1>15, <2>1, <2>2 DEF TypeOK, Collect, scanVars, counters
<1>16. ASSUME NEW t \in Threads, Poll(t) PROVE TypeOK'
  <2>1. queue' \in [Threads -> Seq(Items)] /\ interpQueue' \in Seq(Items) /\ pc' \in [Threads -> Places]
    BY <1>16, PollEffect
  <2> QED
    BY <1>16, <2>1 DEF TypeOK, Poll, seqVars, queueVars, scanVars, counters
<1>17. ASSUME NEW t \in Threads, NEW u \in Threads, Scan(t, u) PROVE TypeOK'
  BY <1>17 DEF TypeOK, Places, Scan, Goto, seqVars, queueVars, scanVars, counters
<1>18. ASSUME NEW t \in Threads, Publish(t) PROVE TypeOK'
  <2>1. queue' \in [Threads -> Seq(Items)] /\ interpQueue' \in Seq(Items) /\ pc' \in [Threads -> Places]
    BY <1>18, PollEffect
  <2>2. reg' \in [Threads -> Nat] /\ seen' \in [Threads -> Nat] /\ slots' \in [Threads -> SUBSET Threads]
    <3>1. reg' \in [Threads -> Nat]
      BY <1>18, SMTT(60) DEF TypeOK, Publish
    <3>2. seen' \in [Threads -> Nat]
      BY <1>18 DEF TypeOK, Publish
    <3>3. slots' \in [Threads -> SUBSET Threads]
      BY <1>18 DEF TypeOK, Publish
    <3> QED
      BY <3>1, <3>2, <3>3
  <2>3. rd_seq' \in Nat
    BY <1>18 DEF TypeOK, Publish, seqVars
  <2> QED
    BY <1>18, <2>1, <2>2, <2>3 DEF TypeOK, Publish, seqVars, queueVars, scanVars, counters
<1>19. ASSUME NEW t \in Threads, Swap(t) PROVE TypeOK'
  <2>1. queue' \in [Threads -> Seq(Items)] /\ interpQueue' \in Seq(Items) /\ pc' \in [Threads -> Places]
    BY <1>19, PollEffect
  <2>2. reg' \in [Threads -> Nat] /\ seen' \in [Threads -> Nat] /\ slots' \in [Threads -> SUBSET Threads]
    <3>1. reg' \in [Threads -> Nat]
      BY <1>19 DEF TypeOK, Swap
    <3>2. seen' \in [Threads -> Nat]
      BY <1>19 DEF TypeOK, Swap
    <3>3. slots' \in [Threads -> SUBSET Threads]
      BY <1>19 DEF TypeOK, Swap
    <3> QED
      BY <3>1, <3>2, <3>3
  <2>3. rd_seq' \in Nat
    BY <1>19 DEF TypeOK, Swap, seqVars
  <2> QED
    BY <1>19, <2>1, <2>2, <2>3 DEF TypeOK, Swap, seqVars, queueVars, scanVars, counters
<1>20. ASSUME NEW t \in Threads, LookForWork(t) PROVE TypeOK'
  BY <1>20 DEF TypeOK, Places, LookForWork, Goto, seqVars, queueVars, scanVars, counters
<1>21. ASSUME NEW t \in Threads, TryLock(t) PROVE TypeOK'
  BY <1>21 DEF TypeOK, Places, TryLock, Goto, seqVars, queueVars, scanVars, counters
<1>22. ASSUME NEW t \in Threads, Unlock(t) PROVE TypeOK'
  BY <1>22 DEF TypeOK, Places, Unlock, Goto, seqVars, queueVars, scanVars, counters
<1>23. ASSUME NEW t \in Threads, ScanBegin(t) PROVE TypeOK'
  BY <1>23 DEF TypeOK, Places, ScanBegin, Goto, seqVars, queueVars, scanVars, counters
<1>24. ASSUME NEW t \in Threads, NEW u \in Threads, AbandonOther(t, u) PROVE TypeOK'
  <2>1. interpQueue \o queue[u] \in Seq(Items)
    BY ConcatFacts DEF TypeOK
  <2>2. queue' \in [Threads -> Seq(Items)] /\ interpQueue' \in Seq(Items)
    <3>1. queue \in [Threads -> Seq(Items)] /\ interpQueue \in Seq(Items) /\ <<>> \in Seq(Items)
      BY DEF TypeOK
    <3> QED
      BY <1>24, <2>1, <3>1 DEF AbandonOther, queueVars
  <2>3. pc' \in [Threads -> Places]
    <3>1. \/ pc' = [pc EXCEPT ![u] = "none"]
          \/ pc' = [pc EXCEPT ![t] = "poll", ![u] = "none"]
      BY <1>24 DEF AbandonOther, Goto
    <3> QED
      BY <3>1 DEF TypeOK, Places
  <2>4. source' \in [Threads -> {"own", "interp", "abandon"}] /\ mutex' \in Threads \union {NULL}
    BY <1>24 DEF TypeOK, AbandonOther, queueVars
  <2>5. has_work' = has_work
    BY <1>24 DEF AbandonOther, queueVars
  <2> QED
    BY <1>24, <2>2, <2>3, <2>4, <2>5 DEF TypeOK, AbandonOther, seqVars, scanVars, counters
<1> QED
  BY <1>1, <1>2, <1>3, <1>4, <1>5, <1>6, <1>7, <1>8, <1>9, <1>10, <1>11, <1>12, <1>13, <1>14, <1>15, <1>16, <1>17, <1>18, <1>19, <1>20, <1>21, <1>22, <1>23, <1>24 DEF Next

(* The sequences are bounded by what was written.                          *)
LEMMA SequenceStep ==
  ASSUME TypeOK, SequenceInv, [Next]_vars
  PROVE  SequenceInv'
<1>1. CASE UNCHANGED vars
  BY <1>1 DEF TypeOK, SequenceInv, vars, seqVars, queueVars, scanVars, counters
<1>2. ASSUME NEW t \in Threads, Register(t) PROVE SequenceInv'
  BY <1>2 DEF TypeOK, SequenceInv, Register, Goto, seqVars, queueVars, scanVars, counters
<1>3. ASSUME NEW t \in Threads, AttachLoad(t) PROVE SequenceInv'
  BY <1>3 DEF TypeOK, SequenceInv, AttachLoad, Goto, seqVars, queueVars, scanVars, counters
<1>4. ASSUME NEW t \in Threads, AttachStore(t) PROVE SequenceInv'
  BY <1>4 DEF TypeOK, SequenceInv, AttachStore, Goto, seqVars, queueVars, scanVars, counters
<1>5. ASSUME NEW t \in Threads, Detach(t) PROVE SequenceInv'
  BY <1>5 DEF TypeOK, SequenceInv, Detach, Goto, seqVars, queueVars, scanVars, counters, QSBR_OFFLINE
<1>6. ASSUME NEW t \in Threads, Read(t) PROVE SequenceInv'
  BY <1>6 DEF TypeOK, SequenceInv, Read, Goto, seqVars, queueVars, scanVars, counters
<1>7. ASSUME NEW t \in Threads, Drop(t) PROVE SequenceInv'
  BY <1>7 DEF TypeOK, SequenceInv, Drop, Goto, seqVars, queueVars, scanVars, counters
<1>8. ASSUME NEW t \in Threads, QuietLoad(t) PROVE SequenceInv'
  BY <1>8 DEF TypeOK, SequenceInv, QuietLoad, Goto, seqVars, queueVars, scanVars, counters
<1>9. ASSUME NEW t \in Threads, QuietStore(t) PROVE SequenceInv'
  BY <1>9 DEF TypeOK, SequenceInv, QuietStore, Goto, seqVars, queueVars, scanVars, counters
<1>10. ASSUME NEW t \in Threads, NEW node \in Nodes, Replace(t, node) PROVE SequenceInv'
  BY <1>10 DEF TypeOK, SequenceInv, Replace, Goto, seqVars, queueVars, scanVars, counters
<1>11. ASSUME NEW t \in Threads, NEW large \in BOOLEAN, NEW full \in BOOLEAN, Retire(t, large, full) PROVE SequenceInv'
  <2>1. /\ wr_seq \in Nat /\ wr_seq' \in Nat /\ wr_seq <= wr_seq'
        /\ rd_seq' = rd_seq /\ seq' = seq /\ reg' = reg
    BY <1>11 DEF Retire, scanVars, QSBR_INCR, TypeOK
  <2>2. rd_seq \in Nat /\ \A u \in Threads : seq[u] \in Nat /\ reg[u] \in Nat
    BY DEF TypeOK
  <2> QED
    BY <2>1, <2>2 DEF SequenceInv
<1>12. ASSUME NEW t \in Threads, RetireNow(t) PROVE SequenceInv'
  BY <1>12 DEF TypeOK, SequenceInv, RetireNow, Goto, seqVars, queueVars, scanVars, counters
<1>13. ASSUME NEW t \in Threads, Process(t) PROVE SequenceInv'
  BY <1>13 DEF TypeOK, SequenceInv, Process, Goto, seqVars, queueVars, scanVars, counters
<1>14. ASSUME NEW t \in Threads, Abandon(t) PROVE SequenceInv'
  BY <1>14 DEF TypeOK, SequenceInv, Abandon, Goto, seqVars, queueVars, scanVars, counters
<1>15. ASSUME NEW t \in Threads, Collect(t) PROVE SequenceInv'
  <2>1. /\ wr_seq \in Nat /\ wr_seq' = wr_seq + QSBR_INCR /\ rd_seq' \in {rd_seq, wr_seq + QSBR_INCR}
        /\ seq' = [seq EXCEPT ![t] = wr_seq + QSBR_INCR] /\ reg' = reg
    BY <1>15 DEF Collect, scanVars, TypeOK
  <2>2. rd_seq \in Nat /\ \A u \in Threads : seq[u] \in Nat /\ reg[u] \in Nat
    BY DEF TypeOK
  <2>3. \A u \in Threads : seq'[u] = seq[u] \/ seq'[u] = wr_seq + QSBR_INCR
    BY <2>1 DEF TypeOK
  <2> QED
    BY <2>1, <2>2, <2>3 DEF SequenceInv, QSBR_INCR
<1>16. ASSUME NEW t \in Threads, Poll(t) PROVE SequenceInv'
  BY <1>16, SMTT(60) DEF TypeOK, SequenceInv, Poll, Goto, seqVars, queueVars, scanVars, counters
<1>17. ASSUME NEW t \in Threads, NEW u \in Threads, Scan(t, u) PROVE SequenceInv'
  BY <1>17 DEF TypeOK, SequenceInv, Scan, Goto, seqVars, queueVars, scanVars, counters
<1>18. ASSUME NEW t \in Threads, Publish(t) PROVE SequenceInv'
  <2>1. wr_seq' = wr_seq /\ rd_seq' = rd_seq /\ seq' = seq
    BY <1>18 DEF Publish, seqVars
  <2>2. reg' = reg \/ reg' = [reg EXCEPT ![t] = 0]
    BY <1>18 DEF Publish
  <2>3. wr_seq \in Nat /\ \A u \in Threads : reg'[u] = reg[u] \/ reg'[u] = 0
    BY <2>2 DEF TypeOK
  <2> QED
    BY <2>1, <2>3 DEF SequenceInv
<1>19. ASSUME NEW t \in Threads, Swap(t) PROVE SequenceInv'
  BY <1>19 DEF TypeOK, SequenceInv, Swap, Goto, seqVars, queueVars, scanVars, counters
<1>20. ASSUME NEW t \in Threads, LookForWork(t) PROVE SequenceInv'
  BY <1>20 DEF TypeOK, SequenceInv, LookForWork, Goto, seqVars, queueVars, scanVars, counters
<1>21. ASSUME NEW t \in Threads, TryLock(t) PROVE SequenceInv'
  BY <1>21 DEF TypeOK, SequenceInv, TryLock, Goto, seqVars, queueVars, scanVars, counters
<1>22. ASSUME NEW t \in Threads, Unlock(t) PROVE SequenceInv'
  BY <1>22 DEF TypeOK, SequenceInv, Unlock, Goto, seqVars, queueVars, scanVars, counters
<1>23. ASSUME NEW t \in Threads, ScanBegin(t) PROVE SequenceInv'
  BY <1>23 DEF TypeOK, SequenceInv, ScanBegin, Goto, seqVars, queueVars, scanVars, counters
<1>24. ASSUME NEW t \in Threads, NEW u \in Threads, AbandonOther(t, u) PROVE SequenceInv'
  BY <1>24 DEF TypeOK, SequenceInv, AbandonOther, Goto, seqVars, queueVars, scanVars, counters
<1> QED
  BY <1>1, <1>2, <1>3, <1>4, <1>5, <1>6, <1>7, <1>8, <1>9, <1>10, <1>11, <1>12, <1>13, <1>14, <1>15, <1>16, <1>17, <1>18, <1>19, <1>20, <1>21, <1>22, <1>23, <1>24 DEF Next

(* Who is online, and who may hold a node.                                 *)
LEMMA OnlineStep ==
  ASSUME TypeOK, SequenceInv, ProcessInv, OnlineInv, [Next]_vars
  PROVE  OnlineInv'
<1>1. CASE UNCHANGED vars
  BY <1>1 DEF TypeOK, SequenceInv, OnlineInv, Places, QSBR_OFFLINE, vars, seqVars, queueVars, scanVars, counters
<1>2. ASSUME NEW t \in Threads, Register(t) PROVE OnlineInv'
  BY <1>2 DEF TypeOK, SequenceInv, OnlineInv, Places, QSBR_OFFLINE, Register, Goto, seqVars, queueVars, scanVars, counters
<1>3. ASSUME NEW t \in Threads, AttachLoad(t) PROVE OnlineInv'
  BY <1>3 DEF TypeOK, SequenceInv, OnlineInv, Places, QSBR_OFFLINE, AttachLoad, Goto, seqVars, queueVars, scanVars, counters
<1>4. ASSUME NEW t \in Threads, AttachStore(t) PROVE OnlineInv'
  BY <1>4 DEF TypeOK, SequenceInv, OnlineInv, Places, QSBR_OFFLINE, AttachStore, Goto, seqVars, queueVars, scanVars, counters
<1>5. ASSUME NEW t \in Threads, Detach(t) PROVE OnlineInv'
  BY <1>5, SMTT(60) DEF TypeOK, SequenceInv, OnlineInv, Places, QSBR_OFFLINE, Detach, Goto, seqVars, queueVars, scanVars, counters
<1>6. ASSUME NEW t \in Threads, Read(t) PROVE OnlineInv'
  BY <1>6, QSBRAssumption DEF TypeOK, SequenceInv, OnlineInv, Places, QSBR_OFFLINE, Read, Goto, seqVars, queueVars, scanVars, counters
<1>7. ASSUME NEW t \in Threads, Drop(t) PROVE OnlineInv'
  BY <1>7 DEF TypeOK, SequenceInv, OnlineInv, Places, QSBR_OFFLINE, Drop, Goto, seqVars, queueVars, scanVars, counters
<1>8. ASSUME NEW t \in Threads, QuietLoad(t) PROVE OnlineInv'
  BY <1>8 DEF TypeOK, SequenceInv, OnlineInv, Places, QSBR_OFFLINE, QuietLoad, Goto, seqVars, queueVars, scanVars, counters
<1>9. ASSUME NEW t \in Threads, QuietStore(t) PROVE OnlineInv'
  BY <1>9 DEF TypeOK, SequenceInv, OnlineInv, Places, QSBR_OFFLINE, QuietStore, Goto, seqVars, queueVars, scanVars, counters
<1>10. ASSUME NEW t \in Threads, NEW node \in Nodes, Replace(t, node) PROVE OnlineInv'
  BY <1>10, QSBRAssumption DEF TypeOK, SequenceInv, OnlineInv, Places, QSBR_OFFLINE, Replace, Goto, seqVars, queueVars, scanVars, counters
<1>11. ASSUME NEW t \in Threads, NEW large \in BOOLEAN, NEW full \in BOOLEAN, Retire(t, large, full) PROVE OnlineInv'
  BY <1>11, SMTT(60) DEF TypeOK, SequenceInv, OnlineInv, Places, QSBR_OFFLINE, Retire, Goto, seqVars, queueVars, scanVars, counters, QSBR_INCR
<1>12. ASSUME NEW t \in Threads, RetireNow(t) PROVE OnlineInv'
  BY <1>12 DEF TypeOK, SequenceInv, OnlineInv, Places, QSBR_OFFLINE, RetireNow, Goto, seqVars, queueVars, scanVars, counters
<1>13. ASSUME NEW t \in Threads, Process(t) PROVE OnlineInv'
  BY <1>13 DEF TypeOK, SequenceInv, OnlineInv, Places, QSBR_OFFLINE, Process, Goto, seqVars, queueVars, scanVars, counters, ProcessInv
<1>14. ASSUME NEW t \in Threads, Abandon(t) PROVE OnlineInv'
  BY <1>14, SMTT(60) DEF TypeOK, SequenceInv, OnlineInv, Places, QSBR_OFFLINE, Abandon, Goto, seqVars, queueVars, scanVars, counters
<1>15. ASSUME NEW t \in Threads, Collect(t) PROVE OnlineInv'
  BY <1>15, SMTT(60) DEF TypeOK, SequenceInv, OnlineInv, Places, QSBR_OFFLINE, Collect, Goto, seqVars, queueVars, scanVars, counters, QSBR_INCR
<1>16. ASSUME NEW t \in Threads, Poll(t) PROVE OnlineInv'
  <2>1. seq' = seq /\ holds' = holds /\ old' = old
    BY <1>16 DEF Poll, seqVars
  <2>2. /\ \A u \in Threads \ {t} : pc'[u] = pc[u]
        /\ pc'[t] \in {"work", "done", "poll", "load", "swap"}
    BY <1>16, PollEffect
  <2>3. pc[t] \in {"poll", "publish", "swap"}
    BY <1>16 DEF Poll
  <2>4. \A u \in Threads \ {t} : reg'[u] = reg[u]
    BY <1>16 DEF Poll, TypeOK, scanVars
  <2> QED
    BY <2>1, <2>2, <2>3, <2>4 DEF OnlineInv
<1>17. ASSUME NEW t \in Threads, NEW u \in Threads, Scan(t, u) PROVE OnlineInv'
  BY <1>17 DEF TypeOK, SequenceInv, OnlineInv, Places, QSBR_OFFLINE, Scan, Goto, seqVars, queueVars, scanVars, counters
<1>18. ASSUME NEW t \in Threads, Publish(t) PROVE OnlineInv'
  <2>1. seq' = seq /\ holds' = holds /\ old' = old
    BY <1>18 DEF Publish, seqVars
  <2>2. /\ \A u \in Threads \ {t} : pc'[u] = pc[u]
        /\ pc'[t] \in {"work", "done", "poll", "load", "swap"}
    BY <1>18, PollEffect
  <2>3. pc[t] \in {"poll", "publish", "swap"}
    BY <1>18 DEF Publish
  <2>4. \A u \in Threads \ {t} : reg'[u] = reg[u]
    BY <1>18 DEF Publish, TypeOK
  <2> QED
    BY <2>1, <2>2, <2>3, <2>4 DEF OnlineInv
<1>19. ASSUME NEW t \in Threads, Swap(t) PROVE OnlineInv'
  <2>1. seq' = seq /\ holds' = holds /\ old' = old
    BY <1>19 DEF Swap, seqVars
  <2>2. /\ \A u \in Threads \ {t} : pc'[u] = pc[u]
        /\ pc'[t] \in {"work", "done", "poll", "load", "swap"}
    BY <1>19, PollEffect
  <2>3. pc[t] \in {"poll", "publish", "swap"}
    BY <1>19 DEF Swap
  <2>4. \A u \in Threads \ {t} : reg'[u] = reg[u]
    BY <1>19 DEF Swap, TypeOK
  <2> QED
    BY <2>1, <2>2, <2>3, <2>4 DEF OnlineInv
<1>20. ASSUME NEW t \in Threads, LookForWork(t) PROVE OnlineInv'
  BY <1>20 DEF TypeOK, SequenceInv, OnlineInv, Places, QSBR_OFFLINE, LookForWork, Goto, seqVars, queueVars, scanVars, counters
<1>21. ASSUME NEW t \in Threads, TryLock(t) PROVE OnlineInv'
  BY <1>21, SMTT(60) DEF TypeOK, SequenceInv, OnlineInv, Places, QSBR_OFFLINE, TryLock, Goto, seqVars, queueVars, scanVars, counters
<1>22. ASSUME NEW t \in Threads, Unlock(t) PROVE OnlineInv'
  BY <1>22 DEF TypeOK, SequenceInv, OnlineInv, Places, QSBR_OFFLINE, Unlock, Goto, seqVars, queueVars, scanVars, counters, ProcessInv
<1>23. ASSUME NEW t \in Threads, ScanBegin(t) PROVE OnlineInv'
  BY <1>23 DEF TypeOK, SequenceInv, OnlineInv, Places, QSBR_OFFLINE, ScanBegin, Goto, seqVars, queueVars, scanVars, counters
<1>24. ASSUME NEW t \in Threads, NEW u \in Threads, AbandonOther(t, u) PROVE OnlineInv'
  BY <1>24, SMTT(60) DEF TypeOK, SequenceInv, OnlineInv, Places, QSBR_OFFLINE, AbandonOther, Goto, seqVars, queueVars, scanVars, counters
<1> QED
  BY <1>1, <1>2, <1>3, <1>4, <1>5, <1>6, <1>7, <1>8, <1>9, <1>10, <1>11, <1>12, <1>13, <1>14, <1>15, <1>16, <1>17, <1>18, <1>19, <1>20, <1>21, <1>22, <1>23, <1>24 DEF Next

(* Who processes which queue.                                              *)
LEMMA ProcessStep ==
  ASSUME TypeOK, OnlineInv, ProcessInv, [Next]_vars
  PROVE  ProcessInv'
<1>1. CASE UNCHANGED vars
  BY <1>1 DEF TypeOK, ProcessInv, Scanning, Polling, Queue, Places, vars, seqVars, queueVars, scanVars, counters
<1>2. ASSUME NEW t \in Threads, Register(t) PROVE ProcessInv'
  BY <1>2 DEF TypeOK, ProcessInv, Scanning, Polling, Queue, Places, Register, Goto, seqVars, queueVars, scanVars, counters
<1>3. ASSUME NEW t \in Threads, AttachLoad(t) PROVE ProcessInv'
  BY <1>3 DEF TypeOK, ProcessInv, Scanning, Polling, Queue, Places, AttachLoad, Goto, seqVars, queueVars, scanVars, counters
<1>4. ASSUME NEW t \in Threads, AttachStore(t) PROVE ProcessInv'
  BY <1>4 DEF TypeOK, ProcessInv, Scanning, Polling, Queue, Places, AttachStore, Goto, seqVars, queueVars, scanVars, counters
<1>5. ASSUME NEW t \in Threads, Detach(t) PROVE ProcessInv'
  <2>1. /\ source' = source /\ mutex' = mutex /\ slots' = slots
        /\ queue' = queue /\ interpQueue' = interpQueue
        /\ pc[t] \in {"on", "ending"}
        /\ \E place \in {"off", "none"} : pc' = [pc EXCEPT ![t] = place]
    BY <1>5 DEF Detach, Goto, queueVars, scanVars
  <2>2. \A u \in Threads : Queue(u)' = Queue(u)
    BY <2>1 DEF Queue
  <2>3. \A u \in Threads \ {t} : pc'[u] = pc[u]
    BY <2>1 DEF TypeOK
  <2>4. pc'[t] \in {"off", "none"}
    BY <2>1 DEF TypeOK
  <2> QED
    BY <2>1, <2>2, <2>3, <2>4 DEF ProcessInv, Scanning, Polling
<1>6. ASSUME NEW t \in Threads, Read(t) PROVE ProcessInv'
  BY <1>6 DEF TypeOK, ProcessInv, Scanning, Polling, Queue, Places, Read, Goto, seqVars, queueVars, scanVars, counters
<1>7. ASSUME NEW t \in Threads, Drop(t) PROVE ProcessInv'
  BY <1>7 DEF TypeOK, ProcessInv, Scanning, Polling, Queue, Places, Drop, Goto, seqVars, queueVars, scanVars, counters
<1>8. ASSUME NEW t \in Threads, QuietLoad(t) PROVE ProcessInv'
  BY <1>8 DEF TypeOK, ProcessInv, Scanning, Polling, Queue, Places, QuietLoad, Goto, seqVars, queueVars, scanVars, counters
<1>9. ASSUME NEW t \in Threads, QuietStore(t) PROVE ProcessInv'
  BY <1>9 DEF TypeOK, ProcessInv, Scanning, Polling, Queue, Places, QuietStore, Goto, seqVars, queueVars, scanVars, counters
<1>10. ASSUME NEW t \in Threads, NEW node \in Nodes, Replace(t, node) PROVE ProcessInv'
  BY <1>10 DEF TypeOK, ProcessInv, Scanning, Polling, Queue, Places, Replace, Goto, seqVars, queueVars, scanVars, counters
<1>11. ASSUME NEW t \in Threads, NEW large \in BOOLEAN, NEW full \in BOOLEAN, Retire(t, large, full) PROVE ProcessInv'
  <2>1. /\ mutex' = mutex /\ slots' = slots /\ interpQueue' = interpQueue /\ pc[t] = "retire"
        /\ \E q : queue' = [queue EXCEPT ![t] = q]
        /\ source' = source \/ source' = [source EXCEPT ![t] = "own"]
        /\ pc' = [pc EXCEPT ![t] = "on"] \/ pc' = [pc EXCEPT ![t] = "poll"]
    BY <1>11 DEF Retire, Goto, scanVars
  <2>2. source[t] = "own"
    BY <2>1 DEF ProcessInv, Scanning, Polling
  <2>3. source'[t] = "own" /\ pc'[t] \in {"on", "poll"}
    BY <2>1, <2>2 DEF TypeOK
  <2>4. \A u \in Threads \ {t} : source'[u] = source[u] /\ pc'[u] = pc[u] /\ queue'[u] = queue[u]
    BY <2>1 DEF TypeOK
  <2>5. \A u \in Threads \ {t} : Queue(u)' = Queue(u)
    BY <2>1, <2>4 DEF Queue
  <2> QED
    BY <2>1, <2>2, <2>3, <2>4, <2>5 DEF ProcessInv, Scanning, Polling
<1>12. ASSUME NEW t \in Threads, RetireNow(t) PROVE ProcessInv'
  BY <1>12 DEF TypeOK, ProcessInv, Scanning, Polling, Queue, Places, RetireNow, Goto, seqVars, queueVars, scanVars, counters
<1>13. ASSUME NEW t \in Threads, Process(t) PROVE ProcessInv'
  BY <1>13, SMTT(60) DEF TypeOK, ProcessInv, Scanning, Polling, Queue, Places, Process, Goto, seqVars, queueVars, scanVars, counters
<1>14. ASSUME NEW t \in Threads, Abandon(t) PROVE ProcessInv'
  <2>1. CASE queue[t] = <<>>
    BY <1>14, <2>1, SMTT(60) DEF TypeOK, ProcessInv, Scanning, Polling, Queue, Abandon, Goto, queueVars, scanVars
  <2>2. CASE queue[t] # <<>>
    <3>1. mutex = NULL /\ mutex' = t /\ \A u \in Threads : source[u] = "own"
      BY <1>14, <2>2, QSBRAssumption DEF Abandon, ProcessInv
    <3>2. /\ source' = [source EXCEPT ![t] = "abandon"] /\ pc' = [pc EXCEPT ![t] = "poll"]
          /\ queue' = [queue EXCEPT ![t] = <<>>] /\ slots' = slots
      BY <1>14, <2>2 DEF Abandon, Goto, scanVars
    <3>3. \A u \in Threads \ {t} : Queue(u)' = Queue(u) /\ pc'[u] = pc[u] /\ source'[u] = "own"
      BY <3>1, <3>2 DEF TypeOK, Queue
    <3>4. pc'[t] = "poll" /\ source'[t] = "abandon"
      BY <3>2 DEF TypeOK
    <3> QED
      BY <3>1, <3>2, <3>3, <3>4 DEF ProcessInv, Scanning, Polling
  <2> QED
    BY <2>1, <2>2
<1>15. ASSUME NEW t \in Threads, Collect(t) PROVE ProcessInv'
  BY <1>15 DEF TypeOK, ProcessInv, Scanning, Polling, Queue, Places, Collect, Goto, seqVars, queueVars, scanVars, counters, WorldStopped, QSBR_INCR
<1>16. ASSUME NEW t \in Threads, Poll(t) PROVE ProcessInv'
  <2>1. \A u \in Threads \ {t} : pc'[u] = pc[u] /\ queue'[u] = queue[u]
    BY <1>16, PollEffect
  <2>2. source' = source /\ mutex' = mutex
    BY <1>16 DEF Poll
  <2>3. source[t] # "own" => interpQueue' = interpQueue \/ mutex = t
    BY DEF ProcessInv
  <2>4. \A u \in Threads \ {t} : Queue(u)' = Queue(u) \/ (source[u] # "own" /\ source[t] # "own")
    <3>1. source[t] = "own" => interpQueue' = interpQueue
      BY <1>16, PollEffect
    <3> TAKE u \in Threads \ {t}
    <3>2. source[u] = "own" => Queue(u)' = Queue(u)
      BY <2>1, <2>2 DEF Queue
    <3>3. source[u] # "own" /\ source[t] = "own" => Queue(u)' = Queue(u)
      BY <2>2, <3>1 DEF Queue
    <3> QED
      BY <3>2, <3>3
  <2>5. \A u \in Threads \ {t} : Queue(u)' = Queue(u)
    BY <2>4 DEF ProcessInv
  <2>6. pc'[t] \in {"work", "done", "poll", "load", "swap"}
    BY <1>16, PollEffect
  <2>7. pc'[t] \in {"load", "swap"} => Queue(t)' # <<>>
    <3>1. pc'[t] \in {"load", "swap"} => queue' = queue /\ interpQueue' = interpQueue /\ Queue(t) # <<>>
      BY <1>16, PollEffect
    <3> QED
      BY <2>2, <3>1 DEF Queue
  <2>9. (pc'[t] = "done" => source[t] # "own") /\ (source[t] # "own" => pc'[t] # "work")
    BY <1>16, PollEffect
  <2>10. pc'[t] = "swap" => slots'[t] = {}
    BY <1>16 DEF Poll, scanVars, ProcessInv, Scanning, Polling, Free, Leave, Answer, Goto, TypeOK
  <2>11. \A u \in Threads \ {t} : slots'[u] = slots[u]
    BY <1>16 DEF Poll, TypeOK, scanVars
  <2> QED
    BY <2>1, <2>2, <2>5, <2>6, <2>7, <2>9, <2>10, <2>11 DEF ProcessInv, Scanning, Polling
<1>17. ASSUME NEW t \in Threads, NEW u \in Threads, Scan(t, u) PROVE ProcessInv'
  BY <1>17 DEF TypeOK, ProcessInv, Scanning, Polling, Queue, Places, Scan, Goto, seqVars, queueVars, scanVars, counters
<1>18. ASSUME NEW t \in Threads, Publish(t) PROVE ProcessInv'
  <2>1. \A u \in Threads \ {t} : pc'[u] = pc[u] /\ queue'[u] = queue[u]
    BY <1>18, PollEffect
  <2>2. source' = source /\ mutex' = mutex
    BY <1>18 DEF Publish
  <2>3. source[t] # "own" => interpQueue' = interpQueue \/ mutex = t
    BY DEF ProcessInv
  <2>4. \A u \in Threads \ {t} : Queue(u)' = Queue(u) \/ (source[u] # "own" /\ source[t] # "own")
    <3>1. source[t] = "own" => interpQueue' = interpQueue
      BY <1>18, PollEffect
    <3> TAKE u \in Threads \ {t}
    <3>2. source[u] = "own" => Queue(u)' = Queue(u)
      BY <2>1, <2>2 DEF Queue
    <3>3. source[u] # "own" /\ source[t] = "own" => Queue(u)' = Queue(u)
      BY <2>2, <3>1 DEF Queue
    <3> QED
      BY <3>2, <3>3
  <2>5. \A u \in Threads \ {t} : Queue(u)' = Queue(u)
    BY <2>4 DEF ProcessInv
  <2>6. pc'[t] \in {"work", "done", "poll", "load", "swap"}
    BY <1>18, PollEffect
  <2>7. pc'[t] \in {"load", "swap"} => Queue(t)' # <<>>
    <3>1. pc'[t] \in {"load", "swap"} => queue' = queue /\ interpQueue' = interpQueue /\ Queue(t) # <<>>
      BY <1>18, PollEffect
    <3> QED
      BY <2>2, <3>1 DEF Queue
  <2>9. (pc'[t] = "done" => source[t] # "own") /\ (source[t] # "own" => pc'[t] # "work")
    BY <1>18, PollEffect
  <2>10. pc'[t] = "swap" => slots'[t] = {}
    BY <1>18 DEF Publish, ProcessInv, Scanning, Polling, Free, Leave, Answer, Goto, TypeOK
  <2>11. \A u \in Threads \ {t} : slots'[u] = slots[u]
    BY <1>18 DEF Publish, TypeOK
  <2> QED
    BY <2>1, <2>2, <2>5, <2>6, <2>7, <2>9, <2>10, <2>11 DEF ProcessInv, Scanning, Polling
<1>19. ASSUME NEW t \in Threads, Swap(t) PROVE ProcessInv'
  <2>1. \A u \in Threads \ {t} : pc'[u] = pc[u] /\ queue'[u] = queue[u]
    BY <1>19, PollEffect
  <2>2. source' = source /\ mutex' = mutex
    BY <1>19 DEF Swap
  <2>3. source[t] # "own" => interpQueue' = interpQueue \/ mutex = t
    BY DEF ProcessInv
  <2>4. \A u \in Threads \ {t} : Queue(u)' = Queue(u) \/ (source[u] # "own" /\ source[t] # "own")
    <3>1. source[t] = "own" => interpQueue' = interpQueue
      BY <1>19, PollEffect
    <3> TAKE u \in Threads \ {t}
    <3>2. source[u] = "own" => Queue(u)' = Queue(u)
      BY <2>1, <2>2 DEF Queue
    <3>3. source[u] # "own" /\ source[t] = "own" => Queue(u)' = Queue(u)
      BY <2>2, <3>1 DEF Queue
    <3> QED
      BY <3>2, <3>3
  <2>5. \A u \in Threads \ {t} : Queue(u)' = Queue(u)
    BY <2>4 DEF ProcessInv
  <2>6. pc'[t] \in {"work", "done", "poll", "load", "swap"}
    BY <1>19, PollEffect
  <2>7. pc'[t] \in {"load", "swap"} => Queue(t)' # <<>>
    <3>1. pc'[t] \in {"load", "swap"} => queue' = queue /\ interpQueue' = interpQueue /\ Queue(t) # <<>>
      BY <1>19, PollEffect
    <3> QED
      BY <2>2, <3>1 DEF Queue
  <2>9. (pc'[t] = "done" => source[t] # "own") /\ (source[t] # "own" => pc'[t] # "work")
    BY <1>19, PollEffect
  <2>10. pc'[t] = "swap" => slots'[t] = {}
    BY <1>19 DEF Swap, ProcessInv, Scanning, Polling, Free, Leave, Answer, Goto, TypeOK
  <2>11. \A u \in Threads \ {t} : slots'[u] = slots[u]
    BY <1>19 DEF Swap, TypeOK
  <2> QED
    BY <2>1, <2>2, <2>5, <2>6, <2>7, <2>9, <2>10, <2>11 DEF ProcessInv, Scanning, Polling
<1>20. ASSUME NEW t \in Threads, LookForWork(t) PROVE ProcessInv'
  BY <1>20 DEF TypeOK, ProcessInv, Scanning, Polling, Queue, Places, LookForWork, Goto, seqVars, queueVars, scanVars, counters
<1>21. ASSUME NEW t \in Threads, TryLock(t) PROVE ProcessInv'
  <2>1. CASE mutex # NULL
    BY <1>21, <2>1 DEF TypeOK, ProcessInv, Scanning, Polling, Queue, TryLock, Goto, scanVars
  <2>2. CASE mutex = NULL
    <3>1. /\ mutex' = t /\ source' = [source EXCEPT ![t] = "interp"] /\ pc' = [pc EXCEPT ![t] = "poll"]
          /\ queue' = queue /\ interpQueue' = interpQueue /\ slots' = slots
      BY <1>21, <2>2 DEF TryLock, Goto, scanVars
    <3>2. \A u \in Threads : source[u] = "own"
      BY <2>2, QSBRAssumption DEF ProcessInv
    <3>3. \A u \in Threads \ {t} : Queue(u)' = Queue(u) /\ pc'[u] = pc[u] /\ source'[u] = "own"
      BY <3>1, <3>2 DEF TypeOK, Queue
    <3>4. pc'[t] = "poll" /\ source'[t] = "interp"
      BY <3>1 DEF TypeOK
    <3> QED
      BY <3>1, <3>3, <3>4 DEF ProcessInv, Scanning, Polling
  <2> QED
    BY <2>1, <2>2
<1>22. ASSUME NEW t \in Threads, Unlock(t) PROVE ProcessInv'
  BY <1>22, QSBRAssumption DEF TypeOK, ProcessInv, Scanning, Polling, Queue, Places, Unlock, Goto, seqVars, queueVars, scanVars, counters
<1>23. ASSUME NEW t \in Threads, ScanBegin(t) PROVE ProcessInv'
  BY <1>23 DEF TypeOK, ProcessInv, Scanning, Polling, Queue, Places, ScanBegin, Goto, seqVars, queueVars, scanVars, counters
<1>24. ASSUME NEW t \in Threads, NEW u \in Threads, AbandonOther(t, u) PROVE ProcessInv'
  <2>0. pc[t] = "on" /\ pc[u] = "off" /\ source[u] = "own" /\ slots' = slots
    BY <1>24 DEF AbandonOther, ProcessInv, Scanning, Polling, scanVars
  <2>1. CASE queue[u] = <<>>
    BY <1>24, <2>1, SMTT(60) DEF TypeOK, ProcessInv, Scanning, Polling, Queue, AbandonOther, Goto, queueVars, scanVars
  <2>2. CASE queue[u] # <<>>
    <3>1. mutex = NULL /\ mutex' = t /\ \A v \in Threads : source[v] = "own"
      BY <1>24, <2>2, QSBRAssumption DEF AbandonOther, ProcessInv
    <3>2. /\ source' = [source EXCEPT ![t] = "interp"] /\ pc' = [pc EXCEPT ![t] = "poll", ![u] = "none"]
          /\ queue' = [queue EXCEPT ![u] = <<>>]
      BY <1>24, <2>2 DEF AbandonOther
    <3>3. \A v \in Threads \ {t, u} : Queue(v)' = Queue(v) /\ pc'[v] = pc[v] /\ source'[v] = "own"
      BY <3>1, <3>2 DEF TypeOK, Queue
    <3>4. pc'[t] = "poll" /\ source'[t] = "interp" /\ pc'[u] = "none" /\ source'[u] = "own" /\ t # u
      BY <2>0, <3>1, <3>2 DEF TypeOK
    <3> QED
      BY <2>0, <3>1, <3>3, <3>4 DEF ProcessInv, Scanning, Polling
  <2> QED
    BY <2>1, <2>2
<1> QED
  BY <1>1, <1>2, <1>3, <1>4, <1>5, <1>6, <1>7, <1>8, <1>9, <1>10, <1>11, <1>12, <1>13, <1>14, <1>15, <1>16, <1>17, <1>18, <1>19, <1>20, <1>21, <1>22, <1>23, <1>24 DEF Next

(* Nodes are replaced one by one.                                          *)
LEMMA NodesStep ==
  ASSUME TypeOK, OnlineInv, NodesInv, [Next]_vars
  PROVE  NodesInv'
<1>1. CASE UNCHANGED vars
  BY <1>1 DEF TypeOK, NodesInv, vars, seqVars, queueVars, scanVars, counters
<1>2. ASSUME NEW t \in Threads, Register(t) PROVE NodesInv'
  BY <1>2 DEF TypeOK, NodesInv, Register, Goto, seqVars, queueVars, scanVars, counters
<1>3. ASSUME NEW t \in Threads, AttachLoad(t) PROVE NodesInv'
  BY <1>3 DEF TypeOK, NodesInv, AttachLoad, Goto, seqVars, queueVars, scanVars, counters
<1>4. ASSUME NEW t \in Threads, AttachStore(t) PROVE NodesInv'
  BY <1>4 DEF TypeOK, NodesInv, AttachStore, Goto, seqVars, queueVars, scanVars, counters
<1>5. ASSUME NEW t \in Threads, Detach(t) PROVE NodesInv'
  BY <1>5 DEF TypeOK, NodesInv, Detach, Goto, seqVars, queueVars, scanVars, counters
<1>6. ASSUME NEW t \in Threads, Read(t) PROVE NodesInv'
  BY <1>6 DEF TypeOK, NodesInv, Read, Goto, seqVars, queueVars, scanVars, counters
<1>7. ASSUME NEW t \in Threads, Drop(t) PROVE NodesInv'
  BY <1>7 DEF TypeOK, NodesInv, Drop, Goto, seqVars, queueVars, scanVars, counters
<1>8. ASSUME NEW t \in Threads, QuietLoad(t) PROVE NodesInv'
  BY <1>8 DEF TypeOK, NodesInv, QuietLoad, Goto, seqVars, queueVars, scanVars, counters
<1>9. ASSUME NEW t \in Threads, QuietStore(t) PROVE NodesInv'
  BY <1>9 DEF TypeOK, NodesInv, QuietStore, Goto, seqVars, queueVars, scanVars, counters
<1>10. ASSUME NEW t \in Threads, NEW node \in Nodes, Replace(t, node) PROVE NodesInv'
  BY <1>10, QSBRAssumption DEF TypeOK, NodesInv, Replace, Goto, seqVars, queueVars, scanVars, counters, Live
<1>11. ASSUME NEW t \in Threads, NEW large \in BOOLEAN, NEW full \in BOOLEAN, Retire(t, large, full) PROVE NodesInv'
  BY <1>11, QSBRAssumption DEF TypeOK, NodesInv, Retire, Goto, seqVars, queueVars, scanVars, counters, QSBR_INCR
<1>12. ASSUME NEW t \in Threads, RetireNow(t) PROVE NodesInv'
  BY <1>12, QSBRAssumption DEF TypeOK, NodesInv, RetireNow, Goto, seqVars, queueVars, scanVars, counters
<1>13. ASSUME NEW t \in Threads, Process(t) PROVE NodesInv'
  BY <1>13 DEF TypeOK, NodesInv, Process, Goto, seqVars, queueVars, scanVars, counters
<1>14. ASSUME NEW t \in Threads, Abandon(t) PROVE NodesInv'
  BY <1>14 DEF TypeOK, NodesInv, Abandon, Goto, seqVars, queueVars, scanVars, counters
<1>15. ASSUME NEW t \in Threads, Collect(t) PROVE NodesInv'
  BY <1>15 DEF TypeOK, NodesInv, Collect, Goto, seqVars, queueVars, scanVars, counters
<1>16. ASSUME NEW t \in Threads, Poll(t) PROVE NodesInv'
  BY <1>16 DEF TypeOK, NodesInv, Poll, Goto, seqVars, queueVars, scanVars, counters, Leave, Free, Queue
<1>17. ASSUME NEW t \in Threads, NEW u \in Threads, Scan(t, u) PROVE NodesInv'
  BY <1>17 DEF TypeOK, NodesInv, Scan, Goto, seqVars, queueVars, scanVars, counters
<1>18. ASSUME NEW t \in Threads, Publish(t) PROVE NodesInv'
  BY <1>18 DEF TypeOK, NodesInv, Publish, Goto, seqVars, queueVars, scanVars, counters, Answer, Leave, Free, Queue
<1>19. ASSUME NEW t \in Threads, Swap(t) PROVE NodesInv'
  BY <1>19 DEF TypeOK, NodesInv, Swap, Goto, seqVars, queueVars, scanVars, counters, Answer, Leave, Free, Queue
<1>20. ASSUME NEW t \in Threads, LookForWork(t) PROVE NodesInv'
  BY <1>20 DEF TypeOK, NodesInv, LookForWork, Goto, seqVars, queueVars, scanVars, counters
<1>21. ASSUME NEW t \in Threads, TryLock(t) PROVE NodesInv'
  BY <1>21 DEF TypeOK, NodesInv, TryLock, Goto, seqVars, queueVars, scanVars, counters
<1>22. ASSUME NEW t \in Threads, Unlock(t) PROVE NodesInv'
  BY <1>22 DEF TypeOK, NodesInv, Unlock, Goto, seqVars, queueVars, scanVars, counters
<1>23. ASSUME NEW t \in Threads, ScanBegin(t) PROVE NodesInv'
  BY <1>23 DEF TypeOK, NodesInv, ScanBegin, Goto, seqVars, queueVars, scanVars, counters
<1>24. ASSUME NEW t \in Threads, NEW u \in Threads, AbandonOther(t, u) PROVE NodesInv'
  BY <1>24 DEF TypeOK, NodesInv, AbandonOther, Goto, seqVars, queueVars, scanVars, counters
<1> QED
  BY <1>1, <1>2, <1>3, <1>4, <1>5, <1>6, <1>7, <1>8, <1>9, <1>10, <1>11, <1>12, <1>13, <1>14, <1>15, <1>16, <1>17, <1>18, <1>19, <1>20, <1>21, <1>22, <1>23, <1>24 DEF Next

(* Work is announced when the mutex is released.                           *)
LEMMA AnnouncedStep ==
  ASSUME TypeOK, ProcessInv, WorkAnnounced, [Next]_vars
  PROVE  WorkAnnounced'
<1>1. CASE UNCHANGED vars
  BY <1>1 DEF TypeOK, WorkAnnounced, vars, seqVars, queueVars, scanVars, counters
<1>2. ASSUME NEW t \in Threads, Register(t) PROVE WorkAnnounced'
  BY <1>2 DEF TypeOK, WorkAnnounced, Register, Goto, seqVars, queueVars, scanVars, counters
<1>3. ASSUME NEW t \in Threads, AttachLoad(t) PROVE WorkAnnounced'
  BY <1>3 DEF TypeOK, WorkAnnounced, AttachLoad, Goto, seqVars, queueVars, scanVars, counters
<1>4. ASSUME NEW t \in Threads, AttachStore(t) PROVE WorkAnnounced'
  BY <1>4 DEF TypeOK, WorkAnnounced, AttachStore, Goto, seqVars, queueVars, scanVars, counters
<1>5. ASSUME NEW t \in Threads, Detach(t) PROVE WorkAnnounced'
  BY <1>5 DEF TypeOK, WorkAnnounced, Detach, Goto, seqVars, queueVars, scanVars, counters
<1>6. ASSUME NEW t \in Threads, Read(t) PROVE WorkAnnounced'
  BY <1>6 DEF TypeOK, WorkAnnounced, Read, Goto, seqVars, queueVars, scanVars, counters
<1>7. ASSUME NEW t \in Threads, Drop(t) PROVE WorkAnnounced'
  BY <1>7 DEF TypeOK, WorkAnnounced, Drop, Goto, seqVars, queueVars, scanVars, counters
<1>8. ASSUME NEW t \in Threads, QuietLoad(t) PROVE WorkAnnounced'
  BY <1>8 DEF TypeOK, WorkAnnounced, QuietLoad, Goto, seqVars, queueVars, scanVars, counters
<1>9. ASSUME NEW t \in Threads, QuietStore(t) PROVE WorkAnnounced'
  BY <1>9 DEF TypeOK, WorkAnnounced, QuietStore, Goto, seqVars, queueVars, scanVars, counters
<1>10. ASSUME NEW t \in Threads, NEW node \in Nodes, Replace(t, node) PROVE WorkAnnounced'
  BY <1>10 DEF TypeOK, WorkAnnounced, Replace, Goto, seqVars, queueVars, scanVars, counters
<1>11. ASSUME NEW t \in Threads, NEW large \in BOOLEAN, NEW full \in BOOLEAN, Retire(t, large, full) PROVE WorkAnnounced'
  BY <1>11 DEF TypeOK, WorkAnnounced, Retire, Goto, seqVars, queueVars, scanVars, counters
<1>12. ASSUME NEW t \in Threads, RetireNow(t) PROVE WorkAnnounced'
  BY <1>12 DEF TypeOK, WorkAnnounced, RetireNow, Goto, seqVars, queueVars, scanVars, counters
<1>13. ASSUME NEW t \in Threads, Process(t) PROVE WorkAnnounced'
  BY <1>13 DEF TypeOK, WorkAnnounced, Process, Goto, seqVars, queueVars, scanVars, counters
<1>14. ASSUME NEW t \in Threads, Abandon(t) PROVE WorkAnnounced'
  BY <1>14, QSBRAssumption DEF TypeOK, WorkAnnounced, Abandon, Goto, seqVars, queueVars, scanVars, counters
<1>15. ASSUME NEW t \in Threads, Collect(t) PROVE WorkAnnounced'
  BY <1>15 DEF TypeOK, WorkAnnounced, Collect, Goto, seqVars, queueVars, scanVars, counters
<1>16. ASSUME NEW t \in Threads, Poll(t) PROVE WorkAnnounced'
  BY <1>16 DEF TypeOK, WorkAnnounced, Poll, Goto, seqVars, queueVars, scanVars, counters, ProcessInv, Leave, Free, Queue
<1>17. ASSUME NEW t \in Threads, NEW u \in Threads, Scan(t, u) PROVE WorkAnnounced'
  BY <1>17 DEF TypeOK, WorkAnnounced, Scan, Goto, seqVars, queueVars, scanVars, counters
<1>18. ASSUME NEW t \in Threads, Publish(t) PROVE WorkAnnounced'
  BY <1>18 DEF TypeOK, WorkAnnounced, Publish, Goto, seqVars, queueVars, scanVars, counters, ProcessInv, Answer, Leave, Free, Queue
<1>19. ASSUME NEW t \in Threads, Swap(t) PROVE WorkAnnounced'
  BY <1>19 DEF TypeOK, WorkAnnounced, Swap, Goto, seqVars, queueVars, scanVars, counters, ProcessInv, Answer, Leave, Free, Queue
<1>20. ASSUME NEW t \in Threads, LookForWork(t) PROVE WorkAnnounced'
  BY <1>20 DEF TypeOK, WorkAnnounced, LookForWork, Goto, seqVars, queueVars, scanVars, counters
<1>21. ASSUME NEW t \in Threads, TryLock(t) PROVE WorkAnnounced'
  BY <1>21, QSBRAssumption DEF TypeOK, WorkAnnounced, TryLock, Goto, seqVars, queueVars, scanVars, counters
<1>22. ASSUME NEW t \in Threads, Unlock(t) PROVE WorkAnnounced'
  BY <1>22 DEF TypeOK, WorkAnnounced, Unlock, Goto, seqVars, queueVars, scanVars, counters
<1>23. ASSUME NEW t \in Threads, ScanBegin(t) PROVE WorkAnnounced'
  BY <1>23 DEF TypeOK, WorkAnnounced, ScanBegin, Goto, seqVars, queueVars, scanVars, counters
<1>24. ASSUME NEW t \in Threads, NEW u \in Threads, AbandonOther(t, u) PROVE WorkAnnounced'
  BY <1>24, QSBRAssumption DEF TypeOK, WorkAnnounced, AbandonOther, Goto, seqVars, queueVars, scanVars, counters
<1> QED
  BY <1>1, <1>2, <1>3, <1>4, <1>5, <1>6, <1>7, <1>8, <1>9, <1>10, <1>11, <1>12, <1>13, <1>14, <1>15, <1>16, <1>17, <1>18, <1>19, <1>20, <1>21, <1>22, <1>23, <1>24 DEF Next

-----------------------------------------------------------------------------
(* The nodes of a family of queues are at one place each: that is kept by  *)
(* taking an item off, by appending a new one and by handing over.         *)
Distinct(Q, O) ==
  \A o, p \in O : \A i \in DOMAIN Q[o], j \in DOMAIN Q[p] :
    Q[o][i].node = Q[p][j].node => p = o /\ j = i

LEMMA DistinctTail ==
  ASSUME NEW S, NEW O, NEW Q \in [O -> Seq(S)], NEW R, Distinct(Q, O),
         NEW w \in O, Q[w] # <<>>, R[w] = Tail(Q[w]), \A o \in O \ {w} : R[o] = Q[o]
  PROVE  Distinct(R, O)
<1>1. \A i \in DOMAIN R[w] : i \in Nat /\ i + 1 \in DOMAIN Q[w] /\ R[w][i] = Q[w][i + 1]
  BY TailFacts
<1> SUFFICES ASSUME NEW o \in O, NEW p \in O, NEW i \in DOMAIN R[o], NEW j \in DOMAIN R[p],
                    R[o][i].node = R[p][j].node
             PROVE  p = o /\ j = i
  BY DEF Distinct
<1>2. CASE o = w /\ p = w
  <2>1. i \in Nat /\ i + 1 \in DOMAIN Q[w] /\ R[w][i] = Q[w][i + 1]
    BY <1>1, <1>2
  <2>2. j \in Nat /\ j + 1 \in DOMAIN Q[w] /\ R[w][j] = Q[w][j + 1]
    BY <1>1, <1>2
  <2>3. i + 1 = j + 1
    <3>1. Q[w][i + 1].node = Q[w][j + 1].node
      BY <1>2, <2>1, <2>2
    <3> QED
      BY <2>1, <2>2, <3>1 DEF Distinct
  <2> QED
    BY <1>2, <2>1, <2>2, <2>3
<1>3. CASE o = w /\ p # w
  <2>1. i + 1 \in DOMAIN Q[w] /\ R[w][i] = Q[w][i + 1]
    BY <1>1, <1>3
  <2> QED
    BY <1>3, <2>1 DEF Distinct
<1>4. CASE o # w /\ p = w
  <2>1. j + 1 \in DOMAIN Q[w] /\ R[w][j] = Q[w][j + 1]
    BY <1>1, <1>4
  <2> QED
    BY <1>4, <2>1 DEF Distinct
<1>5. CASE o # w /\ p # w
  BY <1>5 DEF Distinct
<1> QED
  BY <1>2, <1>3, <1>4, <1>5

LEMMA DistinctAppend ==
  ASSUME NEW S, NEW O, NEW Q \in [O -> Seq(S)], NEW R, Distinct(Q, O),
         NEW w \in O, NEW e \in S, R[w] = Append(Q[w], e), \A o \in O \ {w} : R[o] = Q[o],
         \A o \in O : \A i \in DOMAIN Q[o] : Q[o][i].node # e.node
  PROVE  Distinct(R, O)
<1>1. \A i \in DOMAIN R[w] : \/ i \in DOMAIN Q[w] /\ R[w][i] = Q[w][i]
                             \/ i = Len(Q[w]) + 1 /\ R[w][i] = e
  BY AppendFacts
<1>2. \A o \in O : \A i \in DOMAIN R[o] :
        \/ i \in DOMAIN Q[o] /\ R[o][i] = Q[o][i]
        \/ o = w /\ i = Len(Q[w]) + 1 /\ R[o][i] = e
  BY <1>1
<1> QED
  BY <1>2, SMTT(60) DEF Distinct

LEMMA DistinctConcat ==
  ASSUME NEW S, NEW O, NEW Q \in [O -> Seq(S)], NEW R, Distinct(Q, O),
         NEW w \in O, NEW z \in O, w # z, R[w] = <<>>, R[z] = Q[z] \o Q[w],
         \A o \in O \ {w, z} : R[o] = Q[o]
  PROVE  Distinct(R, O)
<1> DEFINE From(o, i) == IF o # z \/ i \in DOMAIN Q[z] THEN o ELSE w
           At(o, i) == IF o # z \/ i \in DOMAIN Q[z] THEN i ELSE i - Len(Q[z])
<1>1. \A i \in DOMAIN R[z] :
        \/ i \in DOMAIN Q[z] /\ R[z][i] = Q[z][i]
        \/ /\ i \notin DOMAIN Q[z] /\ i - Len(Q[z]) \in DOMAIN Q[w] /\ i \in Nat
           /\ R[z][i] = Q[w][i - Len(Q[z])]
  BY ConcatFacts
<1>2. DOMAIN R[w] = {}
  OBVIOUS
<1>3. \A o \in O : \A i \in DOMAIN R[o] :
        /\ o # w /\ From(o, i) \in O /\ At(o, i) \in DOMAIN Q[From(o, i)]
        /\ R[o][i] = Q[From(o, i)][At(o, i)]
  BY <1>1, <1>2
<1>4. Len(Q[z]) \in Nat /\ \A i \in DOMAIN R[z] : i \in Int
  BY <1>1
<1>5. \A o, p \in O : \A i \in DOMAIN R[o], j \in DOMAIN R[p] :
        From(o, i) = From(p, j) /\ At(o, i) = At(p, j) => p = o /\ j = i
  BY <1>3, <1>4
<1>6. \A o, p \in O : \A i \in DOMAIN R[o], j \in DOMAIN R[p] :
        R[o][i].node = R[p][j].node => From(o, i) = From(p, j) /\ At(o, i) = At(p, j)
  <2> HIDE DEF From, At
  <2> QED
    BY <1>3 DEF Distinct
<1> QED
  BY <1>5, <1>6 DEF Distinct

-----------------------------------------------------------------------------
(* What a step does to the queues.                                         *)
Kept == \A o \in Owners : QueueOf(o)' = QueueOf(o)

FreesFirst ==
  \E w \in Owners :
    /\ QueueOf(w) # <<>> /\ QueueOf(w)' = Tail(QueueOf(w))
    /\ \A o \in Owners \ {w} : QueueOf(o)' = QueueOf(o)
    /\ \A u \in Threads : holds[u] # QueueOf(w)[1].node

Deferred(node) == [node |-> node, goal |-> wr_seq + QSBR_INCR]

Defers ==
  \E t \in Threads :
    /\ old[t] \in Nodes /\ old' = [old EXCEPT ![t] = NULL]
    /\ QueueOf(t)' = Append(QueueOf(t), Deferred(old[t]))
    /\ \A o \in Owners \ {t} : QueueOf(o)' = QueueOf(o)

HandsOver ==
  \E t \in Threads :
    /\ QueueOf(t)' = <<>> /\ QueueOf(NULL)' = QueueOf(NULL) \o QueueOf(t)
    /\ \A o \in Owners \ {t, NULL} : QueueOf(o)' = QueueOf(o)

Empties == \A o \in Owners : QueueOf(o)' = <<>>

LEMMA QueueTypes ==
  ASSUME TypeOK
  PROVE  \A o \in Owners : QueueOf(o) \in Seq(Items)
BY DEF TypeOK, Owners, QueueOf

(* What a poll frees is held by nobody: the promise it got, or what it has *)
(* seen of every thread, reaches the goal.                                 *)
LEMMA PollQueues ==
  ASSUME TypeOK, ProcessInv, GoalsInv, NEW t \in Threads, Poll(t) \/ Publish(t) \/ Swap(t)
  PROVE  Kept \/ FreesFirst
<1>a. (IF source[t] = "own" THEN t ELSE NULL) \in Owners
  BY DEF Owners
<1>b. PICK w \in Owners : w = IF source[t] = "own" THEN t ELSE NULL
  BY <1>a
<1>1. QueueOf(w) = Queue(t)
  BY <1>b, QSBRAssumption DEF QueueOf, Queue
<1>2. CASE queue' = queue /\ interpQueue' = interpQueue
  BY <1>2 DEF Kept, QueueOf
<1>3. CASE Queue(t) # <<>> /\ Free(t)
  <2>1. QueueOf(w)' = Tail(QueueOf(w))
    <3>1. CASE source[t] = "own"
      BY <1>b, <1>3, <3>1, FreeFacts, QSBRAssumption DEF QueueOf
    <3>2. CASE source[t] # "own"
      BY <1>b, <1>3, <3>2, FreeFacts, QSBRAssumption DEF QueueOf
    <3> QED
      BY <3>1, <3>2
  <2>2. \A o \in Owners \ {w} : QueueOf(o)' = QueueOf(o)
    BY <1>b, <1>3, FreeFacts, QSBRAssumption DEF QueueOf, Owners
  <2>3. 1 \in DOMAIN QueueOf(w) /\ Head(Queue(t)) = QueueOf(w)[1] /\ QueueOf(w)[1] \in Items
    BY <1>1, <1>3, QueueTypes, TailFacts
  <2>4. CASE \/ Leave(t) \/ pc' = [pc EXCEPT ![t] = "load"] \/ pc' = [pc EXCEPT ![t] = "swap"]
    <3>1. pc'[t] = "poll"
      BY <1>3, FreeFacts DEF TypeOK
    <3> QED
      BY <2>4, <3>1, LeaveFacts, ZenonT(60) DEF TypeOK
  <2>5. CASE /\ pc[t] \in {"poll", "publish", "swap"}
             /\ Head(Queue(t)).goal <= IF pc[t] = "swap" THEN reg[t] ELSE rd_seq
    <3>1. \A u \in Threads : holds[u] = QueueOf(w)[1].node =>
            /\ rd_seq < QueueOf(w)[1].goal
            /\ pc[t] = "swap" => reg[t] < QueueOf(w)[1].goal
      BY <1>1, <2>3 DEF GoalsInv, ProcessInv, Scanning, Polling
    <3>2. QueueOf(w)[1].goal \in Nat /\ rd_seq \in Nat /\ reg[t] \in Nat
      BY <2>3 DEF TypeOK, Items
    <3>3. \A u \in Threads : holds[u] # QueueOf(w)[1].node
      BY <2>3, <2>5, <3>1, <3>2
    <3>4. QueueOf(w) # <<>>
      BY <1>1, <1>3
    <3> QED
      BY <1>1, <2>1, <2>2, <3>3, <3>4 DEF FreesFirst
  <2> QED
    BY <2>4, <2>5, PollFacts
<1> QED
  BY <1>2, <1>3, PollFacts, LeaveFacts

LEMMA RetireQueues ==
  ASSUME TypeOK, OnlineInv, NEW t \in Threads, NEW large \in BOOLEAN, NEW full \in BOOLEAN,
         Retire(t, large, full)
  PROVE  Defers
<1>1. old[t] \in Nodes /\ old' = [old EXCEPT ![t] = NULL]
  BY DEF Retire, OnlineInv, TypeOK
<1>2. interpQueue' = interpQueue /\ queue' = [queue EXCEPT ![t] = Append(@, Deferred(old[t]))]
  BY DEF Retire, Deferred
<1>3. QueueOf(t)' = Append(QueueOf(t), Deferred(old[t]))
  BY <1>2, QSBRAssumption DEF TypeOK, QueueOf
<1>4. \A o \in Owners \ {t} : QueueOf(o)' = QueueOf(o)
  BY <1>2 DEF TypeOK, QueueOf, Owners
<1> QED
  BY <1>1, <1>3, <1>4 DEF Defers

LEMMA AbandonQueues ==
  ASSUME TypeOK, NEW t \in Threads, Abandon(t)
  PROVE  Kept \/ HandsOver
<1>1. CASE queue[t] = <<>>
  BY <1>1 DEF Abandon, Kept, QueueOf, queueVars
<1>2. CASE queue[t] # <<>>
  <2>1. interpQueue' = interpQueue \o queue[t] /\ queue' = [queue EXCEPT ![t] = <<>>]
    BY <1>2 DEF Abandon
  <2>2. QueueOf(t)' = <<>>
    BY <2>1, QSBRAssumption DEF TypeOK, QueueOf
  <2>3. QueueOf(NULL)' = QueueOf(NULL) \o QueueOf(t)
    BY <2>1, QSBRAssumption DEF QueueOf
  <2>4. \A o \in Owners \ {t, NULL} : QueueOf(o)' = QueueOf(o)
    BY <2>1 DEF TypeOK, QueueOf, Owners
  <2> QED
    BY <2>2, <2>3, <2>4 DEF HandsOver
<1> QED
  BY <1>1, <1>2

LEMMA AbandonOtherQueues ==
  ASSUME TypeOK, NEW t \in Threads, NEW u \in Threads, AbandonOther(t, u)
  PROVE  Kept \/ HandsOver
<1>1. CASE queue[u] = <<>>
  BY <1>1 DEF AbandonOther, Kept, QueueOf, queueVars
<1>2. CASE queue[u] # <<>>
  <2>1. interpQueue' = interpQueue \o queue[u] /\ queue' = [queue EXCEPT ![u] = <<>>]
    BY <1>2 DEF AbandonOther
  <2>2. QueueOf(u)' = <<>>
    BY <2>1, QSBRAssumption DEF TypeOK, QueueOf
  <2>3. QueueOf(NULL)' = QueueOf(NULL) \o QueueOf(u)
    BY <2>1, QSBRAssumption DEF QueueOf
  <2>4. \A o \in Owners \ {u, NULL} : QueueOf(o)' = QueueOf(o)
    BY <2>1 DEF TypeOK, QueueOf, Owners
  <2> QED
    BY <2>2, <2>3, <2>4 DEF HandsOver
<1> QED
  BY <1>1, <1>2

(* Every step does one of these.                                           *)
LEMMA QueueSteps ==
  ASSUME TypeOK, OnlineInv, ProcessInv, GoalsInv, [Next]_vars
  PROVE  Kept \/ FreesFirst \/ Defers \/ HandsOver \/ Empties
<1>1. CASE UNCHANGED vars
  BY <1>1 DEF Kept, QueueOf, vars, seqVars, queueVars, scanVars, counters
<1>2. ASSUME NEW t \in Threads, Register(t) PROVE Kept \/ FreesFirst \/ Defers \/ HandsOver \/ Empties
  BY <1>2 DEF Kept, QueueOf, Register, Goto, seqVars, queueVars, scanVars, counters
<1>3. ASSUME NEW t \in Threads, AttachLoad(t) PROVE Kept \/ FreesFirst \/ Defers \/ HandsOver \/ Empties
  BY <1>3 DEF Kept, QueueOf, AttachLoad, Goto, seqVars, queueVars, scanVars, counters
<1>4. ASSUME NEW t \in Threads, AttachStore(t) PROVE Kept \/ FreesFirst \/ Defers \/ HandsOver \/ Empties
  BY <1>4 DEF Kept, QueueOf, AttachStore, Goto, seqVars, queueVars, scanVars, counters
<1>5. ASSUME NEW t \in Threads, Detach(t) PROVE Kept \/ FreesFirst \/ Defers \/ HandsOver \/ Empties
  BY <1>5 DEF Kept, QueueOf, Detach, Goto, seqVars, queueVars, scanVars, counters
<1>6. ASSUME NEW t \in Threads, Read(t) PROVE Kept \/ FreesFirst \/ Defers \/ HandsOver \/ Empties
  BY <1>6 DEF Kept, QueueOf, Read, Goto, seqVars, queueVars, scanVars, counters
<1>7. ASSUME NEW t \in Threads, Drop(t) PROVE Kept \/ FreesFirst \/ Defers \/ HandsOver \/ Empties
  BY <1>7 DEF Kept, QueueOf, Drop, Goto, seqVars, queueVars, scanVars, counters
<1>8. ASSUME NEW t \in Threads, QuietLoad(t) PROVE Kept \/ FreesFirst \/ Defers \/ HandsOver \/ Empties
  BY <1>8 DEF Kept, QueueOf, QuietLoad, Goto, seqVars, queueVars, scanVars, counters
<1>9. ASSUME NEW t \in Threads, QuietStore(t) PROVE Kept \/ FreesFirst \/ Defers \/ HandsOver \/ Empties
  BY <1>9 DEF Kept, QueueOf, QuietStore, Goto, seqVars, queueVars, scanVars, counters
<1>10. ASSUME NEW t \in Threads, NEW node \in Nodes, Replace(t, node) PROVE Kept \/ FreesFirst \/ Defers \/ HandsOver \/ Empties
  BY <1>10 DEF Kept, QueueOf, Replace, Goto, seqVars, queueVars, scanVars, counters
<1>11. ASSUME NEW t \in Threads, NEW large \in BOOLEAN, NEW full \in BOOLEAN, Retire(t, large, full) PROVE Kept \/ FreesFirst \/ Defers \/ HandsOver \/ Empties
  BY <1>11, RetireQueues
<1>12. ASSUME NEW t \in Threads, RetireNow(t) PROVE Kept \/ FreesFirst \/ Defers \/ HandsOver \/ Empties
  BY <1>12 DEF Kept, QueueOf, RetireNow, Goto, seqVars, queueVars, scanVars, counters
<1>13. ASSUME NEW t \in Threads, Process(t) PROVE Kept \/ FreesFirst \/ Defers \/ HandsOver \/ Empties
  BY <1>13 DEF Kept, QueueOf, Process, Goto, seqVars, queueVars, scanVars, counters
<1>14. ASSUME NEW t \in Threads, Abandon(t) PROVE Kept \/ FreesFirst \/ Defers \/ HandsOver \/ Empties
  BY <1>14, AbandonQueues
<1>15. ASSUME NEW t \in Threads, Collect(t) PROVE Kept \/ FreesFirst \/ Defers \/ HandsOver \/ Empties
  BY <1>15 DEF Collect, Empties, QueueOf, Owners
<1>16. ASSUME NEW t \in Threads, Poll(t) PROVE Kept \/ FreesFirst \/ Defers \/ HandsOver \/ Empties
  BY <1>16, PollQueues
<1>17. ASSUME NEW t \in Threads, NEW u \in Threads, Scan(t, u) PROVE Kept \/ FreesFirst \/ Defers \/ HandsOver \/ Empties
  BY <1>17 DEF Kept, QueueOf, Scan, Goto, seqVars, queueVars, scanVars, counters
<1>18. ASSUME NEW t \in Threads, Publish(t) PROVE Kept \/ FreesFirst \/ Defers \/ HandsOver \/ Empties
  BY <1>18, PollQueues
<1>19. ASSUME NEW t \in Threads, Swap(t) PROVE Kept \/ FreesFirst \/ Defers \/ HandsOver \/ Empties
  BY <1>19, PollQueues
<1>20. ASSUME NEW t \in Threads, LookForWork(t) PROVE Kept \/ FreesFirst \/ Defers \/ HandsOver \/ Empties
  BY <1>20 DEF Kept, QueueOf, LookForWork, Goto, seqVars, queueVars, scanVars, counters
<1>21. ASSUME NEW t \in Threads, TryLock(t) PROVE Kept \/ FreesFirst \/ Defers \/ HandsOver \/ Empties
  BY <1>21 DEF Kept, QueueOf, TryLock, Goto, seqVars, queueVars, scanVars, counters
<1>22. ASSUME NEW t \in Threads, Unlock(t) PROVE Kept \/ FreesFirst \/ Defers \/ HandsOver \/ Empties
  BY <1>22 DEF Kept, QueueOf, Unlock, Goto, seqVars, queueVars, scanVars, counters
<1>23. ASSUME NEW t \in Threads, ScanBegin(t) PROVE Kept \/ FreesFirst \/ Defers \/ HandsOver \/ Empties
  BY <1>23 DEF Kept, QueueOf, ScanBegin, Goto, seqVars, queueVars, scanVars, counters
<1>24. ASSUME NEW t \in Threads, NEW u \in Threads, AbandonOther(t, u) PROVE Kept \/ FreesFirst \/ Defers \/ HandsOver \/ Empties
  BY <1>24, AbandonOtherQueues
<1> QED
  BY <1>1, <1>2, <1>3, <1>4, <1>5, <1>6, <1>7, <1>8, <1>9, <1>10, <1>11, <1>12, <1>13, <1>14, <1>15, <1>16, <1>17, <1>18, <1>19, <1>20, <1>21, <1>22, <1>23, <1>24 DEF Next

-----------------------------------------------------------------------------
(* An item that waits was waiting before, or has just been put there.      *)
LEMMA Origin ==
  ASSUME TypeOK, Kept \/ FreesFirst \/ Defers \/ HandsOver \/ Empties
  PROVE  \A o \in Owners : \A i \in DOMAIN QueueOf(o)' :
           \/ \E p \in Owners : \E j \in DOMAIN QueueOf(p) : QueueOf(p)[j] = QueueOf(o)'[i]
           \/ \E t \in Threads : /\ old[t] \in Nodes /\ old' = [old EXCEPT ![t] = NULL]
                                 /\ QueueOf(o)'[i] = Deferred(old[t])
<1> SUFFICES ASSUME NEW o \in Owners, NEW i \in DOMAIN QueueOf(o)'
             PROVE  \/ \E p \in Owners : \E j \in DOMAIN QueueOf(p) :
                         QueueOf(p)[j] = QueueOf(o)'[i]
                    \/ \E t \in Threads : /\ old[t] \in Nodes /\ old' = [old EXCEPT ![t] = NULL]
                                          /\ QueueOf(o)'[i] = Deferred(old[t])
  OBVIOUS
<1>a. NULL \in Owners /\ Threads \subseteq Owners
  BY DEF Owners
<1>1. CASE Kept
  BY <1>1 DEF Kept
<1>2. CASE FreesFirst
  <2>1. PICK w \in Owners : /\ QueueOf(w) # <<>> /\ QueueOf(w)' = Tail(QueueOf(w))
                            /\ \A p \in Owners \ {w} : QueueOf(p)' = QueueOf(p)
    BY <1>2 DEF FreesFirst
  <2>2. CASE o = w
    <3>1. i + 1 \in DOMAIN QueueOf(w) /\ QueueOf(o)'[i] = QueueOf(w)[i + 1]
      BY <2>1, <2>2, QueueTypes, TailFacts
    <3> QED
      BY <3>1
  <2>3. CASE o # w
    BY <2>1, <2>3
  <2> QED
    BY <2>2, <2>3
<1>3. CASE Defers
  <2>1. PICK t \in Threads : /\ old[t] \in Nodes /\ old' = [old EXCEPT ![t] = NULL]
                             /\ QueueOf(t)' = Append(QueueOf(t), Deferred(old[t]))
                             /\ \A p \in Owners \ {t} : QueueOf(p)' = QueueOf(p)
    BY <1>3 DEF Defers
  <2>2. Deferred(old[t]) \in Items
    BY <2>1 DEF Deferred, Items, TypeOK, QSBR_INCR
  <2>3. CASE o = t
    <3>1. \/ i \in DOMAIN QueueOf(t) /\ QueueOf(o)'[i] = QueueOf(t)[i]
          \/ QueueOf(o)'[i] = Deferred(old[t])
      BY <2>1, <2>2, <2>3, QueueTypes, AppendFacts
    <3> QED
      BY <1>a, <2>1, <3>1
  <2>4. CASE o # t
    BY <2>1, <2>4
  <2> QED
    BY <2>3, <2>4
<1>4. CASE HandsOver
  <2>1. PICK t \in Threads : /\ QueueOf(t)' = <<>> /\ QueueOf(NULL)' = QueueOf(NULL) \o QueueOf(t)
                             /\ \A p \in Owners \ {t, NULL} : QueueOf(p)' = QueueOf(p)
    BY <1>4 DEF HandsOver
  <2>2. CASE o = NULL
    <3>1. \/ i \in DOMAIN QueueOf(NULL) /\ QueueOf(o)'[i] = QueueOf(NULL)[i]
          \/ /\ i - Len(QueueOf(NULL)) \in DOMAIN QueueOf(t)
             /\ QueueOf(o)'[i] = QueueOf(t)[i - Len(QueueOf(NULL))]
      BY <1>a, <2>1, <2>2, QueueTypes, ConcatFacts
    <3> QED
      BY <1>a, <3>1
  <2>3. CASE o = t /\ o # NULL
    BY <2>1, <2>3
  <2>4. CASE o # t /\ o # NULL
    BY <2>1, <2>4
  <2> QED
    BY <2>2, <2>3, <2>4
<1>5. CASE Empties
  BY <1>5 DEF Empties
<1> QED
  BY <1>1, <1>2, <1>3, <1>4, <1>5

(* Items stay where they were, or move; those that go nobody holds, unless *)
(* the world has been stopped.                                             *)
LEMMA Kepts ==
  ASSUME TypeOK, Kept \/ FreesFirst \/ Defers \/ HandsOver, NEW u \in Threads
  PROVE  \A o \in Owners : \A i \in DOMAIN QueueOf(o) :
           holds[u] = QueueOf(o)[i].node =>
             \E p \in Owners : \E j \in DOMAIN QueueOf(p)' : QueueOf(p)'[j] = QueueOf(o)[i]
<1> SUFFICES ASSUME NEW o \in Owners, NEW i \in DOMAIN QueueOf(o), holds[u] = QueueOf(o)[i].node
             PROVE  \E p \in Owners : \E j \in DOMAIN QueueOf(p)' : QueueOf(p)'[j] = QueueOf(o)[i]
  OBVIOUS
<1>a. NULL \in Owners /\ Threads \subseteq Owners
  BY DEF Owners
<1>1. CASE Kept
  BY <1>1 DEF Kept
<1>2. CASE FreesFirst
  <2>1. PICK w \in Owners : /\ QueueOf(w) # <<>> /\ QueueOf(w)' = Tail(QueueOf(w))
                            /\ \A p \in Owners \ {w} : QueueOf(p)' = QueueOf(p)
                            /\ holds[u] # QueueOf(w)[1].node
    BY <1>2 DEF FreesFirst
  <2>2. CASE o = w
    <3>1. i # 1
      BY <2>1, <2>2
    <3>2. i - 1 \in DOMAIN QueueOf(w)' /\ QueueOf(w)'[i - 1] = QueueOf(o)[i]
      BY <2>1, <2>2, <3>1, QueueTypes, TailFacts
    <3> QED
      BY <3>2
  <2>3. CASE o # w
    BY <2>1, <2>3
  <2> QED
    BY <2>2, <2>3
<1>3. CASE Defers
  <2>1. PICK t \in Threads : /\ old[t] \in Nodes
                             /\ QueueOf(t)' = Append(QueueOf(t), Deferred(old[t]))
                             /\ \A p \in Owners \ {t} : QueueOf(p)' = QueueOf(p)
    BY <1>3 DEF Defers
  <2>2. Deferred(old[t]) \in Items
    BY <2>1 DEF Deferred, Items, TypeOK, QSBR_INCR
  <2>3. CASE o = t
    <3>1. i \in DOMAIN QueueOf(t)' /\ QueueOf(t)'[i] = QueueOf(o)[i]
      BY <2>1, <2>2, <2>3, QueueTypes, AppendFacts
    <3> QED
      BY <1>a, <3>1
  <2>4. CASE o # t
    BY <2>1, <2>4
  <2> QED
    BY <2>3, <2>4
<1>4. CASE HandsOver
  <2>1. PICK t \in Threads : /\ QueueOf(t)' = <<>> /\ QueueOf(NULL)' = QueueOf(NULL) \o QueueOf(t)
                             /\ \A p \in Owners \ {t, NULL} : QueueOf(p)' = QueueOf(p)
    BY <1>4 DEF HandsOver
  <2>2. CASE o = NULL
    <3>1. i \in DOMAIN QueueOf(NULL)' /\ QueueOf(NULL)'[i] = QueueOf(o)[i]
      BY <1>a, <2>1, <2>2, QueueTypes, ConcatFacts
    <3> QED
      BY <1>a, <3>1
  <2>3. CASE o = t /\ o # NULL
    <3>1. /\ Len(QueueOf(NULL)) + i \in DOMAIN QueueOf(NULL)'
          /\ QueueOf(NULL)'[Len(QueueOf(NULL)) + i] = QueueOf(o)[i]
      BY <1>a, <2>1, <2>3, QueueTypes, ConcatFacts
    <3> QED
      BY <1>a, <3>1
  <2>4. CASE o # t /\ o # NULL
    BY <2>1, <2>4
  <2> QED
    BY <2>2, <2>3, <2>4
<1> QED
  BY <1>1, <1>2, <1>3, <1>4

-----------------------------------------------------------------------------
(* What GoalsInv says of one item.                                         *)
GoalOf(item) ==
  \A t \in Threads : holds[t] = item.node =>
    /\ rd_seq < item.goal
    /\ seq[t] < item.goal
    /\ \A u \in Threads : pc[u] \in Scanning /\ t \notin slots[u] => reg[u] < item.goal

(* No step but the collector's breaks it of an item whose node is retired. *)
LEMMA GoalScan ==
  ASSUME TypeOK, OnlineInv, NEW item \in Items, GoalOf(item),
         NEW t \in Threads, NEW u \in Threads, Scan(t, u)
  PROVE  GoalOf(item)'
<1>1. /\ slots' = [slots EXCEPT ![t] = @ \ {u}] /\ pc[t] = "scan"
      /\ pc'[t] \in Scanning /\ \A v \in Threads \ {t} : pc'[v] = pc[v]
      /\ rd_seq' = rd_seq /\ seq' = seq /\ holds' = holds
      /\ reg' = [reg EXCEPT ![t] = IF seq[u] # QSBR_OFFLINE /\ seq[u] < @ THEN seq[u] ELSE @]
  BY DEF Scan, Goto, seqVars, TypeOK, Scanning
<1>2. \A v \in Threads : holds[v] = item.node => seq[v] # QSBR_OFFLINE
  BY QSBRAssumption DEF OnlineInv, Items
<1>3. reg[t] \in Nat /\ seq[u] \in Nat /\ item.goal \in Nat
  BY DEF TypeOK, Items
<1>r. reg'[t] = reg[t] \/ (seq[u] # QSBR_OFFLINE /\ seq[u] < reg[t] /\ reg'[t] = seq[u])
  BY <1>1 DEF TypeOK
<1>s. seq[u] # QSBR_OFFLINE => reg'[t] <= seq[u]
  <2>1. reg'[t] = IF seq[u] # QSBR_OFFLINE /\ seq[u] < reg[t] THEN seq[u] ELSE reg[t]
    BY <1>1 DEF TypeOK
  <2> QED
    BY <1>3, <2>1
<1> SUFFICES ASSUME NEW v \in Threads, holds[v] = item.node, NEW s \in Threads,
                    pc'[s] \in Scanning, v \notin slots'[s]
             PROVE  reg'[s] < item.goal
  BY <1>1 DEF GoalOf
<1>4. CASE s # t
  BY <1>1, <1>4 DEF GoalOf, TypeOK
<1>5. CASE s = t /\ v # u
  <2>1. reg[t] < item.goal
    BY <1>1, <1>5 DEF GoalOf, Scanning, TypeOK
  <2>2. reg'[t] <= reg[t]
    BY <1>r, <1>3
  <2>3. reg'[t] \in Nat
    BY <1>r, <1>3
  <2> QED
    BY <1>3, <1>5, <2>1, <2>2, <2>3
<1>6. CASE s = t /\ v = u
  <2>1. seq[u] < item.goal /\ seq[u] # QSBR_OFFLINE
    BY <1>2, <1>6 DEF GoalOf
  <2>2. reg'[t] <= seq[u] /\ reg'[t] \in Nat
    BY <1>r, <1>s, <1>3, <2>1
  <2> QED
    BY <1>3, <1>6, <2>1, <2>2
<1> QED
  BY <1>4, <1>5, <1>6

LEMMA GoalPoll ==
  ASSUME TypeOK, ProcessInv, NEW item \in Items, GoalOf(item),
         NEW t \in Threads, Poll(t) \/ Publish(t) \/ Swap(t)
  PROVE  GoalOf(item)'
<1>1. seq' = seq /\ holds' = holds
  BY DEF Poll, Publish, Swap, seqVars
<1>2. \A v \in Threads \ {t} : pc'[v] = pc[v] /\ slots'[v] = slots[v] /\ reg'[v] = reg[v]
  <2>1. \A v \in Threads \ {t} : pc'[v] = pc[v]
    BY PollEffect
  <2> QED
    BY <2>1 DEF Poll, Publish, Swap, TypeOK, scanVars
<1>3. rd_seq' = rd_seq \/ (pc[t] = "swap" /\ rd_seq' = reg[t])
  BY DEF Poll, Publish, Swap, seqVars
<1>4. \A v \in Threads : holds[v] = item.node => rd_seq' < item.goal
  BY <1>3 DEF GoalOf, ProcessInv, Scanning, Polling
<1>5. pc'[t] \in Scanning => pc'[t] = "swap"
  BY PollEffect DEF Scanning
<1>7. pc'[t] = "swap" => pc[t] = "publish" /\ slots'[t] = slots[t] /\ reg'[t] = reg[t]
  <2>1. CASE Publish(t)
    BY <2>1 DEF Publish, Answer, Leave, Free, Goto, TypeOK
  <2>2. CASE Poll(t) \/ Swap(t)
    BY <2>2 DEF Poll, Swap, Answer, Leave, Free, Goto, TypeOK
  <2> QED
    BY <2>1, <2>2
<1> SUFFICES ASSUME NEW v \in Threads, holds[v] = item.node, NEW s \in Threads,
                    pc'[s] \in Scanning, v \notin slots'[s]
             PROVE  reg'[s] < item.goal
  BY <1>1, <1>4 DEF GoalOf
<1>8. CASE s # t
  BY <1>2, <1>8 DEF GoalOf
<1>9. CASE s = t
  BY <1>5, <1>7, <1>9 DEF GoalOf, Scanning
<1> QED
  BY <1>8, <1>9

(* So it is with every step, if the node is not the current one.           *)
LEMMA GoalStep ==
  ASSUME TypeOK, OnlineInv, ProcessInv, NEW item \in Items, GoalOf(item), item.node # current,
         \A t \in Threads : ~ Collect(t), [Next]_vars
  PROVE  GoalOf(item)'
<1>1. CASE UNCHANGED vars
  BY <1>1 DEF TypeOK, GoalOf, Scanning, vars, seqVars, queueVars, scanVars, counters
<1>2. ASSUME NEW t \in Threads, Register(t) PROVE GoalOf(item)'
  BY <1>2 DEF TypeOK, GoalOf, Scanning, Register, Goto, seqVars, queueVars, scanVars, counters
<1>3. ASSUME NEW t \in Threads, AttachLoad(t) PROVE GoalOf(item)'
  BY <1>3 DEF TypeOK, GoalOf, Scanning, AttachLoad, Goto, seqVars, queueVars, scanVars, counters
<1>4. ASSUME NEW t \in Threads, AttachStore(t) PROVE GoalOf(item)'
  BY <1>4, QSBRAssumption, SMTT(60) DEF TypeOK, GoalOf, Scanning, AttachStore, Goto, seqVars, queueVars, scanVars, counters, Items, OnlineInv
<1>5. ASSUME NEW t \in Threads, Detach(t) PROVE GoalOf(item)'
  BY <1>5, QSBRAssumption, SMTT(60) DEF TypeOK, GoalOf, Scanning, Detach, Goto, seqVars, queueVars, scanVars, counters, Items
<1>6. ASSUME NEW t \in Threads, Read(t) PROVE GoalOf(item)'
  BY <1>6 DEF TypeOK, GoalOf, Scanning, Read, Goto, seqVars, queueVars, scanVars, counters
<1>7. ASSUME NEW t \in Threads, Drop(t) PROVE GoalOf(item)'
  BY <1>7, QSBRAssumption DEF TypeOK, GoalOf, Scanning, Drop, Goto, seqVars, queueVars, scanVars, counters, Items
<1>8. ASSUME NEW t \in Threads, QuietLoad(t) PROVE GoalOf(item)'
  BY <1>8 DEF TypeOK, GoalOf, Scanning, QuietLoad, Goto, seqVars, queueVars, scanVars, counters
<1>9. ASSUME NEW t \in Threads, QuietStore(t) PROVE GoalOf(item)'
  BY <1>9, QSBRAssumption, SMTT(60) DEF TypeOK, GoalOf, Scanning, QuietStore, Goto, seqVars, queueVars, scanVars, counters, Items, OnlineInv
<1>10. ASSUME NEW t \in Threads, NEW node \in Nodes, Replace(t, node) PROVE GoalOf(item)'
  BY <1>10 DEF TypeOK, GoalOf, Scanning, Replace, Goto, seqVars, queueVars, scanVars, counters
<1>11. ASSUME NEW t \in Threads, NEW large \in BOOLEAN, NEW full \in BOOLEAN, Retire(t, large, full) PROVE GoalOf(item)'
  BY <1>11, SMTT(60) DEF TypeOK, GoalOf, Scanning, Retire, Goto, seqVars, queueVars, scanVars, counters
<1>12. ASSUME NEW t \in Threads, RetireNow(t) PROVE GoalOf(item)'
  BY <1>12 DEF TypeOK, GoalOf, Scanning, RetireNow, Goto, seqVars, queueVars, scanVars, counters
<1>13. ASSUME NEW t \in Threads, Process(t) PROVE GoalOf(item)'
  BY <1>13 DEF TypeOK, GoalOf, Scanning, Process, Goto, seqVars, queueVars, scanVars, counters
<1>14. ASSUME NEW t \in Threads, Abandon(t) PROVE GoalOf(item)'
  BY <1>14, SMTT(60) DEF TypeOK, GoalOf, Scanning, Polling, Abandon, Goto, seqVars, queueVars, scanVars, counters, ProcessInv
<1>15. ASSUME NEW t \in Threads, Collect(t) PROVE GoalOf(item)'
  BY <1>15
<1>16. ASSUME NEW t \in Threads, Poll(t) PROVE GoalOf(item)'
  BY <1>16, GoalPoll
<1>17. ASSUME NEW t \in Threads, NEW u \in Threads, Scan(t, u) PROVE GoalOf(item)'
  BY <1>17, GoalScan
<1>18. ASSUME NEW t \in Threads, Publish(t) PROVE GoalOf(item)'
  BY <1>18, GoalPoll
<1>19. ASSUME NEW t \in Threads, Swap(t) PROVE GoalOf(item)'
  BY <1>19, GoalPoll
<1>20. ASSUME NEW t \in Threads, LookForWork(t) PROVE GoalOf(item)'
  BY <1>20 DEF TypeOK, GoalOf, Scanning, LookForWork, Goto, seqVars, queueVars, scanVars, counters
<1>21. ASSUME NEW t \in Threads, TryLock(t) PROVE GoalOf(item)'
  BY <1>21 DEF TypeOK, GoalOf, Scanning, TryLock, Goto, seqVars, queueVars, scanVars, counters
<1>22. ASSUME NEW t \in Threads, Unlock(t) PROVE GoalOf(item)'
  BY <1>22 DEF TypeOK, GoalOf, Scanning, Unlock, Goto, seqVars, queueVars, scanVars, counters
<1>23. ASSUME NEW t \in Threads, ScanBegin(t) PROVE GoalOf(item)'
  BY <1>23 DEF TypeOK, GoalOf, Scanning, ScanBegin, Goto, seqVars, queueVars, scanVars, counters
<1>24. ASSUME NEW t \in Threads, NEW u \in Threads, AbandonOther(t, u) PROVE GoalOf(item)'
  BY <1>24, SMTT(60) DEF TypeOK, GoalOf, Scanning, AbandonOther, Goto, seqVars, queueVars, scanVars, counters
<1> QED
  BY <1>1, <1>2, <1>3, <1>4, <1>5, <1>6, <1>7, <1>8, <1>9, <1>10, <1>11, <1>12, <1>13, <1>14, <1>15, <1>16, <1>17, <1>18, <1>19, <1>20, <1>21, <1>22, <1>23, <1>24 DEF Next


(* Only the collector empties the queues.                                  *)
LEMMA QueueMoves ==
  ASSUME TypeOK, OnlineInv, ProcessInv, GoalsInv, [Next]_vars, \A t \in Threads : ~ Collect(t)
  PROVE  Kept \/ FreesFirst \/ Defers \/ HandsOver
<1>1. CASE UNCHANGED vars
  BY <1>1 DEF Kept, QueueOf, vars, seqVars, queueVars, scanVars, counters
<1>2. ASSUME NEW t \in Threads, Register(t) PROVE (Kept \/ FreesFirst \/ Defers \/ HandsOver)
  BY <1>2 DEF Kept, QueueOf, Register, Goto, seqVars, queueVars, scanVars, counters
<1>3. ASSUME NEW t \in Threads, AttachLoad(t) PROVE (Kept \/ FreesFirst \/ Defers \/ HandsOver)
  BY <1>3 DEF Kept, QueueOf, AttachLoad, Goto, seqVars, queueVars, scanVars, counters
<1>4. ASSUME NEW t \in Threads, AttachStore(t) PROVE (Kept \/ FreesFirst \/ Defers \/ HandsOver)
  BY <1>4 DEF Kept, QueueOf, AttachStore, Goto, seqVars, queueVars, scanVars, counters
<1>5. ASSUME NEW t \in Threads, Detach(t) PROVE (Kept \/ FreesFirst \/ Defers \/ HandsOver)
  BY <1>5 DEF Kept, QueueOf, Detach, Goto, seqVars, queueVars, scanVars, counters
<1>6. ASSUME NEW t \in Threads, Read(t) PROVE (Kept \/ FreesFirst \/ Defers \/ HandsOver)
  BY <1>6 DEF Kept, QueueOf, Read, Goto, seqVars, queueVars, scanVars, counters
<1>7. ASSUME NEW t \in Threads, Drop(t) PROVE (Kept \/ FreesFirst \/ Defers \/ HandsOver)
  BY <1>7 DEF Kept, QueueOf, Drop, Goto, seqVars, queueVars, scanVars, counters
<1>8. ASSUME NEW t \in Threads, QuietLoad(t) PROVE (Kept \/ FreesFirst \/ Defers \/ HandsOver)
  BY <1>8 DEF Kept, QueueOf, QuietLoad, Goto, seqVars, queueVars, scanVars, counters
<1>9. ASSUME NEW t \in Threads, QuietStore(t) PROVE (Kept \/ FreesFirst \/ Defers \/ HandsOver)
  BY <1>9 DEF Kept, QueueOf, QuietStore, Goto, seqVars, queueVars, scanVars, counters
<1>10. ASSUME NEW t \in Threads, NEW node \in Nodes, Replace(t, node) PROVE (Kept \/ FreesFirst \/ Defers \/ HandsOver)
  BY <1>10 DEF Kept, QueueOf, Replace, Goto, seqVars, queueVars, scanVars, counters
<1>11. ASSUME NEW t \in Threads, NEW large \in BOOLEAN, NEW full \in BOOLEAN, Retire(t, large, full) PROVE (Kept \/ FreesFirst \/ Defers \/ HandsOver)
  BY <1>11, RetireQueues
<1>12. ASSUME NEW t \in Threads, RetireNow(t) PROVE (Kept \/ FreesFirst \/ Defers \/ HandsOver)
  BY <1>12 DEF Kept, QueueOf, RetireNow, Goto, seqVars, queueVars, scanVars, counters
<1>13. ASSUME NEW t \in Threads, Process(t) PROVE (Kept \/ FreesFirst \/ Defers \/ HandsOver)
  BY <1>13 DEF Kept, QueueOf, Process, Goto, seqVars, queueVars, scanVars, counters
<1>14. ASSUME NEW t \in Threads, Abandon(t) PROVE (Kept \/ FreesFirst \/ Defers \/ HandsOver)
  BY <1>14, AbandonQueues
<1>15. ASSUME NEW t \in Threads, Collect(t) PROVE (Kept \/ FreesFirst \/ Defers \/ HandsOver)
  BY <1>15
<1>16. ASSUME NEW t \in Threads, Poll(t) PROVE (Kept \/ FreesFirst \/ Defers \/ HandsOver)
  BY <1>16, PollQueues
<1>17. ASSUME NEW t \in Threads, NEW u \in Threads, Scan(t, u) PROVE (Kept \/ FreesFirst \/ Defers \/ HandsOver)
  BY <1>17 DEF Kept, QueueOf, Scan, Goto, seqVars, queueVars, scanVars, counters
<1>18. ASSUME NEW t \in Threads, Publish(t) PROVE (Kept \/ FreesFirst \/ Defers \/ HandsOver)
  BY <1>18, PollQueues
<1>19. ASSUME NEW t \in Threads, Swap(t) PROVE (Kept \/ FreesFirst \/ Defers \/ HandsOver)
  BY <1>19, PollQueues
<1>20. ASSUME NEW t \in Threads, LookForWork(t) PROVE (Kept \/ FreesFirst \/ Defers \/ HandsOver)
  BY <1>20 DEF Kept, QueueOf, LookForWork, Goto, seqVars, queueVars, scanVars, counters
<1>21. ASSUME NEW t \in Threads, TryLock(t) PROVE (Kept \/ FreesFirst \/ Defers \/ HandsOver)
  BY <1>21 DEF Kept, QueueOf, TryLock, Goto, seqVars, queueVars, scanVars, counters
<1>22. ASSUME NEW t \in Threads, Unlock(t) PROVE (Kept \/ FreesFirst \/ Defers \/ HandsOver)
  BY <1>22 DEF Kept, QueueOf, Unlock, Goto, seqVars, queueVars, scanVars, counters
<1>23. ASSUME NEW t \in Threads, ScanBegin(t) PROVE (Kept \/ FreesFirst \/ Defers \/ HandsOver)
  BY <1>23 DEF Kept, QueueOf, ScanBegin, Goto, seqVars, queueVars, scanVars, counters
<1>24. ASSUME NEW t \in Threads, NEW u \in Threads, AbandonOther(t, u) PROVE (Kept \/ FreesFirst \/ Defers \/ HandsOver)
  BY <1>24, AbandonOtherQueues
<1> QED
  BY <1>1, <1>2, <1>3, <1>4, <1>5, <1>6, <1>7, <1>8, <1>9, <1>10, <1>11, <1>12, <1>13, <1>14, <1>15, <1>16, <1>17, <1>18, <1>19, <1>20, <1>21, <1>22, <1>23, <1>24 DEF Next

(* What is put into a queue has a goal that nobody has reached.            *)
LEMMA GoalsStep ==
  ASSUME TypeOK, SequenceInv, OnlineInv, ProcessInv, NodesInv, FreedOnce, GoalsInv, [Next]_vars
  PROVE  GoalsInv'
<1>1. CASE \E t \in Threads : Collect(t)
  <2>1. \A o \in Owners : QueueOf(o)' = <<>>
    BY <1>1 DEF Collect, QueueOf, Owners
  <2> QED
    BY <2>1 DEF GoalsInv
<1>2. CASE \A t \in Threads : ~ Collect(t)
  <2>1. ASSUME NEW o \in Owners, NEW i \in DOMAIN QueueOf(o)'
        PROVE  \A item : item = QueueOf(o)'[i] => GoalOf(item)'
    <3> TAKE item
    <3> HAVE item = QueueOf(o)'[i]
    <3>1. CASE \E p \in Owners : \E j \in DOMAIN QueueOf(p) : QueueOf(p)[j] = item
      <4>0. PICK p \in Owners : \E j \in DOMAIN QueueOf(p) : QueueOf(p)[j] = item
        BY <3>1
      <4>1. PICK j \in DOMAIN QueueOf(p) : QueueOf(p)[j] = item
        BY <4>0
      <4>2. item \in Items
        BY <4>1, QueueTypes
      <4>3. GoalOf(item)
        BY <4>1 DEF GoalsInv, GoalOf
      <4>4. item.node # current
        BY <4>1 DEF FreedOnce
      <4> QED
        BY <1>2, <4>2, <4>3, <4>4, GoalStep
    <3>2. CASE \E t \in Threads : old[t] \in Nodes /\ item = Deferred(old[t])
      <4>1. PICK t \in Threads : old[t] \in Nodes /\ item = Deferred(old[t])
        BY <3>2
      <4>2. item \in Items /\ item.node = old[t] /\ item.goal = wr_seq + QSBR_INCR
        BY <4>1 DEF Deferred, Items, QSBR_INCR, TypeOK
      <4>3. GoalOf(item)
        <5>1. wr_seq \in Nat /\ rd_seq \in Nat /\ \A u \in Threads : seq[u] \in Nat /\ reg[u] \in Nat
          BY DEF TypeOK
        <5>2. rd_seq < item.goal /\ \A u \in Threads : seq[u] < item.goal /\ reg[u] < item.goal
          BY <4>2, <5>1 DEF SequenceInv, QSBR_INCR
        <5> QED
          BY <5>2 DEF GoalOf
      <4>4. item.node # current
        BY <4>2 DEF NodesInv
      <4> QED
        BY <1>2, <4>2, <4>3, <4>4, GoalStep
    <3>3. Kept \/ FreesFirst \/ Defers \/ HandsOver \/ Empties
      BY QueueSteps
    <3> QED
      BY <3>1, <3>2, <3>3, Origin
  <2>2. \A o \in Owners : \A i \in DOMAIN QueueOf(o)' : \E item : item = QueueOf(o)'[i] /\ GoalOf(item)'
    BY <2>1
  <2> QED
    BY <2>2 DEF GoalsInv, GoalOf
<1> QED
  BY <1>1, <1>2

-----------------------------------------------------------------------------
(* No node is freed twice.                                                 *)
LEMMA DistinctIff ==
  FreedOnce <=>
    /\ Distinct([o \in Owners |-> QueueOf(o)], Owners)
    /\ \A o \in Owners : \A i \in DOMAIN QueueOf(o) :
         QueueOf(o)[i].node # current /\ \A t \in Threads : QueueOf(o)[i].node # old[t]
BY DEF FreedOnce, Distinct

LEMMA DistinctStep ==
  ASSUME TypeOK, FreedOnce, Kept \/ FreesFirst \/ Defers \/ HandsOver \/ Empties
  PROVE  Distinct([o \in Owners |-> QueueOf(o)'], Owners)
<1> DEFINE Q == [o \in Owners |-> QueueOf(o)]
           R == [o \in Owners |-> QueueOf(o)']
<1>a. Q \in [Owners -> Seq(Items)] /\ Distinct(Q, Owners)
  BY QueueTypes, DistinctIff
<1>b. \A o \in Owners : Q[o] = QueueOf(o) /\ R[o] = QueueOf(o)'
  OBVIOUS
<1>c. NULL \in Owners /\ Threads \subseteq Owners
  BY DEF Owners
<1>1. CASE Kept
  BY <1>1, <1>a, <1>b DEF Kept, Distinct
<1>2. CASE FreesFirst
  <2>1. PICK w \in Owners : /\ QueueOf(w) # <<>> /\ QueueOf(w)' = Tail(QueueOf(w))
                            /\ \A p \in Owners \ {w} : QueueOf(p)' = QueueOf(p)
    BY <1>2 DEF FreesFirst
  <2>2. /\ Q[w] # <<>> /\ R[w] = Tail(Q[w]) /\ \A p \in Owners \ {w} : R[p] = Q[p]
    BY <1>b, <2>1
  <2> HIDE DEF Q, R
  <2>3. Distinct(R, Owners)
    BY <1>a, <2>2, DistinctTail
  <2> QED
    BY <2>3 DEF R
<1>3. CASE Defers
  <2>1. PICK t \in Threads : /\ old[t] \in Nodes
                             /\ QueueOf(t)' = Append(QueueOf(t), Deferred(old[t]))
                             /\ \A p \in Owners \ {t} : QueueOf(p)' = QueueOf(p)
    BY <1>3 DEF Defers
  <2>a. Deferred(old[t]) \in Items
    BY <2>1 DEF Deferred, Items, TypeOK, QSBR_INCR
  <2>2. PICK e \in Items : e = Deferred(old[t])
    BY <2>a
  <2>b. t \in Owners
    BY <1>c
  <2>3. e.node = old[t]
    BY <2>2 DEF Deferred
  <2>4. /\ R[t] = Append(Q[t], e) /\ \A p \in Owners \ {t} : R[p] = Q[p]
        /\ \A o \in Owners : \A i \in DOMAIN Q[o] : Q[o][i].node # e.node
    BY <1>b, <1>c, <2>1, <2>2, <2>3 DEF FreedOnce
  <2> HIDE DEF Q, R
  <2>5. Distinct(R, Owners)
    BY <1>a, <2>b, <2>4, DistinctAppend
  <2> QED
    BY <2>5 DEF R
<1>4. CASE HandsOver
  <2>1. PICK t \in Threads : /\ QueueOf(t)' = <<>> /\ QueueOf(NULL)' = QueueOf(NULL) \o QueueOf(t)
                             /\ \A p \in Owners \ {t, NULL} : QueueOf(p)' = QueueOf(p)
    BY <1>4 DEF HandsOver
  <2>2. /\ R[t] = <<>> /\ R[NULL] = Q[NULL] \o Q[t] /\ t # NULL
        /\ \A p \in Owners \ {t, NULL} : R[p] = Q[p]
    BY <1>b, <1>c, <2>1, QSBRAssumption
  <2> HIDE DEF Q, R
  <2>3. Distinct(R, Owners)
    <3>1. t \in Owners /\ NULL \in Owners
      BY <1>c
    <3> QED
      BY <1>a, <2>2, <3>1, DistinctConcat, ZenonT(120)
  <2> QED
    BY <2>3 DEF R
<1>5. CASE Empties
  BY <1>5 DEF Empties, Distinct
<1> QED
  BY <1>1, <1>2, <1>3, <1>4, <1>5

(* What is replaced is a node that nobody has, and what is retired is not  *)
(* in use any more.                                                        *)
LEMMA CurrentStep ==
  ASSUME TypeOK, OnlineInv, [Next]_vars
  PROVE  \/ /\ current' = current
            /\ old' = old \/ \E t \in Threads : old' = [old EXCEPT ![t] = NULL]
         \/ /\ Kept /\ current' \notin Live \union {holds[u] : u \in Threads}
            /\ holds' = holds /\ \E t \in Threads : old' = [old EXCEPT ![t] = current] /\ old[t] = NULL
<1>1. CASE UNCHANGED vars
  BY <1>1 DEF TypeOK, vars, seqVars, queueVars, scanVars, counters
<1>2. ASSUME NEW t \in Threads, Register(t) PROVE current' = current /\ old' = old
  BY <1>2 DEF TypeOK, Register, Goto, seqVars, queueVars, scanVars, counters
<1>3. ASSUME NEW t \in Threads, AttachLoad(t) PROVE current' = current /\ old' = old
  BY <1>3 DEF TypeOK, AttachLoad, Goto, seqVars, queueVars, scanVars, counters
<1>4. ASSUME NEW t \in Threads, AttachStore(t) PROVE current' = current /\ old' = old
  BY <1>4 DEF TypeOK, AttachStore, Goto, seqVars, queueVars, scanVars, counters
<1>5. ASSUME NEW t \in Threads, Detach(t) PROVE current' = current /\ old' = old
  BY <1>5 DEF TypeOK, Detach, Goto, seqVars, queueVars, scanVars, counters
<1>6. ASSUME NEW t \in Threads, Read(t) PROVE current' = current /\ old' = old
  BY <1>6 DEF TypeOK, Read, Goto, seqVars, queueVars, scanVars, counters
<1>7. ASSUME NEW t \in Threads, Drop(t) PROVE current' = current /\ old' = old
  BY <1>7 DEF TypeOK, Drop, Goto, seqVars, queueVars, scanVars, counters
<1>8. ASSUME NEW t \in Threads, QuietLoad(t) PROVE current' = current /\ old' = old
  BY <1>8 DEF TypeOK, QuietLoad, Goto, seqVars, queueVars, scanVars, counters
<1>9. ASSUME NEW t \in Threads, QuietStore(t) PROVE current' = current /\ old' = old
  BY <1>9 DEF TypeOK, QuietStore, Goto, seqVars, queueVars, scanVars, counters
<1>10. ASSUME NEW t \in Threads, NEW node \in Nodes, Replace(t, node) PROVE /\ Kept /\ current' \notin Live \union {holds[u] : u \in Threads} /\ holds' = holds /\ old' = [old EXCEPT ![t] = current] /\ old[t] = NULL
  BY <1>10 DEF TypeOK, Replace, Goto, seqVars, queueVars, scanVars, counters, Kept, QueueOf, OnlineInv
<1>11. ASSUME NEW t \in Threads, NEW large \in BOOLEAN, NEW full \in BOOLEAN, Retire(t, large, full) PROVE current' = current /\ old' = [old EXCEPT ![t] = NULL]
  BY <1>11 DEF TypeOK, Retire, Goto, seqVars, queueVars, scanVars, counters
<1>12. ASSUME NEW t \in Threads, RetireNow(t) PROVE current' = current /\ old' = [old EXCEPT ![t] = NULL]
  BY <1>12 DEF TypeOK, RetireNow, Goto, seqVars, queueVars, scanVars, counters
<1>13. ASSUME NEW t \in Threads, Process(t) PROVE current' = current /\ old' = old
  BY <1>13 DEF TypeOK, Process, Goto, seqVars, queueVars, scanVars, counters
<1>14. ASSUME NEW t \in Threads, Abandon(t) PROVE current' = current /\ old' = old
  BY <1>14 DEF TypeOK, Abandon, Goto, seqVars, queueVars, scanVars, counters
<1>15. ASSUME NEW t \in Threads, Collect(t) PROVE current' = current /\ old' = old
  BY <1>15 DEF TypeOK, Collect, Goto, seqVars, queueVars, scanVars, counters
<1>16. ASSUME NEW t \in Threads, Poll(t) PROVE current' = current /\ old' = old
  BY <1>16 DEF TypeOK, Poll, Goto, seqVars, queueVars, scanVars, counters
<1>17. ASSUME NEW t \in Threads, NEW u \in Threads, Scan(t, u) PROVE current' = current /\ old' = old
  BY <1>17 DEF TypeOK, Scan, Goto, seqVars, queueVars, scanVars, counters
<1>18. ASSUME NEW t \in Threads, Publish(t) PROVE current' = current /\ old' = old
  BY <1>18 DEF TypeOK, Publish, Goto, seqVars, queueVars, scanVars, counters
<1>19. ASSUME NEW t \in Threads, Swap(t) PROVE current' = current /\ old' = old
  BY <1>19 DEF TypeOK, Swap, Goto, seqVars, queueVars, scanVars, counters
<1>20. ASSUME NEW t \in Threads, LookForWork(t) PROVE current' = current /\ old' = old
  BY <1>20 DEF TypeOK, LookForWork, Goto, seqVars, queueVars, scanVars, counters
<1>21. ASSUME NEW t \in Threads, TryLock(t) PROVE current' = current /\ old' = old
  BY <1>21 DEF TypeOK, TryLock, Goto, seqVars, queueVars, scanVars, counters
<1>22. ASSUME NEW t \in Threads, Unlock(t) PROVE current' = current /\ old' = old
  BY <1>22 DEF TypeOK, Unlock, Goto, seqVars, queueVars, scanVars, counters
<1>23. ASSUME NEW t \in Threads, ScanBegin(t) PROVE current' = current /\ old' = old
  BY <1>23 DEF TypeOK, ScanBegin, Goto, seqVars, queueVars, scanVars, counters
<1>24. ASSUME NEW t \in Threads, NEW u \in Threads, AbandonOther(t, u) PROVE current' = current /\ old' = old
  BY <1>24 DEF TypeOK, AbandonOther, Goto, seqVars, queueVars, scanVars, counters
<1> QED
  BY <1>1, <1>2, <1>3, <1>4, <1>5, <1>6, <1>7, <1>8, <1>9, <1>10, <1>11, <1>12, <1>13, <1>14, <1>15, <1>16, <1>17, <1>18, <1>19, <1>20, <1>21, <1>22, <1>23, <1>24 DEF Next

LEMMA FreedStep ==
  ASSUME TypeOK, OnlineInv, ProcessInv, NodesInv, FreedOnce, GoalsInv, [Next]_vars
  PROVE  FreedOnce'
<1>1. Kept \/ FreesFirst \/ Defers \/ HandsOver \/ Empties
  BY QueueSteps
<1>2. Distinct([o \in Owners |-> QueueOf(o)'], Owners)
  BY <1>1, DistinctStep
<1>3. ASSUME NEW o \in Owners, NEW i \in DOMAIN QueueOf(o)'
      PROVE  /\ QueueOf(o)'[i].node # current'
             /\ \A t \in Threads : QueueOf(o)'[i].node # old'[t]
  <2>1. CASE \E p \in Owners : \E j \in DOMAIN QueueOf(p) : QueueOf(p)[j] = QueueOf(o)'[i]
    <3>0. PICK p \in Owners : \E j \in DOMAIN QueueOf(p) : QueueOf(p)[j] = QueueOf(o)'[i]
      BY <2>1
    <3>1. PICK j \in DOMAIN QueueOf(p) : QueueOf(p)[j] = QueueOf(o)'[i]
      BY <3>0
    <3>2. QueueOf(p)[j] \in Items
      BY QueueTypes
    <3>3. QueueOf(p)[j].node # current /\ \A t \in Threads : QueueOf(p)[j].node # old[t]
      BY DEF FreedOnce
    <3>4. QueueOf(p)[j].node # NULL
      BY <3>2, QSBRAssumption DEF Items
    <3>5. QueueOf(p)[j].node \in Live
      BY DEF Live, Waiting
    <3> QED
      BY <3>1, <3>3, <3>4, <3>5, CurrentStep, SMTT(60) DEF TypeOK
  <2>2. CASE \E t \in Threads : /\ old[t] \in Nodes /\ old' = [old EXCEPT ![t] = NULL]
                                /\ QueueOf(o)'[i] = Deferred(old[t])
    <3>1. PICK t \in Threads : /\ old[t] \in Nodes /\ old' = [old EXCEPT ![t] = NULL]
                               /\ QueueOf(o)'[i] = Deferred(old[t])
      BY <2>2
    <3>2. QueueOf(o)'[i].node = old[t] /\ old[t] # NULL /\ old'[t] = NULL
      BY <3>1, QSBRAssumption DEF Deferred, TypeOK
    <3>3. \A u \in Threads \ {t} : old'[u] = old[u] /\ old[u] # old[t]
      BY <3>1, <3>2 DEF TypeOK, NodesInv
    <3>4. current' # old[t]
      <4>1. old[t] \in Live
        BY DEF Live
      <4> QED
        BY <4>1, CurrentStep DEF NodesInv
    <3> QED
      BY <3>2, <3>3, <3>4
  <2> QED
    BY <1>1, <2>1, <2>2, Origin
<1> QED
  BY <1>2, <1>3 DEF FreedOnce, Distinct

-----------------------------------------------------------------------------
(* Nobody loses what it uses.                                              *)
LEMMA LiveIff ==
  \A n : n \in Live <=>
    \/ n = current \/ \E t \in Threads : n = old[t]
    \/ \E o \in Owners : \E i \in DOMAIN QueueOf(o) : n = QueueOf(o)[i].node
BY DEF Live, Waiting

(* A step lets a thread hold what is current; only a thread that stops the *)
(* world or that drops a node of its own takes one out of use.             *)
LEMMA HoldSteps ==
  ASSUME TypeOK, OnlineInv, [Next]_vars
  PROVE  \A u \in Threads : holds'[u] \in {holds[u], NULL, current}
<1>1. CASE UNCHANGED vars
  BY <1>1 DEF TypeOK, vars, seqVars, queueVars, scanVars, counters
<1>2. ASSUME NEW t \in Threads, Register(t) PROVE \A v \in Threads : holds'[v] \in {holds[v], NULL, current}
  BY <1>2 DEF TypeOK, Register, Goto, seqVars, queueVars, scanVars, counters
<1>3. ASSUME NEW t \in Threads, AttachLoad(t) PROVE \A v \in Threads : holds'[v] \in {holds[v], NULL, current}
  BY <1>3 DEF TypeOK, AttachLoad, Goto, seqVars, queueVars, scanVars, counters
<1>4. ASSUME NEW t \in Threads, AttachStore(t) PROVE \A v \in Threads : holds'[v] \in {holds[v], NULL, current}
  BY <1>4 DEF TypeOK, AttachStore, Goto, seqVars, queueVars, scanVars, counters
<1>5. ASSUME NEW t \in Threads, Detach(t) PROVE \A v \in Threads : holds'[v] \in {holds[v], NULL, current}
  BY <1>5 DEF TypeOK, Detach, Goto, seqVars, queueVars, scanVars, counters
<1>6. ASSUME NEW t \in Threads, Read(t) PROVE \A v \in Threads : holds'[v] \in {holds[v], NULL, current}
  BY <1>6 DEF TypeOK, Read, Goto, seqVars, queueVars, scanVars, counters
<1>7. ASSUME NEW t \in Threads, Drop(t) PROVE \A v \in Threads : holds'[v] \in {holds[v], NULL, current}
  BY <1>7 DEF TypeOK, Drop, Goto, seqVars, queueVars, scanVars, counters
<1>8. ASSUME NEW t \in Threads, QuietLoad(t) PROVE \A v \in Threads : holds'[v] \in {holds[v], NULL, current}
  BY <1>8 DEF TypeOK, QuietLoad, Goto, seqVars, queueVars, scanVars, counters
<1>9. ASSUME NEW t \in Threads, QuietStore(t) PROVE \A v \in Threads : holds'[v] \in {holds[v], NULL, current}
  BY <1>9 DEF TypeOK, QuietStore, Goto, seqVars, queueVars, scanVars, counters
<1>10. ASSUME NEW t \in Threads, NEW node \in Nodes, Replace(t, node) PROVE \A v \in Threads : holds'[v] \in {holds[v], NULL, current}
  BY <1>10 DEF TypeOK, Replace, Goto, seqVars, queueVars, scanVars, counters
<1>11. ASSUME NEW t \in Threads, NEW large \in BOOLEAN, NEW full \in BOOLEAN, Retire(t, large, full) PROVE \A v \in Threads : holds'[v] \in {holds[v], NULL, current}
  BY <1>11 DEF TypeOK, Retire, Goto, seqVars, queueVars, scanVars, counters
<1>12. ASSUME NEW t \in Threads, RetireNow(t) PROVE \A v \in Threads : holds'[v] \in {holds[v], NULL, current}
  BY <1>12 DEF TypeOK, RetireNow, Goto, seqVars, queueVars, scanVars, counters
<1>13. ASSUME NEW t \in Threads, Process(t) PROVE \A v \in Threads : holds'[v] \in {holds[v], NULL, current}
  BY <1>13 DEF TypeOK, Process, Goto, seqVars, queueVars, scanVars, counters
<1>14. ASSUME NEW t \in Threads, Abandon(t) PROVE \A v \in Threads : holds'[v] \in {holds[v], NULL, current}
  BY <1>14 DEF TypeOK, Abandon, Goto, seqVars, queueVars, scanVars, counters
<1>15. ASSUME NEW t \in Threads, Collect(t) PROVE \A v \in Threads : holds'[v] \in {holds[v], NULL, current}
  BY <1>15 DEF TypeOK, Collect, Goto, seqVars, queueVars, scanVars, counters
<1>16. ASSUME NEW t \in Threads, Poll(t) PROVE \A v \in Threads : holds'[v] \in {holds[v], NULL, current}
  BY <1>16 DEF TypeOK, Poll, Goto, seqVars, queueVars, scanVars, counters
<1>17. ASSUME NEW t \in Threads, NEW u \in Threads, Scan(t, u) PROVE \A v \in Threads : holds'[v] \in {holds[v], NULL, current}
  BY <1>17 DEF TypeOK, Scan, Goto, seqVars, queueVars, scanVars, counters
<1>18. ASSUME NEW t \in Threads, Publish(t) PROVE \A v \in Threads : holds'[v] \in {holds[v], NULL, current}
  BY <1>18 DEF TypeOK, Publish, Goto, seqVars, queueVars, scanVars, counters
<1>19. ASSUME NEW t \in Threads, Swap(t) PROVE \A v \in Threads : holds'[v] \in {holds[v], NULL, current}
  BY <1>19 DEF TypeOK, Swap, Goto, seqVars, queueVars, scanVars, counters
<1>20. ASSUME NEW t \in Threads, LookForWork(t) PROVE \A v \in Threads : holds'[v] \in {holds[v], NULL, current}
  BY <1>20 DEF TypeOK, LookForWork, Goto, seqVars, queueVars, scanVars, counters
<1>21. ASSUME NEW t \in Threads, TryLock(t) PROVE \A v \in Threads : holds'[v] \in {holds[v], NULL, current}
  BY <1>21 DEF TypeOK, TryLock, Goto, seqVars, queueVars, scanVars, counters
<1>22. ASSUME NEW t \in Threads, Unlock(t) PROVE \A v \in Threads : holds'[v] \in {holds[v], NULL, current}
  BY <1>22 DEF TypeOK, Unlock, Goto, seqVars, queueVars, scanVars, counters
<1>23. ASSUME NEW t \in Threads, ScanBegin(t) PROVE \A v \in Threads : holds'[v] \in {holds[v], NULL, current}
  BY <1>23 DEF TypeOK, ScanBegin, Goto, seqVars, queueVars, scanVars, counters
<1>24. ASSUME NEW t \in Threads, NEW u \in Threads, AbandonOther(t, u) PROVE \A v \in Threads : holds'[v] \in {holds[v], NULL, current}
  BY <1>24 DEF TypeOK, AbandonOther, Goto, seqVars, queueVars, scanVars, counters
<1> QED
  BY <1>1, <1>2, <1>3, <1>4, <1>5, <1>6, <1>7, <1>8, <1>9, <1>10, <1>11, <1>12, <1>13, <1>14, <1>15, <1>16, <1>17, <1>18, <1>19, <1>20, <1>21, <1>22, <1>23, <1>24 DEF Next

LEMMA EmptyHands ==
  ASSUME TypeOK, OnlineInv, NEW t \in Threads, Collect(t)
  PROVE  \A u \in Threads : holds'[u] = NULL
BY DEF Collect, WorldStopped, OnlineInv, TypeOK

(* Which nodes stay in use.                                                *)
LEMMA InUse ==
  ASSUME TypeOK, OnlineInv, [Next]_vars
  PROVE  \/ current' = current /\ old' = old
         \/ current' = current /\ Defers
         \/ /\ Kept /\ current' = current
            /\ \E t \in Threads : old' = [old EXCEPT ![t] = NULL]
                 /\ \A u \in Threads : holds'[u] = NULL \/ (holds'[u] = holds[u] /\ holds[u] # old[t])
         \/ /\ Kept /\ holds' = holds
            /\ \E t \in Threads : old[t] = NULL /\ old' = [old EXCEPT ![t] = current]
<1>1. CASE UNCHANGED vars
  BY <1>1 DEF TypeOK, vars, seqVars, queueVars, scanVars, counters
<1>2. ASSUME NEW t \in Threads, Register(t) PROVE current' = current /\ old' = old
  BY <1>2 DEF TypeOK, Register, Goto, seqVars, queueVars, scanVars, counters
<1>3. ASSUME NEW t \in Threads, AttachLoad(t) PROVE current' = current /\ old' = old
  BY <1>3 DEF TypeOK, AttachLoad, Goto, seqVars, queueVars, scanVars, counters
<1>4. ASSUME NEW t \in Threads, AttachStore(t) PROVE current' = current /\ old' = old
  BY <1>4 DEF TypeOK, AttachStore, Goto, seqVars, queueVars, scanVars, counters
<1>5. ASSUME NEW t \in Threads, Detach(t) PROVE current' = current /\ old' = old
  BY <1>5 DEF TypeOK, Detach, Goto, seqVars, queueVars, scanVars, counters
<1>6. ASSUME NEW t \in Threads, Read(t) PROVE current' = current /\ old' = old
  BY <1>6 DEF TypeOK, Read, Goto, seqVars, queueVars, scanVars, counters
<1>7. ASSUME NEW t \in Threads, Drop(t) PROVE current' = current /\ old' = old
  BY <1>7 DEF TypeOK, Drop, Goto, seqVars, queueVars, scanVars, counters
<1>8. ASSUME NEW t \in Threads, QuietLoad(t) PROVE current' = current /\ old' = old
  BY <1>8 DEF TypeOK, QuietLoad, Goto, seqVars, queueVars, scanVars, counters
<1>9. ASSUME NEW t \in Threads, QuietStore(t) PROVE current' = current /\ old' = old
  BY <1>9 DEF TypeOK, QuietStore, Goto, seqVars, queueVars, scanVars, counters
<1>10. ASSUME NEW t \in Threads, NEW node \in Nodes, Replace(t, node) PROVE Kept /\ holds' = holds /\ old[t] = NULL /\ old' = [old EXCEPT ![t] = current]
  BY <1>10 DEF TypeOK, Replace, Goto, seqVars, queueVars, scanVars, counters, Kept, QueueOf, OnlineInv
<1>11. ASSUME NEW t \in Threads, NEW large \in BOOLEAN, NEW full \in BOOLEAN, Retire(t, large, full) PROVE Defers /\ current' = current
  BY <1>11, RetireQueues DEF Retire
<1>12. ASSUME NEW t \in Threads, RetireNow(t) PROVE /\ Kept /\ current' = current /\ old' = [old EXCEPT ![t] = NULL] /\ \A u \in Threads : holds'[u] = NULL \/ (holds'[u] = holds[u] /\ holds[u] # old[t])
  BY <1>12 DEF TypeOK, RetireNow, Goto, seqVars, queueVars, scanVars, counters, Kept, QueueOf, OnlineInv, WorldStopped
<1>13. ASSUME NEW t \in Threads, Process(t) PROVE current' = current /\ old' = old
  BY <1>13 DEF TypeOK, Process, Goto, seqVars, queueVars, scanVars, counters
<1>14. ASSUME NEW t \in Threads, Abandon(t) PROVE current' = current /\ old' = old
  BY <1>14 DEF TypeOK, Abandon, Goto, seqVars, queueVars, scanVars, counters
<1>15. ASSUME NEW t \in Threads, Collect(t) PROVE current' = current /\ old' = old
  BY <1>15 DEF TypeOK, Collect, Goto, seqVars, queueVars, scanVars, counters
<1>16. ASSUME NEW t \in Threads, Poll(t) PROVE current' = current /\ old' = old
  BY <1>16 DEF TypeOK, Poll, Goto, seqVars, queueVars, scanVars, counters
<1>17. ASSUME NEW t \in Threads, NEW u \in Threads, Scan(t, u) PROVE current' = current /\ old' = old
  BY <1>17 DEF TypeOK, Scan, Goto, seqVars, queueVars, scanVars, counters
<1>18. ASSUME NEW t \in Threads, Publish(t) PROVE current' = current /\ old' = old
  BY <1>18 DEF TypeOK, Publish, Goto, seqVars, queueVars, scanVars, counters
<1>19. ASSUME NEW t \in Threads, Swap(t) PROVE current' = current /\ old' = old
  BY <1>19 DEF TypeOK, Swap, Goto, seqVars, queueVars, scanVars, counters
<1>20. ASSUME NEW t \in Threads, LookForWork(t) PROVE current' = current /\ old' = old
  BY <1>20 DEF TypeOK, LookForWork, Goto, seqVars, queueVars, scanVars, counters
<1>21. ASSUME NEW t \in Threads, TryLock(t) PROVE current' = current /\ old' = old
  BY <1>21 DEF TypeOK, TryLock, Goto, seqVars, queueVars, scanVars, counters
<1>22. ASSUME NEW t \in Threads, Unlock(t) PROVE current' = current /\ old' = old
  BY <1>22 DEF TypeOK, Unlock, Goto, seqVars, queueVars, scanVars, counters
<1>23. ASSUME NEW t \in Threads, ScanBegin(t) PROVE current' = current /\ old' = old
  BY <1>23 DEF TypeOK, ScanBegin, Goto, seqVars, queueVars, scanVars, counters
<1>24. ASSUME NEW t \in Threads, NEW u \in Threads, AbandonOther(t, u) PROVE current' = current /\ old' = old
  BY <1>24 DEF TypeOK, AbandonOther, Goto, seqVars, queueVars, scanVars, counters
<1> QED
  BY <1>1, <1>2, <1>3, <1>4, <1>5, <1>6, <1>7, <1>8, <1>9, <1>10, <1>11, <1>12, <1>13, <1>14, <1>15, <1>16, <1>17, <1>18, <1>19, <1>20, <1>21, <1>22, <1>23, <1>24 DEF Next

LEMMA HeldStep ==
  ASSUME TypeOK, OnlineInv, ProcessInv, GoalsInv, HeldIsLive, [Next]_vars
  PROVE  HeldIsLive'
<1>1. CASE \E t \in Threads : Collect(t)
  BY <1>1, EmptyHands DEF HeldIsLive
<1>2. CASE \A t \in Threads : ~ Collect(t)
  <2>1. Kept \/ FreesFirst \/ Defers \/ HandsOver
    BY <1>2, QueueMoves
  <2> SUFFICES ASSUME NEW u \in Threads, holds'[u] # NULL
               PROVE  holds'[u] \in Live'
    BY DEF HeldIsLive
  <2> DEFINE InQueue(n) == \E o \in Owners : \E i \in DOMAIN QueueOf(o)' : n = QueueOf(o)'[i].node
  <2>2. \A n : n = current' \/ (\E t \in Threads : n = old'[t]) \/ InQueue(n) => n \in Live'
    BY DEF Live, Waiting
  <2>3. holds'[u] = holds[u] \/ holds'[u] = current
    BY HoldSteps
  <2>4. holds'[u] = current \/ (\E t \in Threads : holds'[u] = old[t] /\ holds[u] = old[t])
          \/ \E o \in Owners : \E i \in DOMAIN QueueOf(o) :
               holds[u] = QueueOf(o)[i].node /\ holds'[u] = holds[u]
    BY <2>3, LiveIff DEF HeldIsLive
  <2>5. CASE \E o \in Owners : \E i \in DOMAIN QueueOf(o) :
               holds[u] = QueueOf(o)[i].node /\ holds'[u] = holds[u]
    <3>1. InQueue(holds'[u])
      BY <2>1, <2>5, Kepts
    <3> QED
      BY <2>2, <3>1
  <2>6. CASE holds'[u] = current
    <3>1. current' = current \/ \E t \in Threads : old' = [old EXCEPT ![t] = current]
      BY InUse
    <3>2. current' = current \/ \E t \in Threads : old'[t] = current
      BY <3>1 DEF TypeOK
    <3> QED
      BY <2>2, <2>6, <3>2
  <2>7. CASE \E t \in Threads : holds'[u] = old[t] /\ holds[u] = old[t]
    <3>1. PICK t \in Threads : holds'[u] = old[t] /\ holds[u] = old[t]
      BY <2>7
    <3>2. CASE old'[t] = old[t]
      BY <2>2, <3>1, <3>2
    <3>3. CASE Defers /\ old'[t] # old[t]
      <4>1. PICK s \in Threads : /\ old[s] \in Nodes /\ old' = [old EXCEPT ![s] = NULL]
                                 /\ QueueOf(s)' = Append(QueueOf(s), Deferred(old[s]))
        BY <3>3 DEF Defers
      <4>2. s = t /\ t \in Owners
        BY <3>3, <4>1 DEF TypeOK, Owners
      <4>3. Deferred(old[s]) \in Items /\ Deferred(old[s]).node = old[s]
        BY <4>1 DEF Deferred, Items, TypeOK, QSBR_INCR
      <4>4. \E i \in DOMAIN QueueOf(s)' : QueueOf(s)'[i] = Deferred(old[s])
        BY <4>1, <4>2, <4>3, QueueTypes, AppendFacts
      <4>5. InQueue(old[t])
        BY <4>2, <4>3, <4>4
      <4> QED
        BY <2>2, <3>1, <4>5
    <3>4. ~ Defers => old'[t] = old[t]
      BY <3>1, InUse DEF TypeOK
    <3> QED
      BY <3>2, <3>3, <3>4
  <2> QED
    BY <2>4, <2>5, <2>6, <2>7
<1> QED
  BY <1>1, <1>2

-----------------------------------------------------------------------------
(* The invariant holds, and with it the properties that the run checks.    *)
THEOREM Invariance == Spec => []Inv
<1>1. Init => Inv
  BY InitInv
<1>2. Inv /\ [Next]_vars => Inv'
  <2> SUFFICES ASSUME Inv, [Next]_vars PROVE Inv'
    OBVIOUS
  <2>1. TypeOK' /\ SequenceInv' /\ OnlineInv' /\ ProcessInv'
    BY TypeStep, SequenceStep, OnlineStep, ProcessStep DEF Inv
  <2>2. NodesInv' /\ WorkAnnounced' /\ GoalsInv'
    BY NodesStep, AnnouncedStep, GoalsStep DEF Inv
  <2>3. FreedOnce' /\ HeldIsLive'
    BY FreedStep, HeldStep DEF Inv
  <2> QED
    BY <2>1, <2>2, <2>3 DEF Inv
<1> QED
  BY <1>1, <1>2, PTL DEF Spec

(* No thread uses memory that has been freed: however the loads and stores *)
(* of attaching, of quiescent states and of polls interleave.              *)
THEOREM HeldIsLiveHolds == Spec => []HeldIsLive
<1>1. Inv => HeldIsLive
  BY DEF Inv
<1> QED
  BY <1>1, Invariance, PTL

(* No memory is freed twice, whoever hands its queue over to whom.         *)
THEOREM FreedOnceHolds == Spec => []FreedOnce
<1>1. Inv => FreedOnce
  BY DEF Inv
<1> QED
  BY <1>1, Invariance, PTL

(* What an ended thread leaves behind is announced, whenever the mutex is  *)
(* free.                                                                   *)
THEOREM WorkAnnouncedHolds == Spec => []WorkAnnounced
<1>1. Inv => WorkAnnounced
  BY DEF Inv
<1> QED
  BY <1>1, Invariance, PTL

-----------------------------------------------------------------------------
(* The refinement: which nodes are garbage after a step.                   *)
LEMMA GarbageIff ==
  \A n : n \in Garbage <=>
    \/ n # NULL /\ \E t \in Threads : n = old[t]
    \/ \E o \in Owners : \E i \in DOMAIN QueueOf(o) : n = QueueOf(o)[i].node
BY DEF Garbage, Waiting

LEMMA GarbageIffNext ==
  \A n : n \in Garbage' <=>
    \/ n # NULL /\ \E t \in Threads : n = old'[t]
    \/ \E o \in Owners : \E i \in DOMAIN QueueOf(o)' : n = QueueOf(o)'[i].node
BY DEF Garbage, Waiting

(* A node becomes garbage when it is replaced, and only then.              *)
LEMMA GarbageShrinks ==
  ASSUME TypeOK, OnlineInv, ProcessInv, GoalsInv, [Next]_vars, current' = current
  PROVE  Garbage' \subseteq Garbage
<1> SUFFICES ASSUME NEW n, n \in Garbage' PROVE n \in Garbage
  OBVIOUS
<1>1. CASE n # NULL /\ \E t \in Threads : n = old'[t]
  <2>1. PICK t \in Threads : n = old'[t] /\ n # NULL
    BY <1>1
  <2>2. old'[t] = old[t]
    BY <2>1, CurrentStep DEF TypeOK, Live
  <2> QED
    BY <2>1, <2>2, GarbageIff
<1>2. CASE \E o \in Owners : \E i \in DOMAIN QueueOf(o)' : n = QueueOf(o)'[i].node
  <2>1. PICK o \in Owners : \E i \in DOMAIN QueueOf(o)' : n = QueueOf(o)'[i].node
    BY <1>2
  <2>2. PICK i \in DOMAIN QueueOf(o)' : n = QueueOf(o)'[i].node
    BY <2>1
  <2>3. Kept \/ FreesFirst \/ Defers \/ HandsOver \/ Empties
    BY QueueSteps
  <2>4. CASE \E p \in Owners : \E j \in DOMAIN QueueOf(p) : QueueOf(p)[j] = QueueOf(o)'[i]
    BY <2>2, <2>4, GarbageIff
  <2>5. CASE \E t \in Threads : old[t] \in Nodes /\ QueueOf(o)'[i] = Deferred(old[t])
    BY <2>2, <2>5, GarbageIff, QSBRAssumption DEF Deferred
  <2> QED
    BY <2>3, <2>4, <2>5, Origin
<1> QED
  BY <1>1, <1>2, GarbageIffNext

(* The steps of which readers and writers see something.                   *)
LEMMA SeenSteps ==
  ASSUME TypeOK, [Next]_vars
  PROVE  \/ holds' = holds /\ current' = current
         \/ \E t \in Threads : Read(t) \/ Drop(t) \/ \E node \in Nodes : Replace(t, node)
<1> DEFINE Unseen == holds' = holds /\ current' = current
<1>1. CASE UNCHANGED vars
  BY <1>1 DEF vars
<1>2. ASSUME NEW t \in Threads, Register(t) PROVE Unseen
  BY <1>2 DEF Register
<1>3. ASSUME NEW t \in Threads, AttachLoad(t) PROVE Unseen
  BY <1>3 DEF AttachLoad
<1>4. ASSUME NEW t \in Threads, AttachStore(t) PROVE Unseen
  BY <1>4 DEF AttachStore
<1>5. ASSUME NEW t \in Threads, Detach(t) PROVE Unseen
  BY <1>5 DEF Detach
<1>6. ASSUME NEW t \in Threads, QuietLoad(t) PROVE Unseen
  BY <1>6 DEF QuietLoad
<1>7. ASSUME NEW t \in Threads, QuietStore(t) PROVE Unseen
  BY <1>7 DEF QuietStore
<1>8. ASSUME NEW t \in Threads, NEW large \in BOOLEAN, NEW full \in BOOLEAN, Retire(t, large, full) PROVE Unseen
  BY <1>8 DEF Retire
<1>9. ASSUME NEW t \in Threads, RetireNow(t) PROVE Unseen
  BY <1>9 DEF RetireNow
<1>10. ASSUME NEW t \in Threads, Process(t) PROVE Unseen
  BY <1>10 DEF Process
<1>11. ASSUME NEW t \in Threads, Abandon(t) PROVE Unseen
  BY <1>11 DEF Abandon
<1>12. ASSUME NEW t \in Threads, Collect(t) PROVE Unseen
  BY <1>12 DEF Collect
<1>13. ASSUME NEW t \in Threads, Poll(t) PROVE Unseen
  BY <1>13 DEF Poll
<1>14. ASSUME NEW t \in Threads, NEW u \in Threads, Scan(t, u) PROVE Unseen
  BY <1>14 DEF Scan
<1>15. ASSUME NEW t \in Threads, Publish(t) PROVE Unseen
  BY <1>15 DEF Publish
<1>16. ASSUME NEW t \in Threads, Swap(t) PROVE Unseen
  BY <1>16 DEF Swap
<1>17. ASSUME NEW t \in Threads, LookForWork(t) PROVE Unseen
  BY <1>17 DEF LookForWork
<1>18. ASSUME NEW t \in Threads, TryLock(t) PROVE Unseen
  BY <1>18 DEF TryLock
<1>19. ASSUME NEW t \in Threads, Unlock(t) PROVE Unseen
  BY <1>19 DEF Unlock
<1>20. ASSUME NEW t \in Threads, ScanBegin(t) PROVE Unseen
  BY <1>20 DEF ScanBegin
<1>21. ASSUME NEW t \in Threads, NEW u \in Threads, AbandonOther(t, u) PROVE Unseen
  BY <1>21 DEF AbandonOther
<1> QED
  BY <1>1, <1>2, <1>3, <1>4, <1>5, <1>6, <1>7, <1>8, <1>9, <1>10, <1>11, <1>12, <1>13, <1>14, <1>15, <1>16, <1>17, <1>18, <1>19, <1>20, <1>21 DEF Next

(* A reader takes what is current; a writer replaces it by free memory.    *)
LEMMA ReadReclaims ==
  ASSUME TypeOK, NEW t \in Threads, Read(t) \/ Drop(t)
  PROVE  Reclamation!Next
<1>1. UNCHANGED <<current, old, queue, interpQueue>>
  BY DEF Read, Drop, queueVars
<1>2. Garbage' = Garbage
  BY <1>1 DEF Garbage, Waiting, QueueOf
<1> QED
  BY <1>1, <1>2 DEF Read, Drop, Reclamation!Next, Reclamation!Read, Reclamation!Drop

LEMMA ReplaceReclaims ==
  ASSUME TypeOK, OnlineInv, NEW t \in Threads, NEW node \in Nodes, Replace(t, node)
  PROVE  Reclamation!Replace(node)
<1>1. /\ current' = node /\ holds' = holds /\ old' = [old EXCEPT ![t] = current]
      /\ UNCHANGED <<queue, interpQueue>> /\ node \notin Live /\ old[t] = NULL
  BY DEF Replace, queueVars, OnlineInv
<1>2. current # NULL /\ node # NULL
  BY QSBRAssumption DEF TypeOK
<1>3. node \notin Garbage \union {current}
  BY <1>1, LiveIff, GarbageIff
<1>4. ASSUME NEW n PROVE n \in Garbage' <=> n \in Garbage \union {current}
  <2>1. (\E o \in Owners : \E i \in DOMAIN QueueOf(o)' : n = QueueOf(o)'[i].node)
          <=> \E o \in Owners : \E i \in DOMAIN QueueOf(o) : n = QueueOf(o)[i].node
    BY <1>1 DEF QueueOf
  <2>2. n # NULL /\ (\E u \in Threads : n = old'[u])
          <=> n = current \/ (n # NULL /\ \E u \in Threads : n = old[u])
    BY <1>1, <1>2 DEF TypeOK
  <2> QED
    BY <2>1, <2>2, GarbageIff, GarbageIffNext
<1> QED
  BY <1>1, <1>3, <1>4 DEF Reclamation!Replace

(* All other steps free some garbage, or none: what a thread still holds   *)
(* is current or in use afterwards.                                        *)
LEMMA OthersReclaim ==
  ASSUME Inv, HeldIsLive', FreedOnce', NodesInv', OnlineInv', [Next]_vars,
         holds' = holds, current' = current
  PROVE  \E nodes \in SUBSET Garbage : Reclamation!Free(nodes)
<1> DEFINE nodes == Garbage \ Garbage'
<1>1. Garbage' = Garbage \ nodes
  BY GarbageShrinks DEF Inv
<1>2. ASSUME NEW t \in Threads, holds[t] \in nodes PROVE FALSE
  <2>1. holds[t] \in Garbage /\ holds[t] \notin Garbage'
    BY <1>2
  <2>2. holds[t] # NULL
    <3>1. \A o \in Owners : QueueOf(o) \in Seq(Items)
      BY QueueTypes DEF Inv
    <3>2. \A o \in Owners : \A i \in DOMAIN QueueOf(o) : QueueOf(o)[i] \in Items
      BY <3>1
    <3>3. \A o \in Owners : \A i \in DOMAIN QueueOf(o) : QueueOf(o)[i].node # NULL
      BY <3>2, QSBRAssumption DEF Items
    <3> QED
      BY <2>1, <3>3, GarbageIff
  <2>3. holds'[t] \in Live'
    BY <2>2 DEF HeldIsLive
  <2>4. holds[t] = current'
    BY <2>1, <2>2, <2>3, GarbageIffNext DEF Live, Waiting
  <2>5. current \notin Garbage
    BY GarbageIff DEF Inv, FreedOnce, NodesInv
  <2> QED
    BY <2>1, <2>4, <2>5
<1> QED
  BY <1>1, <1>2 DEF Reclamation!Free

LEMMA StepReclaims ==
  ASSUME Inv, Inv', [Next]_vars
  PROVE  [Reclamation!Next]_(Reclamation!vars)
<1>1. CASE holds' = holds /\ current' = current
  BY <1>1, OthersReclaim DEF Inv, Reclamation!Next
<1>2. ASSUME NEW t \in Threads, Read(t) \/ Drop(t) PROVE Reclamation!Next
  BY <1>2, ReadReclaims DEF Inv
<1>3. ASSUME NEW t \in Threads, NEW node \in Nodes, Replace(t, node) PROVE Reclamation!Next
  BY <1>3, ReplaceReclaims DEF Inv, Reclamation!Next
<1> QED
  BY <1>1, <1>2, <1>3, SeenSteps DEF Inv

LEMMA InitReclaims == Init => Reclamation!Init
<1> SUFFICES ASSUME Init PROVE Reclamation!Init
  OBVIOUS
<1>1. \A t \in Threads : old[t] = NULL
  BY DEF Init
<1>2. \A o \in Owners : QueueOf(o) = <<>>
  BY DEF Init, Owners, QueueOf
<1>3. Garbage = {}
  BY <1>1, <1>2, GarbageIff
<1> QED
  BY <1>3 DEF Init, Reclamation!Init

(* Quiescent states, polls and the queues of delayed frees implement a     *)
(* memory of which only garbage that no thread holds any more is freed.    *)
THEOREM Implementation == Spec => ImplementsReclamation
<1>1. Inv /\ Inv' /\ [Next]_vars => [Reclamation!Next]_(Reclamation!vars)
  BY StepReclaims
<1> QED
  BY <1>1, InitReclaims, Invariance, PTL DEF Spec, ImplementsReclamation, Reclamation!Spec

=============================================================================
