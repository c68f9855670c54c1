--------------------------- MODULE PyMutexProofs ----------------------------
(***************************************************************************)
(* The safety properties of PyMutex over the parking lot, for every finite *)
(* set of threads, every set of mutexes and every hashing into buckets.    *)
(***************************************************************************)
EXTENDS ThreadingLock, SequenceTheorems, TLAPS

(* Appending a new element keeps a sequence free of repetitions.           *)
LEMMA AppendFacts ==
  ASSUME NEW S, NEW q \in Seq(S), NEW e \in S, IsInjective(q),
         \A i \in DOMAIN q : q[i] # e
  PROVE  /\ Append(q, e) \in Seq(S)
         /\ IsInjective(Append(q, e))
         /\ ToSet(Append(q, e)) = ToSet(q) \union {e}
<1> DEFINE r == Append(q, e)
<1>1. r \in Seq(S) /\ Len(r) = Len(q) + 1 /\ Len(q) \in Nat
  OBVIOUS
<1>2. DOMAIN r = 1 .. Len(q) + 1 /\ DOMAIN q = 1 .. Len(q)
  BY <1>1
<1>3. \A i \in 1 .. Len(q) : r[i] = q[i]
  OBVIOUS
<1>4. r[Len(q) + 1] = e
  OBVIOUS
<1> HIDE DEF r
<1>5. IsInjective(r)
  BY <1>1, <1>2, <1>3, <1>4 DEF IsInjective
<1>6. ToSet(r) = ToSet(q) \union {e}
  <2>1. \A u : (\E i \in DOMAIN r : r[i] = u) <=> (\E i \in DOMAIN q : q[i] = u) \/ u = e
    BY <1>1, <1>2, <1>3, <1>4
  <2> QED
    BY <2>1 DEF ToSet
<1> QED
  BY <1>1, <1>5, <1>6 DEF r

(* So does removing one, which then is gone and the others are left.       *)
LEMMA RemoveFacts ==
  ASSUME NEW S, NEW q \in Seq(S), NEW k \in DOMAIN q, IsInjective(q)
  PROVE  /\ RemoveAt(q, k) \in Seq(S)
         /\ IsInjective(RemoveAt(q, k))
         /\ ToSet(RemoveAt(q, k)) = ToSet(q) \ {q[k]}
<1> DEFINE r == RemoveAt(q, k)
           n == Len(q)
<1>1. n \in Nat /\ k \in 1 .. n /\ DOMAIN q = 1 .. n
  OBVIOUS
<1>2. /\ SubSeq(q, 1, k - 1) \in Seq(S) /\ Len(SubSeq(q, 1, k - 1)) = k - 1
      /\ \A i \in 1 .. k - 1 : SubSeq(q, 1, k - 1)[i] = q[i]
  BY <1>1
<1>3. /\ SubSeq(q, k + 1, n) \in Seq(S) /\ Len(SubSeq(q, k + 1, n)) = n - k
      /\ \A i \in 1 .. n - k : SubSeq(q, k + 1, n)[i] = q[i + k]
  BY <1>1
<1> DEFINE front == SubSeq(q, 1, k - 1)
           back  == SubSeq(q, k + 1, n)
<1>a. r = front \o back
  BY DEF RemoveAt
<1>4. r \in Seq(S) /\ Len(r) = n - 1
  <2>1. front \in Seq(S) /\ back \in Seq(S) /\ Len(front) = k - 1 /\ Len(back) = n - k
    BY <1>2, <1>3
  <2> HIDE DEF front, back, r
  <2>2. r \in Seq(S) /\ Len(r) = Len(front) + Len(back)
    BY <2>1, <1>a, ConcatProperties
  <2> QED
    BY <2>1, <2>2, <1>1
<1>5. \A i \in 1 .. n - 1 : r[i] = IF i < k THEN q[i] ELSE q[i + 1]
  <2> SUFFICES ASSUME NEW i \in 1 .. n - 1
               PROVE  r[i] = IF i < k THEN q[i] ELSE q[i + 1]
    OBVIOUS
  <2>1. /\ front \in Seq(S) /\ back \in Seq(S) /\ Len(front) = k - 1 /\ Len(back) = n - k
        /\ \A j \in 1 .. k - 1 : front[j] = q[j]
        /\ \A j \in 1 .. n - k : back[j] = q[j + k]
    BY <1>2, <1>3
  <2> HIDE DEF front, back, r
  <2>2. CASE i < k
    BY <2>1, <2>2, <1>1, <1>a
  <2>3. CASE ~ (i < k)
    <3>3. i \in 1 .. Len(front) + Len(back) /\ ~ (i <= Len(front))
      BY <2>1, <2>3, <1>1
    <3>1. r[i] = back[i - (k - 1)]
      BY <2>1, <3>3, <1>a, ConcatProperties, SMTT(30)
    <3>2. i - (k - 1) \in 1 .. n - k /\ i - (k - 1) + k = i + 1
      BY <2>3, <1>1
    <3> QED
      BY <3>1, <3>2, <2>1, <2>3
  <2> QED
    BY <2>2, <2>3
<1>6. DOMAIN r = 1 .. n - 1
  BY <1>4
<1> HIDE DEF r
<1>7. IsInjective(r)
  <2> SUFFICES ASSUME NEW i \in 1 .. n - 1, NEW j \in 1 .. n - 1, r[i] = r[j]
               PROVE  i = j
    BY <1>6 DEF IsInjective
  <2> DEFINE old(x) == IF x < k THEN x ELSE x + 1
  <2>1. old(i) \in 1 .. n /\ old(j) \in 1 .. n /\ q[old(i)] = q[old(j)]
    BY <1>1, <1>5
  <2>2. old(i) = old(j)
    BY <2>1, <1>1 DEF IsInjective
  <2> QED
    BY <2>2, <1>1
<1>8. ASSUME NEW u PROVE (\E i \in DOMAIN r : r[i] = u) => (\E i \in DOMAIN q : q[i] = u) /\ u # q[k]
  <2> SUFFICES ASSUME NEW i \in 1 .. n - 1, r[i] = u
               PROVE  (\E j \in 1 .. n : q[j] = u) /\ u # q[k]
    BY <1>1, <1>6
  <2>1. CASE i < k
    BY <2>1, <1>1, <1>5 DEF IsInjective
  <2>2. CASE ~ (i < k)
    <3>1. i + 1 \in 1 .. n /\ i + 1 # k /\ r[i] = q[i + 1]
      BY <2>2, <1>1, <1>5
    <3> QED
      BY <3>1, <1>1 DEF IsInjective
  <2> QED
    BY <2>1, <2>2
<1>9. ASSUME NEW j \in DOMAIN q, q[j] # q[k] PROVE \E i \in DOMAIN r : r[i] = q[j]
  <2>1. CASE j < k
    <3>1. j \in 1 .. n - 1 /\ r[j] = q[j]
      BY <2>1, <1>1, <1>5
    <3> QED
      BY <3>1, <1>6
  <2>2. CASE j > k
    <3>1. j - 1 \in 1 .. n - 1 /\ r[j - 1] = q[j - 1 + 1]
      BY <2>2, <1>1, <1>5
    <3>2. j - 1 + 1 = j
      BY <1>1
    <3> QED
      BY <3>1, <3>2, <1>6
  <2> QED
    BY <2>1, <2>2, <1>1, <1>9
<1>10. ToSet(r) = ToSet(q) \ {q[k]}
  <2>1. ASSUME NEW u \in ToSet(r) PROVE u \in ToSet(q) \ {q[k]}
    <3>1. \E i \in DOMAIN r : r[i] = u
      BY DEF ToSet
    <3>2. (\E i \in DOMAIN q : q[i] = u) /\ u # q[k]
      BY <3>1, <1>8
    <3> QED
      BY <3>2 DEF ToSet
  <2>2. ASSUME NEW u \in ToSet(q) \ {q[k]} PROVE u \in ToSet(r)
    <3>1. PICK j \in DOMAIN q : q[j] = u
      BY DEF ToSet
    <3>2. \E i \in DOMAIN r : r[i] = u
      BY <3>1, <1>9
    <3> QED
      BY <3>2 DEF ToSet
  <2> QED
    BY <2>1, <2>2
<1> QED
  BY <1>4, <1>7, <1>10 DEF r

-----------------------------------------------------------------------------
(* The queues of the parking lot.                                          *)

(* Thread u has an entry in the list of bucket b.                          *)
In(b, u) == \E i \in DOMAIN queue[b] : queue[b][i] = u

(* Thread u is in Park, on an address of bucket b, and not dequeued.       *)
Waits(b, u) ==
  /\ at[u] # NULL /\ Bucket[at[u]] = b
  /\ park[u] \in {"waiting"} \union Expired /\ ~ unparking[u]

(* QueuesExact, bucket by bucket.                                          *)
Exact ==
  /\ \A b \in Buckets : IsInjective(queue[b])
  /\ \A b \in Buckets, u \in Threads : In(b, u) <=> Waits(b, u)

(* QueuesExact says that each bucket holds who waits in it.                *)
LEMMA ExactForm ==
  ASSUME LotTypeOK, QueuesExact
  PROVE  Exact
<1> USE ParkingLotAssumption DEF LotTypeOK
<1>1. ASSUME NEW b \in Buckets, NEW u \in Threads
      PROVE  In(b, u) <=> Waits(b, u)
  <2>1. In(b, u) => at[u] # NULL /\ Bucket[at[u]] = b
    BY DEF In, QueuesExact
  <2>2. In(b, u) => Queued(u)
    BY <2>1 DEF In, Queued
  <2>3. Queued(u) => at[u] # NULL /\ In(Bucket[at[u]], u)
    BY DEF Queued, In
  <2>4. Queued(u) <=> park[u] \in {"waiting"} \union Expired /\ ~ unparking[u]
    BY DEF QueuesExact
  <2> QED
    BY <2>1, <2>2, <2>3, <2>4 DEF Waits
<1> QED
  BY <1>1 DEF Exact, QueuesExact

(* And the other way round, in the state after a step.                     *)
LEMMA ExactFormNext ==
  ASSUME LotTypeOK', Exact', \A u \in Threads : park[u]' # "out" => at[u]' # NULL
  PROVE  QueuesExact'
<1> USE ParkingLotAssumption DEF LotTypeOK
<1>1. ASSUME NEW b \in Buckets, NEW i \in DOMAIN queue'[b]
      PROVE  at'[queue'[b][i]] # NULL /\ Bucket[at'[queue'[b][i]]] = b
  <2>1. queue'[b][i] \in Threads
    OBVIOUS
  <2>2. ASSUME NEW u \in Threads, u = queue'[b][i]
        PROVE  at'[u] # NULL /\ Bucket[at'[u]] = b
    <3>1. In(b, u)'
      BY <2>2 DEF In
    <3> QED
      BY <3>1 DEF Exact, Waits
  <2> QED
    BY <2>1, <2>2
<1>2. ASSUME NEW u \in Threads
      PROVE  Queued(u)' <=> park'[u] \in {"waiting"} \union Expired /\ ~ unparking'[u]
  <2>1. CASE at'[u] = NULL
    BY <2>1 DEF Queued, Expired
  <2>2. CASE at'[u] # NULL
    <3>1. PICK b \in Buckets : b = Bucket[at'[u]]
      BY <2>2
    <3>2. Queued(u)' <=> In(b, u)'
      BY <3>1, <2>2 DEF Queued, In
    <3>3. In(b, u)' <=> Waits(b, u)'
      BY DEF Exact
    <3> QED
      BY <3>1, <3>2, <3>3, <2>2 DEF Waits
  <2> QED
    BY <2>1, <2>2
<1> QED
  BY <1>1, <1>2 DEF QueuesExact, Exact

(* A thread is queued where its entry says it waits.                       *)
LEMMA QueuedForm ==
  ASSUME LotTypeOK, QueuesExact, NEW u \in Threads
  PROVE  Queued(u) <=> park[u] \in {"waiting"} \union Expired /\ ~ unparking[u]
BY DEF QueuesExact

(* Park enqueues a thread that has no entry yet.                           *)
LEMMA EnqueueStep ==
  ASSUME LotTypeOK, QueuesExact, NEW t \in Threads, NEW a \in Addrs,
         \A u \in Threads : park[u] # "out" => at[u] # NULL,
         park[t] = "out", at[t] = NULL, Enqueue(t, a)
  PROVE  LotTypeOK' /\ QueuesExact'
<1> USE ParkingLotAssumption
<1> DEFINE B == Bucket[a]
<1>1. Exact
  BY ExactForm
<1>2. B \in Buckets /\ queue[B] \in Seq(Threads) /\ IsInjective(queue[B])
  BY <1>1 DEF LotTypeOK, Exact
<1>3. \A i \in DOMAIN queue[B] : queue[B][i] # t
  BY <1>1, <1>2 DEF Exact, In, Waits
<1>4. queue' = [queue EXCEPT ![B] = Append(@, t)]
  BY DEF Enqueue
<1> HIDE DEF B
<1>5. /\ queue'[B] = Append(queue[B], t)
      /\ \A b \in Buckets : b # B => queue'[b] = queue[b]
  BY <1>2, <1>4 DEF LotTypeOK
<1>6. /\ queue'[B] \in Seq(Threads) /\ IsInjective(queue'[B])
      /\ \A u : In(B, u)' <=> In(B, u) \/ u = t
  <2>1. /\ queue'[B] \in Seq(Threads) /\ IsInjective(queue'[B])
        /\ ToSet(queue'[B]) = ToSet(queue[B]) \union {t}
    BY <1>2, <1>3, <1>5, AppendFacts
  <2>2. \A u : In(B, u) <=> u \in ToSet(queue[B])
    BY DEF In, ToSet
  <2>3. \A u : In(B, u)' <=> u \in ToSet(queue'[B])
    BY DEF In, ToSet
  <2> QED
    BY <2>1, <2>2, <2>3
<1>7. queue' \in [Buckets -> Seq(Threads)]
  BY <1>2, <1>4, <1>5, <1>6 DEF LotTypeOK
<1>8. LotTypeOK'
  BY <1>7 DEF LotTypeOK, Enqueue, EntryIn, Parking
<1>9. \A b \in Buckets : IsInjective(queue'[b])
  BY <1>1, <1>5, <1>6 DEF Exact
<1>10. \A b \in Buckets, u \in Threads : b # B => (In(b, u)' <=> In(b, u))
  BY <1>5 DEF In
<1>11. /\ at'[t] = a /\ park'[t] = "waiting" /\ ~ unparking'[t]
       /\ \A u \in Threads : u # t =>
            at'[u] = at[u] /\ park'[u] = park[u] /\ unparking'[u] = unparking[u]
  BY DEF LotTypeOK, Enqueue, EntryIn
<1>12. \A b \in Buckets, u \in Threads : In(b, u)' <=> Waits(b, u)'
  <2> SUFFICES ASSUME NEW b \in Buckets, NEW u \in Threads
               PROVE  In(b, u)' <=> Waits(b, u)'
    OBVIOUS
  <2>1. CASE u = t
    <3>1. Waits(b, u)' <=> b = B
      BY <2>1, <1>11 DEF Waits, B
    <3>2. ~ In(b, u)
      BY <2>1, <1>1 DEF Exact, Waits
    <3> QED
      BY <3>1, <3>2, <2>1, <1>6, <1>10
  <2>2. CASE u # t
    BY <2>2, <1>1, <1>6, <1>10, <1>11 DEF Exact, Waits
  <2> QED
    BY <2>1, <2>2
<1>13. \A u \in Threads : park'[u] # "out" => at'[u] # NULL
  BY <1>11
<1> QED
  BY <1>8, <1>9, <1>12, <1>13, ExactFormNext DEF Exact

(* Taking the entry of w off its list, when w's entry does not wait any    *)
(* more and the other entries are as before.                               *)
LEMMA RemoveStep ==
  ASSUME LotTypeOK, QueuesExact, NEW b \in Buckets, NEW i \in DOMAIN queue[b],
         NEW w, w = queue[b][i],
         queue' = [queue EXCEPT ![b] = RemoveAt(@, i)],
         park'[w] = "out" \/ unparking'[w],
         \A u \in Threads : u # w =>
           at'[u] = at[u] /\ park'[u] = park[u] /\ unparking'[u] = unparking[u]
  PROVE  w \in Threads /\ In(b, w) /\ queue' \in [Buckets -> Seq(Threads)] /\ Exact'
<1>1. Exact
  BY ExactForm
<1>2. queue[b] \in Seq(Threads) /\ IsInjective(queue[b])
  BY <1>1 DEF LotTypeOK, Exact
<1>3. w \in Threads /\ In(b, w)
  BY <1>2 DEF In
<1>4. /\ queue'[b] = RemoveAt(queue[b], i)
      /\ \A c \in Buckets : c # b => queue'[c] = queue[c]
  BY DEF LotTypeOK
<1>5. /\ queue'[b] \in Seq(Threads) /\ IsInjective(queue'[b])
      /\ \A u : In(b, u)' <=> In(b, u) /\ u # w
  <2>1. /\ queue'[b] \in Seq(Threads) /\ IsInjective(queue'[b])
        /\ ToSet(queue'[b]) = ToSet(queue[b]) \ {w}
    BY <1>2, <1>4, RemoveFacts
  <2>2. \A u : In(b, u) <=> u \in ToSet(queue[b])
    BY DEF In, ToSet
  <2>3. \A u : In(b, u)' <=> u \in ToSet(queue'[b])
    BY DEF In, ToSet
  <2> QED
    BY <2>1, <2>2, <2>3
<1>6. queue' \in [Buckets -> Seq(Threads)]
  BY <1>4, <1>5 DEF LotTypeOK
<1>7. \A c \in Buckets, u \in Threads : c # b => (In(c, u)' <=> In(c, u))
  BY <1>4 DEF In
<1>8. \A c \in Buckets : IsInjective(queue'[c])
  BY <1>1, <1>4, <1>5 DEF Exact
<1>9. \A c \in Buckets, u \in Threads : In(c, u)' <=> Waits(c, u)'
  <2> SUFFICES ASSUME NEW c \in Buckets, NEW u \in Threads
               PROVE  In(c, u)' <=> Waits(c, u)'
    OBVIOUS
  <2>1. CASE u = w
    <3>1. ~ Waits(c, u)'
      BY <2>1 DEF Waits, Expired
    <3>2. In(c, u) => c = b
      BY <2>1, <1>1, <1>3 DEF Exact, Waits
    <3> QED
      BY <3>1, <3>2, <2>1, <1>5, <1>7
  <2>2. CASE u # w
    <3>1. In(c, u)' <=> In(c, u)
      BY <2>2, <1>5, <1>7
    <3>2. Waits(c, u)' <=> Waits(c, u)
      BY <2>2 DEF Waits
    <3> QED
      BY <3>1, <3>2, <1>1 DEF Exact
  <2> QED
    BY <2>1, <2>2
<1> QED
  BY <1>3, <1>6, <1>8, <1>9 DEF Exact

(* What the mutex keeps true of the entries of the parking lot.            *)
EntriesOK ==
  \A u \in Threads :
    /\ park[u] # "out" => at[u] # NULL
    /\ sema[u] > 0 => unparking[u]

(* A waiter that gives up takes itself off its list.                       *)
LEMMA WithdrawStep ==
  ASSUME LotTypeOK, QueuesExact, EntriesOK, NEW t \in Threads, Withdraw(t)
  PROVE  LotTypeOK' /\ QueuesExact'
<1> USE ParkingLotAssumption DEF LotTypeOK
<1> DEFINE b == Bucket[at[t]]
<1>1. PICK i \in DOMAIN queue[b] :
        queue[b][i] = t /\ queue' = [queue EXCEPT ![b] = RemoveAt(@, i)]
  BY DEF Withdraw
<1>2. b \in Buckets
  BY DEF EntriesOK, Withdraw, Expired
<1>3. /\ park'[t] = "out"
      /\ \A u \in Threads : u # t =>
           at'[u] = at[u] /\ park'[u] = park[u] /\ unparking'[u] = unparking[u]
  BY DEF Withdraw, EntryOut
<1> HIDE DEF b
<1>4. queue' \in [Buckets -> Seq(Threads)] /\ Exact'
  BY <1>1, <1>2, <1>3, RemoveStep
<1>5. LotTypeOK'
  BY <1>4 DEF Withdraw, EntryOut, Parking
<1>6. \A u \in Threads : park'[u] # "out" => at'[u] # NULL
  BY <1>3 DEF EntriesOK
<1> QED
  BY <1>4, <1>5, <1>6, ExactFormNext

(* An unparker takes one waiter of its address, and has_more_waiters is    *)
(* true if it leaves another one there.                                    *)
LEMMA DequeueStep ==
  ASSUME LotTypeOK, QueuesExact, EntriesOK, NEW a \in Addrs, NEW w, Dequeue(a, w)
  PROVE  /\ LotTypeOK' /\ QueuesExact'
         /\ w \in Threads /\ Queued(w) /\ at[w] = a /\ unparking'[w]
         /\ \A u \in Threads : u # w => unparking'[u] = unparking[u]
         /\ (\E u \in Threads : u # w /\ Queued(u) /\ at[u] = a) => HasMoreWaiters(a)
<1> USE ParkingLotAssumption DEF LotTypeOK
<1> DEFINE b == Bucket[a]
<1>1. PICK i \in DOMAIN queue[b] :
        /\ at[queue[b][i]] = a /\ w = queue[b][i]
        /\ queue' = [queue EXCEPT ![b] = RemoveAt(@, i)]
  BY DEF Dequeue, FirstWaiter
<1>2. b \in Buckets /\ w \in Threads
  BY <1>1
<1>3. /\ unparking'[w] /\ at[w] = a
      /\ \A u \in Threads : u # w =>
           at'[u] = at[u] /\ park'[u] = park[u] /\ unparking'[u] = unparking[u]
  BY <1>1, <1>2 DEF Dequeue
<1>4. Queued(w)
  BY <1>1, <1>3 DEF Queued
<1>5. (\E u \in Threads : u # w /\ Queued(u) /\ at[u] = a) => HasMoreWaiters(a)
  <2> SUFFICES ASSUME NEW j \in DOMAIN queue[b], queue[b][j] # w
               PROVE  Len(queue[b]) > 1
    BY DEF Queued, HasMoreWaiters
  <2>1. queue[b] \in Seq(Threads) /\ i # j
    BY <1>1, <1>2
  <2> QED
    BY <2>1
<1> HIDE DEF b
<1>6. queue' \in [Buckets -> Seq(Threads)] /\ Exact'
  <2> HIDE DEF LotTypeOK
  <2>1. /\ b \in Buckets /\ w = queue[b][i] /\ i \in DOMAIN queue[b]
        /\ queue' = [queue EXCEPT ![b] = RemoveAt(@, i)]
        /\ park'[w] = "out" \/ unparking'[w]
        /\ \A u \in Threads : u # w =>
             at'[u] = at[u] /\ park'[u] = park[u] /\ unparking'[u] = unparking[u]
    BY <1>1, <1>2, <1>3
  <2> QED
    BY <2>1, RemoveStep, ZenonT(30)
<1>7. LotTypeOK'
  BY <1>2, <1>6 DEF Dequeue
<1>8. \A u \in Threads : park'[u] # "out" => at'[u] # NULL
  BY DEF EntriesOK, Dequeue
<1> QED
  BY <1>2, <1>3, <1>4, <1>5, <1>6, <1>7, <1>8, ExactFormNext

(* The steps that leave the queues alone.                                  *)
LEMMA QueuesSame ==
  ASSUME LotTypeOK, QueuesExact, LotTypeOK', queue' = queue, EntriesOK,
         \A u \in Threads : park'[u] # "out" => at'[u] = at[u] /\ park[u] # "out",
         \A u \in Threads :
           (park'[u] \in {"waiting"} \union Expired /\ ~ unparking'[u])
             <=> (park[u] \in {"waiting"} \union Expired /\ ~ unparking[u])
  PROVE  QueuesExact'
<1>1. Exact
  BY ExactForm
<1>2. \A b \in Buckets, u \in Threads : Waits(b, u)' <=> Waits(b, u)
  BY DEF Waits, EntriesOK, Expired
<1>3. Exact'
  BY <1>1, <1>2 DEF Exact, In
<1> QED
  BY <1>3, ExactFormNext DEF EntriesOK

(* A waiter whose semaphore was posted has been dequeued before.           *)
LEMMA ParkOKStep ==
  ASSUME LotTypeOK, QueuesExact, EntriesOK, NEW t \in Threads, ParkOK(t)
  PROVE  LotTypeOK' /\ QueuesExact'
<1>1. LotTypeOK'
  BY DEF LotTypeOK, ParkOK, EntryOut
<1>2. unparking[t]
  BY DEF ParkOK, EntriesOK
<1>3. /\ park'[t] = "out"
      /\ \A u \in Threads : u # t =>
           at'[u] = at[u] /\ park'[u] = park[u] /\ unparking'[u] = unparking[u]
  BY DEF LotTypeOK, ParkOK, EntryOut
<1>4. queue' = queue
  BY DEF ParkOK
<1> QED
  BY <1>1, <1>2, <1>3, <1>4, QueuesSame DEF Expired

(* The end of a wait changes no list.                                      *)
LEMMA WaitExpiresStep ==
  ASSUME LotTypeOK, QueuesExact, EntriesOK, NEW t \in Threads, NEW cause \in Expired,
         WaitExpires(t, cause)
  PROVE  LotTypeOK' /\ QueuesExact'
<1>1. LotTypeOK'
  BY DEF LotTypeOK, WaitExpires, Parking
<1> QED
  BY <1>1, QueuesSame DEF LotTypeOK, WaitExpires, Expired

(* Nor does the decision to take the wakeup that is coming.                *)
LEMMA MustDrainStep ==
  ASSUME LotTypeOK, QueuesExact, EntriesOK, NEW t \in Threads, MustDrain(t)
  PROVE  LotTypeOK' /\ QueuesExact'
<1>1. LotTypeOK'
  BY DEF LotTypeOK, MustDrain, Parking
<1> QED
  BY <1>1, QueuesSame DEF LotTypeOK, MustDrain, Expired

(* Nor does the post of a semaphore.                                       *)
LEMMA WakeupStep ==
  ASSUME LotTypeOK, QueuesExact, EntriesOK, NEW w \in Threads, sema[w] = 0, Wakeup(w)
  PROVE  LotTypeOK' /\ QueuesExact'
<1>1. LotTypeOK'
  BY DEF LotTypeOK, Wakeup
<1> QED
  BY <1>1, QueuesSame DEF LotTypeOK, Wakeup

-----------------------------------------------------------------------------
(* The steps of the mutex.                                                 *)

(* What a thread does, waits that end early and the passing of time too.   *)
Act(t) ==
  \/ \E m \in Addrs, c \in Calls : Lock(t, m, c)
  \/ Step(t) \/ Expire(t) \/ Age(t)

(* The same, with what is done to a threading.Lock.                        *)
LockAct(t) ==
  \/ Act(t) \/ AcquireReturns(t) \/ TryUnlock(t)
  \/ \E m \in Addrs : ReleaseCalled(t, m)

(* One try of _PyMutex_TryUnlock, by whoever releases: the mutex is        *)
(* released, found unlocked, or the byte has changed.                      *)
TryOnce(t) ==
  /\ pc[t] = "unlock" /\ ~ v[t].parked
  /\ \/ word[on[t]] = v[t] /\ word' = [word EXCEPT ![on[t]] = Unlocked] /\ Return(t, "idle")
     \/ UNCHANGED word /\ Return(t, "idle")
     \/ /\ See(t) /\ \E place \in {"unlock", "fatal"} : Goto(t, place)
        /\ UNCHANGED <<word, on, call, spin, aged, handed>>
  /\ UNCHANGED <<lotVars, wakes, calls, finalizing>>

(* An owner and a stranger try in the same way.                            *)
LEMMA TryOnceForm ==
  ASSUME TypeOK, NEW t \in Threads, UnlockFast(t) \/ TryUnlock(t)
  PROVE  TryOnce(t)
<1>1. CASE UnlockFast(t)
  BY <1>1 DEF UnlockFast, SeeLocked, TryOnce
<1>2. CASE TryUnlock(t)
  <2>1. pc = [pc EXCEPT ![t] = "unlock"]
    BY <1>2 DEF TryUnlock, TypeOK
  <2> QED
    BY <1>2, <2>1 DEF TryUnlock, TryOnce, Goto
<1> QED
  BY <1>1, <1>2

(* Nor does a step that leaves the parking lot alone.                      *)
LEMMA LotUnchanged ==
  ASSUME LotTypeOK, QueuesExact, UNCHANGED lotVars
  PROVE  LotTypeOK' /\ QueuesExact'
BY DEF LotTypeOK, QueuesExact, Queued, lotVars

(* Every step keeps the parking lot's types and queues.                    *)
LEMMA StepLot ==
  ASSUME NEW t \in Threads, WaitInv, LockAct(t)
  PROVE  LotTypeOK' /\ QueuesExact'
<1>1. LotTypeOK /\ QueuesExact /\ EntriesOK
  BY ParkingLotAssumption DEF WaitInv, TypeOK, EntryInv, CallInv, EntriesOK, LotTypeOK
<1>2. pc[t] \notin {"idle", "wake"} => on[t] \in Addrs
  BY DEF WaitInv, TypeOK, CallInv
<1>3. CASE UNCHANGED lotVars
  BY <1>1, <1>3, LotUnchanged
<1>4. CASE Park(t)
  <2>1. CASE Enqueue(t, on[t])
    <3>1. on[t] \in Addrs /\ park[t] = "out" /\ at[t] = NULL
      BY <1>2, <1>4 DEF Park, WaitInv, EntryInv
    <3> QED
      BY <1>1, <2>1, <3>1, EnqueueStep DEF EntriesOK
  <2> QED
    BY <1>3, <1>4, <2>1 DEF Park
<1>5. CASE Woken(t)
  BY <1>1, <1>5, ParkOKStep DEF Woken
<1>6. CASE Drain(t)
  BY <1>1, <1>6, MustDrainStep DEF Drain
<1>7. CASE ParkFails(t)
  BY <1>1, <1>7, WithdrawStep DEF ParkFails
<1>8. CASE Expire(t)
  BY <1>1, <1>8, WaitExpiresStep, PyMutexAssumption DEF Expire
<1>9. CASE Unpark(t)
  <2>1. on[t] \in Addrs
    BY <1>2, <1>9 DEF Unpark
  <2>2. ASSUME NEW w \in Threads, HandOver(t, w) PROVE LotTypeOK' /\ QueuesExact'
    BY <1>1, <2>1, <2>2, DequeueStep DEF HandOver
  <2> QED
    BY <1>3, <1>9, <2>2 DEF Unpark
<1>10. CASE Wake(t)
  <2>1. wakes[t] \in Threads /\ sema[wakes[t]] = 0
    BY <1>10 DEF Wake, WaitInv, CallInv, EntriesAlive, TypeOK
  <2> QED
    BY <1>1, <1>10, <2>1, WakeupStep DEF Wake
<1> QED
  BY <1>3, <1>4, <1>5, <1>6, <1>7, <1>8, <1>9, <1>10
  DEF LockAct, Act, Step, Lock, FastPath, TryGrab, Spin, GiveUp, SetParked, Reload, Age,
      Unlock, UnlockFast, AcquireReturns, ReleaseCalled, TryUnlock

(* Bytes stay bytes.                                                       *)
LEMMA WordType ==
  /\ Unlocked \in Word /\ Contended \in Word /\ NoCall \in Call
  /\ \A w \in Word : w.locked \in BOOLEAN /\ w.parked \in BOOLEAN
  /\ \A w \in Word : [w EXCEPT !.locked = TRUE] \in Word /\ [w EXCEPT !.parked = TRUE] \in Word
  /\ \A x, y \in BOOLEAN : [locked |-> x, parked |-> y] \in Word
  /\ \A c \in Call : [c EXCEPT !.timeout = "zero"] \in Call
BY DEF Word, Unlocked, Contended, Call, NoCall, Timeout

(* Setting a bit of one byte gives bytes.                                  *)
LEMMA SetBitType ==
  ASSUME NEW w \in [Addrs -> Word], NEW m \in Addrs
  PROVE  /\ [w EXCEPT ![m].locked = TRUE] \in [Addrs -> Word]
         /\ [w EXCEPT ![m].parked = TRUE] \in [Addrs -> Word]
BY WordType

(* Returning from a call keeps the types of the locals.                    *)
LEMMA ReturnType ==
  ASSUME TypeOK, NEW t \in Threads, NEW p \in {"idle", "held"}, Return(t, p)
  PROVE  /\ pc' \in [Threads -> {"idle", "held", "unlock", "wake", "fatal"} \union Locking]
         /\ on' \in [Threads -> Addrs \union {NULL}]
         /\ call' \in [Threads -> Call]
         /\ v' \in [Threads -> Word]
         /\ spin' \in [Threads -> 0 .. MaxSpin]
         /\ aged' \in [Threads -> BOOLEAN]
         /\ handed' \in [Threads -> BOOLEAN]
<1> USE WordType, PyMutexAssumption DEF TypeOK, Return, Goto
<1>1. pc' \in [Threads -> {"idle", "held", "unlock", "wake", "fatal"} \union Locking]
  OBVIOUS
<1>2. on' \in [Threads -> Addrs \union {NULL}]
  OBVIOUS
<1>3. call' \in [Threads -> Call]
  OBVIOUS
<1>4. v' \in [Threads -> Word]
  OBVIOUS
<1>5. spin' \in [Threads -> 0 .. MaxSpin]
  OBVIOUS
<1> QED
  BY <1>1, <1>2, <1>3, <1>4, <1>5

(* Every step keeps the types.                                             *)
LEMMA StepType ==
  ASSUME NEW t \in Threads, WaitInv, LockAct(t)
  PROVE  TypeOK'
<1> USE WordType, PyMutexAssumption
<1>1. LotTypeOK'
  BY StepLot
<1>2. TypeOK
  BY DEF WaitInv
<1>3. pc[t] \notin {"idle", "wake"} => on[t] \in Addrs /\ word[on[t]] \in Word
  BY <1>2 DEF TypeOK, CallInv, WaitInv
<1>4. ASSUME NEW m \in Addrs, NEW c \in Calls, Lock(t, m, c) PROVE TypeOK'
  <2>1. calls' \in [Threads -> 0 .. MaxCalls]
    BY <1>2, <1>4 DEF TypeOK, Lock
  <2>2. word[m] \in Word /\ c \in Call
    BY <1>2 DEF TypeOK
  <2> QED
    BY <1>1, <1>2, <1>4, <2>1, <2>2 DEF TypeOK, Lock, Goto, Locking
<1>5. ASSUME pc[t] \in Locking, Grab(t), UNCHANGED <<wakes, calls, finalizing>> PROVE TypeOK'
  <2>1. word' \in [Addrs -> Word]
    BY <1>2, <1>3, <1>5, SetBitType DEF TypeOK, Grab, Locking
  <2> QED
    BY <1>1, <1>2, <1>5, <2>1, ReturnType DEF TypeOK, Grab
<1>6. CASE FastPath(t)
  <2>1. CASE Grab(t)
    BY <1>5, <1>6, <2>1 DEF FastPath, Locking
  <2>2. CASE Return(t, "idle") /\ UNCHANGED word
    BY <1>1, <1>2, <1>6, <2>2, ReturnType DEF TypeOK, FastPath
  <2>3. ASSUME Goto(t, "loop"), v' = v \/ See(t),
               UNCHANGED <<word, on, call, spin, aged, handed, wakes, calls, finalizing>>
        PROVE  TypeOK'
    BY <1>1, <1>2, <1>3, <1>6, <2>3 DEF TypeOK, FastPath, See, Goto, Locking
  <2> QED
    BY <1>6, <2>1, <2>2, <2>3 DEF FastPath
<1>7. CASE TryGrab(t)
  <2>1. CASE Grab(t)
    BY <1>5, <1>7, <2>1 DEF TryGrab, Locking
  <2>2. CASE ~ Grab(t)
    BY <1>1, <1>2, <1>3, <1>7, <2>2 DEF TypeOK, TryGrab, See
  <2> QED
    BY <2>1, <2>2
<1>8. CASE Spin(t)
  <2>1. spin' \in [Threads -> 0 .. MaxSpin]
    BY <1>2, <1>8 DEF TypeOK, Spin
  <2>2. v' \in [Threads -> Word]
    BY <1>2, <1>3, <1>8 DEF TypeOK, Spin, See
  <2> QED
    BY <1>1, <1>2, <1>8, <2>1, <2>2 DEF TypeOK, Spin
<1>9. CASE GiveUp(t)
  BY <1>1, <1>2, <1>9, ReturnType DEF TypeOK, GiveUp
<1>10. CASE SetParked(t)
  <2>1. word' \in [Addrs -> Word]
    <3>1. on[t] \in Addrs /\ word \in [Addrs -> Word]
      BY <1>2, <1>3, <1>10 DEF TypeOK, SetParked, Blocked
    <3>2. word' = word \/ word' = [word EXCEPT ![on[t]].parked = TRUE]
      BY <1>10 DEF SetParked
    <3>3. [word EXCEPT ![on[t]].parked = TRUE] \in [Addrs -> Word]
      BY <3>1, SetBitType, Zenon
    <3> QED
      BY <3>1, <3>2, <3>3
  <2>2. v' \in [Threads -> Word]
    BY <1>2, <1>3, <1>10 DEF TypeOK, SetParked, See, Blocked
  <2> QED
    BY <1>1, <1>2, <1>10, <2>1, <2>2 DEF TypeOK, SetParked, Goto, Locking
<1>11. CASE Park(t)
  BY <1>1, <1>2, <1>11 DEF TypeOK, Park, Goto, Locking
<1>12. CASE Woken(t)
  BY <1>1, <1>2, <1>12, ReturnType DEF TypeOK, Woken, Goto, Locking
<1>13. CASE Expire(t) \/ Drain(t)
  BY <1>1, <1>2, <1>13 DEF TypeOK, Expire, Drain, mutexVars
<1>14. CASE ParkFails(t)
  BY <1>1, <1>2, <1>14, ReturnType DEF TypeOK, ParkFails, Goto, Locking
<1>15. CASE Reload(t)
  <2>1. call' \in [Threads -> Call]
    BY <1>2, <1>15 DEF TypeOK, Reload
  <2>2. v' \in [Threads -> Word]
    BY <1>2, <1>3, <1>15 DEF TypeOK, Reload, See
  <2> QED
    BY <1>1, <1>2, <1>15, <2>1, <2>2 DEF TypeOK, Reload, Goto, Locking
<1>16. CASE Age(t)
  BY <1>1, <1>2, <1>16 DEF TypeOK, Age
<1>17. CASE Unlock(t)
  BY <1>1, <1>2, <1>3, <1>17 DEF TypeOK, Unlock, SeeLocked, See, Goto
<1>18. CASE TryOnce(t)
  <2>1. CASE /\ Return(t, "idle")
             /\ word' = [word EXCEPT ![on[t]] = Unlocked] \/ UNCHANGED word
    BY <1>1, <1>2, <1>18, <2>1, ReturnType DEF TypeOK, TryOnce
  <2>2. ASSUME See(t), NEW place \in {"unlock", "fatal"}, Goto(t, place),
               UNCHANGED <<word, on, call, spin, aged, handed>>
        PROVE  TypeOK'
    BY <1>1, <1>2, <1>3, <1>18, <2>2 DEF TypeOK, TryOnce, See, Goto
  <2> QED
    BY <1>18, <2>1, <2>2 DEF TryOnce
<1>19. CASE Unpark(t)
  <2>1. CASE Return(t, "idle") /\ word' = [word EXCEPT ![on[t]] = Unlocked] /\ UNCHANGED wakes
    BY <1>1, <1>2, <1>19, <2>1, ReturnType DEF TypeOK, Unpark
  <2>2. ASSUME NEW w \in Threads, HandOver(t, w), Goto(t, "wake"),
               wakes' = [wakes EXCEPT ![t] = w],
               on' = [on EXCEPT ![t] = NULL], v' = [v EXCEPT ![t] = Unlocked],
               UNCHANGED <<call, spin, aged, calls, finalizing>>
        PROVE  TypeOK'
    <3>1. [locked |-> aged[w], parked |-> HasMoreWaiters(on[t])] \in Word
      <4>1. aged[w] \in BOOLEAN
        BY <1>2 DEF TypeOK
      <4>2. HasMoreWaiters(on[t]) \in BOOLEAN
        BY DEF HasMoreWaiters
      <4> QED
        BY <4>1, <4>2
    <3>2. word' \in [Addrs -> Word]
      BY <1>2, <2>2, <3>1 DEF TypeOK, HandOver
    <3>3. handed' \in [Threads -> BOOLEAN]
      BY <1>2, <2>2 DEF TypeOK, HandOver
    <3> QED
      BY <1>1, <1>2, <2>2, <3>2, <3>3 DEF TypeOK, Goto
  <2> QED
    BY <1>19, <2>1, <2>2 DEF Unpark
<1>20. CASE Wake(t)
  BY <1>1, <1>2, <1>20 DEF TypeOK, Wake, Goto
<1>21. CASE AcquireReturns(t)
  BY <1>1, <1>2, <1>21, ReturnType DEF TypeOK, AcquireReturns
<1>22. ASSUME NEW m \in Addrs, ReleaseCalled(t, m) PROVE TypeOK'
  <2>1. word[m] \in Word
    BY <1>2 DEF TypeOK
  <2> QED
    BY <1>1, <1>2, <1>22, <2>1 DEF TypeOK, ReleaseCalled, Goto
<1> QED
  BY <1>2, <1>4, <1>6, <1>7, <1>8, <1>9, <1>10, <1>11, <1>12, <1>13, <1>14, <1>15, <1>16,
     <1>17, <1>18, <1>19, <1>20, <1>21, <1>22, TryOnceForm DEF LockAct, Act, Step

(* The waiter that an unlock dequeues.                                     *)
LEMMA HandOverFacts ==
  ASSUME NEW t \in Threads, WaitInv, pc[t] = "unlock", NEW w \in Threads, HandOver(t, w)
  PROVE  /\ on[t] \in Addrs /\ w # t /\ pc[w] = "parked" /\ on[w] = on[t]
         /\ Queued(w) /\ at[w] = on[t] /\ ~ unparking[w] /\ ~ handed[w] /\ sema[w] = 0
         /\ park[w] \in {"waiting"} \union Expired
         /\ unparking' = [unparking EXCEPT ![w] = TRUE]
         /\ handed' = [handed EXCEPT ![w] = aged[w]]
         /\ at' = at /\ sema' = sema /\ park' = park
         /\ (\E u \in Threads : u # w /\ Queued(u) /\ at[u] = on[t]) => HasMoreWaiters(on[t])
<1>1. on[t] \in Addrs /\ LotTypeOK /\ QueuesExact /\ EntriesOK
  BY DEF WaitInv, TypeOK, LotTypeOK, CallInv, EntryInv, EntriesOK, ParkingLotAssumption
<1>2. Dequeue(on[t], w)
  BY DEF HandOver
<1>3. /\ Queued(w) /\ at[w] = on[t]
      /\ (\E u \in Threads : u # w /\ Queued(u) /\ at[u] = on[t]) => HasMoreWaiters(on[t])
  BY <1>1, <1>2, DequeueStep
<1>4. park[w] \in {"waiting"} \union Expired /\ ~ unparking[w]
  BY <1>1, <1>3, QueuedForm
<1>5. pc[w] = "parked" /\ on[w] = on[t] /\ w # t /\ ~ handed[w] /\ sema[w] = 0
  BY <1>3, <1>4 DEF WaitInv, EntryInv, Expired, TypeOK, LotTypeOK
<1> QED
  BY <1>1, <1>3, <1>4, <1>5 DEF HandOver, Dequeue

(* Every step keeps EntryInv: entries and calls stay in step.              *)
LEMMA StepEntry ==
  ASSUME NEW t \in Threads, WaitInv, LockAct(t)
  PROVE  EntryInv'
<1> SUFFICES ASSUME NEW u \in Threads
             PROVE  /\ park'[u] # "out" <=> pc'[u] = "parked"
                    /\ at'[u] = IF pc'[u] = "parked" THEN on'[u] ELSE NULL
                    /\ handed'[u] \/ park'[u] = "drain" \/ sema'[u] > 0 => unparking'[u]
                    /\ unparking'[u] => pc'[u] = "parked"
  BY DEF EntryInv
<1> USE DEF WaitInv, TypeOK, LotTypeOK, EntryInv, Goto, Return, lotVars, Locking, Expired, Parking
<1>1. ASSUME NEW m \in Addrs, NEW c \in Calls, Lock(t, m, c)
      PROVE  /\ park'[u] # "out" <=> pc'[u] = "parked"
             /\ at'[u] = IF pc'[u] = "parked" THEN on'[u] ELSE NULL
             /\ handed'[u] \/ park'[u] = "drain" \/ sema'[u] > 0 => unparking'[u]
             /\ unparking'[u] => pc'[u] = "parked"
  BY <1>1 DEF Lock
<1>2. CASE FastPath(t)
  BY <1>2 DEF FastPath, Grab
<1>3. CASE TryGrab(t)
  BY <1>3 DEF TryGrab, Grab
<1>4. CASE Spin(t) \/ Age(t)
  BY <1>4 DEF Spin, Age
<1>5. CASE GiveUp(t)
  BY <1>5 DEF GiveUp, Blocked
<1>6. CASE SetParked(t)
  BY <1>6 DEF SetParked, Blocked
<1>7. CASE Park(t)
  BY <1>7 DEF Park, Enqueue, EntryIn
<1>8. CASE Woken(t)
  BY <1>8 DEF Woken, ParkOK, EntryOut
<1>9. CASE Drain(t)
  BY <1>9 DEF Drain, MustDrain, mutexVars
<1>10. CASE Expire(t)
  BY <1>10, PyMutexAssumption DEF Expire, WaitExpires, mutexVars
<1>11. CASE ParkFails(t)
  BY <1>11 DEF ParkFails, Withdraw, EntryOut
<1>12. CASE Reload(t)
  BY <1>12 DEF Reload
<1>13. CASE Unlock(t)
  BY <1>13 DEF Unlock, SeeLocked
<1>14. CASE TryOnce(t)
  BY <1>14 DEF TryOnce
<1>15. CASE Unpark(t)
  <2>1. CASE Return(t, "idle") /\ UNCHANGED lotVars
    BY <1>15, <2>1 DEF Unpark
  <2>2. ASSUME NEW w \in Threads, HandOver(t, w), Goto(t, "wake"), on' = [on EXCEPT ![t] = NULL]
        PROVE  /\ park'[u] # "out" <=> pc'[u] = "parked"
               /\ at'[u] = IF pc'[u] = "parked" THEN on'[u] ELSE NULL
               /\ handed'[u] \/ park'[u] = "drain" \/ sema'[u] > 0 => unparking'[u]
               /\ unparking'[u] => pc'[u] = "parked"
    <3>1. pc[t] = "unlock"
      BY <1>15 DEF Unpark
    <3>2. /\ w # t /\ pc[w] = "parked" /\ park[w] # "drain"
          /\ unparking' = [unparking EXCEPT ![w] = TRUE]
          /\ handed' = [handed EXCEPT ![w] = aged[w]]
          /\ at' = at /\ sema' = sema /\ park' = park
      BY <2>2, <3>1, HandOverFacts
    <3>3. unparking'[u] <=> unparking[u] \/ u = w
      BY <3>2
    <3>4. handed'[u] => handed[u] \/ u = w
      BY <3>2
    <3>5. u # t => pc'[u] = pc[u] /\ on'[u] = on[u]
      BY <2>2
    <3>6. pc'[t] # "parked" /\ pc[t] # "parked"
      BY <2>2, <3>1
    <3> QED
      BY <3>2, <3>3, <3>4, <3>5, <3>6
  <2> QED
    BY <1>15, <2>1, <2>2 DEF Unpark
<1>16. CASE Wake(t)
  <2>1. wakes[t] \in Threads /\ unparking[wakes[t]]
    BY <1>16 DEF Wake, CallInv, EntriesAlive
  <2> QED
    BY <1>16, <2>1 DEF Wake, Wakeup
<1>17. CASE AcquireReturns(t)
  BY <1>17 DEF AcquireReturns
<1>18. ASSUME NEW m \in Addrs, ReleaseCalled(t, m)
       PROVE  /\ park'[u] # "out" <=> pc'[u] = "parked"
              /\ at'[u] = IF pc'[u] = "parked" THEN on'[u] ELSE NULL
              /\ handed'[u] \/ park'[u] = "drain" \/ sema'[u] > 0 => unparking'[u]
              /\ unparking'[u] => pc'[u] = "parked"
  BY <1>18 DEF ReleaseCalled
<1> QED
  BY <1>1, <1>2, <1>3, <1>4, <1>5, <1>6, <1>7, <1>8, <1>9, <1>10, <1>11, <1>12, <1>13,
     <1>14, <1>15, <1>16, <1>17, <1>18, TryOnceForm DEF LockAct, Act, Step

(* Every step keeps CallInv.                                               *)
LEMMA StepCall ==
  ASSUME NEW t \in Threads, WaitInv, LockAct(t)
  PROVE  CallInv'
<1> USE DEF WaitInv, TypeOK, CallInv, Goto, Return, Locking
<1> DEFINE Others == \A u \in Threads : u # t => pc'[u] = pc[u] /\ on'[u] = on[u]
           Mine == /\ on'[t] = NULL <=> pc'[t] \in {"idle", "wake"}
                   /\ wakes'[t] # NULL <=> pc'[t] = "wake"
<1>1. ASSUME Others, Mine, wakes' = wakes PROVE CallInv'
  BY <1>1
<1>2. ASSUME NEW m \in Addrs, NEW c \in Calls, Lock(t, m, c) PROVE CallInv'
  <2>1. Others /\ Mine /\ wakes' = wakes
    BY <1>2, ParkingLotAssumption DEF Lock
  <2> QED
    BY <1>1, <2>1
<1>3. CASE FastPath(t)
  BY <1>3 DEF FastPath, Grab
<1>4. CASE TryGrab(t)
  BY <1>4 DEF TryGrab, Grab
<1>5. CASE Spin(t) \/ Age(t)
  BY <1>5 DEF Spin, Age
<1>6. CASE GiveUp(t)
  BY <1>6 DEF GiveUp, Blocked
<1>7. CASE SetParked(t)
  BY <1>7 DEF SetParked, Blocked
<1>8. CASE Park(t)
  BY <1>8 DEF Park
<1>9. CASE Woken(t)
  BY <1>9 DEF Woken
<1>10. CASE Drain(t) \/ Expire(t)
  BY <1>10 DEF Drain, Expire, mutexVars
<1>11. CASE ParkFails(t)
  BY <1>11 DEF ParkFails
<1>12. CASE Reload(t)
  BY <1>12 DEF Reload
<1>13. CASE Unlock(t)
  BY <1>13 DEF Unlock, SeeLocked
<1>14. CASE TryOnce(t)
  BY <1>14 DEF TryOnce
<1>15. CASE Unpark(t)
  <2>1. CASE Return(t, "idle") /\ UNCHANGED wakes
    BY <1>15, <2>1 DEF Unpark
  <2>2. ASSUME NEW w \in Threads, HandOver(t, w), Goto(t, "wake"),
               on' = [on EXCEPT ![t] = NULL], wakes' = [wakes EXCEPT ![t] = w]
        PROVE  CallInv'
    <3>1. pc[t] = "unlock" /\ ~ unparking[w]
      BY <1>15, <2>2, HandOverFacts DEF Unpark
    <3>2. \A u \in Threads : wakes[u] # w
      BY <3>1, ParkingLotAssumption DEF EntriesAlive
    <3> QED
      BY <2>2, <3>1, <3>2, ParkingLotAssumption
  <2> QED
    BY <1>15, <2>1, <2>2 DEF Unpark
<1>16. CASE Wake(t)
  BY <1>16 DEF Wake
<1>17. CASE AcquireReturns(t)
  BY <1>17 DEF AcquireReturns
<1>18. ASSUME NEW m \in Addrs, ReleaseCalled(t, m) PROVE CallInv'
  BY <1>18, ParkingLotAssumption DEF ReleaseCalled
<1> QED
  BY <1>2, <1>3, <1>4, <1>5, <1>6, <1>7, <1>8, <1>9, <1>10, <1>11, <1>12, <1>13,
     <1>14, <1>15, <1>16, <1>17, <1>18, TryOnceForm DEF LockAct, Act, Step

(* Who is in a critical section, or on the way out, owns its mutex.        *)
LEMMA OwnerLocked ==
  ASSUME NEW t \in Threads, WaitInv, pc[t] \in {"held", "unlock"}
  PROVE  on[t] \in Addrs /\ Owns(t, on[t]) /\ (Exclusive(on[t]) => word[on[t]].locked)
BY DEF WaitInv, TypeOK, CallInv, Owns, Exclusive

(* Taking the lock bit makes t the owner and nobody else.                  *)
LEMMA GrabOwner ==
  ASSUME NEW t \in Threads, WaitInv, pc[t] \in {"fast", "loop"}, Grab(t), UNCHANGED lotVars
  PROVE  /\ \A m \in Addrs : Exclusive(m) => Exclusive(m)'
         /\ on[t] \in Addrs /\ (Exclusive(on[t]) => \A u \in Threads : ~ Owns(u, on[t]))
         /\ \A u \in Threads, m \in Addrs :
              Owns(u, m)' <=> Owns(u, m) \/ (u = t /\ m = on[t])
<1> USE DEF WaitInv, TypeOK, LotTypeOK, lotVars
<1>1. on[t] \in Addrs /\ ~ word[on[t]].locked
  BY DEF Grab, CallInv
<1>2. word' = [word EXCEPT ![on[t]].locked = TRUE]
  BY DEF Grab
<1>3. \A m \in Addrs : word'[m].locked <=> word[m].locked \/ m = on[t]
  BY <1>1, <1>2
<1>4. \A u \in Threads, m \in Addrs :
        Owns(u, m)' <=> Owns(u, m) \/ (u = t /\ m = on[t])
  <2> SUFFICES ASSUME NEW u \in Threads, NEW m \in Addrs
               PROVE  Owns(u, m)' <=> Owns(u, m) \/ (u = t /\ m = on[t])
    OBVIOUS
  <2>1. CASE u = t
    BY <2>1 DEF Owns, HandedOver, Grab, Return, Goto
  <2>2. CASE u # t
    BY <2>2 DEF Owns, HandedOver, Grab, Return, Goto
  <2> QED
    BY <2>1, <2>2
<1>5. Exclusive(on[t]) => \A u \in Threads : ~ Owns(u, on[t])
  BY <1>1 DEF Exclusive
<1>6. ASSUME NEW m \in Addrs, Exclusive(m) PROVE Exclusive(m)'
  <2>1. /\ \A u, x \in Threads : Owns(u, m) /\ Owns(x, m) => u = x
        /\ word[m].locked <=> \E u \in Threads : Owns(u, m)
    BY <1>6 DEF Exclusive
  <2>2. CASE m = on[t]
    <3>1. \A u \in Threads : Owns(u, m)' <=> u = t
      BY <1>4, <1>5, <1>6, <2>2
    <3>2. word'[m].locked
      BY <1>3, <2>2
    <3> QED
      BY <3>1, <3>2 DEF Exclusive
  <2>3. CASE m # on[t]
    <3>1. \A u \in Threads : Owns(u, m)' <=> Owns(u, m)
      BY <1>4, <2>3
    <3>2. word'[m].locked <=> word[m].locked
      BY <1>3, <2>3
    <3> QED
      BY <2>1, <3>1, <3>2 DEF Exclusive
  <2> QED
    BY <2>2, <2>3
<1> QED
  BY <1>1, <1>4, <1>5, <1>6

(* When an owner leaves the mutex unlocked nobody owns it.                 *)
LEMMA ReleaseOwner ==
  ASSUME NEW t \in Threads, WaitInv, pc[t] = "unlock",
         word' = [word EXCEPT ![on[t]] = Unlocked], Return(t, "idle"), UNCHANGED lotVars
  PROVE  /\ \A m \in Addrs : Exclusive(m) => Exclusive(m)'
         /\ \A u \in Threads, m \in Addrs : Owns(u, m)' <=> Owns(u, m) /\ u # t
<1> USE DEF WaitInv, TypeOK, LotTypeOK, lotVars
<1>1. on[t] \in Addrs /\ Owns(t, on[t])
  BY OwnerLocked
<1>2. \A m \in Addrs : word'[m].locked <=> word[m].locked /\ m # on[t]
  BY <1>1 DEF Unlocked
<1>3. \A u \in Threads, m \in Addrs : Owns(u, m)' <=> Owns(u, m) /\ u # t
  <2> SUFFICES ASSUME NEW u \in Threads, NEW m \in Addrs
               PROVE  Owns(u, m)' <=> Owns(u, m) /\ u # t
    OBVIOUS
  <2>1. CASE u = t
    BY <2>1 DEF Owns, HandedOver, Return, Goto
  <2>2. CASE u # t
    BY <2>2 DEF Owns, HandedOver, Return, Goto
  <2> QED
    BY <2>1, <2>2
<1>4. \A m \in Addrs : Owns(t, m) => m = on[t]
  BY DEF Owns
<1>5. ASSUME NEW m \in Addrs, Exclusive(m) PROVE Exclusive(m)'
  <2>1. /\ \A u, x \in Threads : Owns(u, m) /\ Owns(x, m) => u = x
        /\ word[m].locked <=> \E u \in Threads : Owns(u, m)
    BY <1>5 DEF Exclusive
  <2>2. CASE m = on[t]
    <3>1. \A u \in Threads : ~ Owns(u, m)'
      BY <1>1, <1>3, <2>1, <2>2
    <3>2. ~ word'[m].locked
      BY <1>2, <2>2
    <3> QED
      BY <3>1, <3>2 DEF Exclusive
  <2>3. CASE m # on[t]
    <3>1. \A u \in Threads : Owns(u, m)' <=> Owns(u, m)
      BY <1>3, <1>4, <2>3
    <3>2. word'[m].locked <=> word[m].locked
      BY <1>2, <2>3
    <3> QED
      BY <2>1, <3>1, <3>2 DEF Exclusive
  <2> QED
    BY <2>2, <2>3
<1> QED
  BY <1>3, <1>5

(* A hand-over makes the waiter the owner exactly if it is old enough.     *)
LEMMA HandOverOwner ==
  ASSUME NEW t \in Threads, WaitInv, pc[t] = "unlock", NEW w \in Threads, HandOver(t, w),
         Goto(t, "wake"), on' = [on EXCEPT ![t] = NULL]
  PROVE  /\ \A m \in Addrs : Exclusive(m) => Exclusive(m)'
         /\ \A u \in Threads, m \in Addrs :
              Owns(u, m)' <=> (Owns(u, m) /\ u # t) \/ (u = w /\ m = on[t] /\ aged[w])
<1> USE DEF WaitInv, TypeOK, LotTypeOK
<1> DEFINE a == on[t]
<1>1. /\ a \in Addrs /\ w # t /\ pc[w] = "parked" /\ on[w] = a
      /\ ~ unparking[w] /\ ~ handed[w]
      /\ unparking' = [unparking EXCEPT ![w] = TRUE]
      /\ handed' = [handed EXCEPT ![w] = aged[w]]
  BY HandOverFacts
<1>2. Owns(t, a)
  BY OwnerLocked
<1>3. \A m \in Addrs : word'[m].locked <=> IF m = a THEN aged[w] ELSE word[m].locked
  BY <1>1 DEF HandOver
<1> HIDE DEF a
<1>4. \A u \in Threads, m \in Addrs :
        Owns(u, m)' <=> (Owns(u, m) /\ u # t) \/ (u = w /\ m = a /\ aged[w])
  <2> SUFFICES ASSUME NEW u \in Threads, NEW m \in Addrs
               PROVE  Owns(u, m)' <=> (Owns(u, m) /\ u # t) \/ (u = w /\ m = a /\ aged[w])
    OBVIOUS
  <2>1. CASE u = t
    BY <1>1, <2>1 DEF Owns, HandedOver, Goto
  <2>2. CASE u = w
    BY <1>1, <2>2 DEF Owns, HandedOver, Goto
  <2>3. CASE u # t /\ u # w
    BY <1>1, <2>3 DEF Owns, HandedOver, Goto
  <2> QED
    BY <2>1, <2>2, <2>3
<1>5. \A m \in Addrs : Owns(t, m) => m = a
  BY DEF Owns, a
<1>6. ASSUME NEW m \in Addrs, Exclusive(m) PROVE Exclusive(m)'
  <2>1. /\ \A u, x \in Threads : Owns(u, m) /\ Owns(x, m) => u = x
        /\ word[m].locked <=> \E u \in Threads : Owns(u, m)
    BY <1>6 DEF Exclusive
  <2>2. CASE m = a
    <3>1. \A u \in Threads : Owns(u, m)' <=> u = w /\ aged[w]
      BY <1>1, <1>2, <1>4, <2>1, <2>2
    <3>2. word'[m].locked <=> aged[w]
      BY <1>3, <2>2
    <3> QED
      BY <3>1, <3>2 DEF Exclusive
  <2>3. CASE m # a
    <3>1. \A u \in Threads : Owns(u, m)' <=> Owns(u, m)
      BY <1>4, <1>5, <2>3
    <3>2. word'[m].locked <=> word[m].locked
      BY <1>3, <2>3
    <3> QED
      BY <2>1, <3>1, <3>2 DEF Exclusive
  <2> QED
    BY <2>2, <2>3
<1> QED
  BY <1>4, <1>6 DEF a

(* Every step of its owners, and of those who want it, keeps the mutual    *)
(* exclusion of a mutex, whatever happens to others.                       *)
LEMMA StepExclusive ==
  ASSUME NEW t \in Threads, WaitInv, Act(t), NEW a \in Addrs, Exclusive(a)
  PROVE  Exclusive(a)'
<1> USE DEF WaitInv, TypeOK, LotTypeOK, Goto, Return, lotVars
<1> DEFINE SameOwners == \A u \in Threads : Owns(u, a)' <=> Owns(u, a)
           SameLocks == word'[a].locked = word[a].locked
<1>1. ASSUME SameOwners, SameLocks PROVE Exclusive(a)'
  BY <1>1 DEF Exclusive
<1>2. ASSUME NEW m \in Addrs, NEW c \in Calls, Lock(t, m, c) PROVE Exclusive(a)'
  <2>1. SameOwners /\ SameLocks
    BY <1>2 DEF Lock, Owns, HandedOver
  <2> QED
    BY <1>1, <2>1
<1>3. CASE FastPath(t)
  <2>1. CASE Grab(t)
    <3>1. pc[t] \in {"fast", "loop"} /\ UNCHANGED lotVars
      BY <1>3 DEF FastPath
    <3> QED
      BY <2>1, <3>1, GrabOwner
  <2>2. CASE UNCHANGED word /\ (Return(t, "idle") \/ (Goto(t, "loop") /\ UNCHANGED <<on, handed>>))
    <3>1. pc[t] = "fast" /\ UNCHANGED lotVars
      BY <1>3 DEF FastPath
    <3>2. SameLocks
      BY <2>2
    <3>3. SameOwners
      <4> SUFFICES ASSUME NEW u \in Threads
                   PROVE  Owns(u, a)' <=> Owns(u, a)
        OBVIOUS
      <4>1. CASE u # t
        BY <2>2, <3>1, <4>1 DEF Owns, HandedOver
      <4>2. CASE u = t
        <5>1. pc'[t] \in {"idle", "loop"}
          BY <2>2
        <5> QED
          BY <3>1, <4>2, <5>1 DEF Owns, HandedOver
      <4> QED
        BY <4>1, <4>2
    <3> QED
      BY <1>1, <3>2, <3>3
  <2> QED
    BY <1>3, <2>1, <2>2 DEF FastPath
<1>4. CASE TryGrab(t)
  <2>1. CASE Grab(t)
    <3>1. pc[t] \in {"fast", "loop"} /\ UNCHANGED lotVars
      BY <1>4 DEF TryGrab
    <3> QED
      BY <2>1, <3>1, GrabOwner
  <2>2. CASE UNCHANGED <<word, pc, on, handed>>
    <3>1. SameOwners /\ SameLocks
      BY <1>4, <2>2 DEF TryGrab, Owns, HandedOver
    <3> QED
      BY <1>1, <3>1
  <2> QED
    BY <1>4, <2>1, <2>2 DEF TryGrab
<1>5. CASE Spin(t) \/ Age(t)
  <2>1. SameOwners /\ SameLocks
    BY <1>5 DEF Spin, Age, Owns, HandedOver
  <2> QED
    BY <1>1, <2>1
<1>6. CASE GiveUp(t)
  <2>1. SameOwners /\ SameLocks
    BY <1>6 DEF GiveUp, Blocked, Owns, HandedOver
  <2> QED
    BY <1>1, <2>1
<1>7. CASE SetParked(t)
  <2>1. SameOwners
    BY <1>7 DEF SetParked, Blocked, Owns, HandedOver
  <2>2. SameLocks
    <3>1. UNCHANGED word \/ word' = [word EXCEPT ![on[t]].parked = TRUE]
      BY <1>7 DEF SetParked
    <3> SUFFICES ASSUME word' = [word EXCEPT ![on[t]].parked = TRUE]
                 PROVE  word'[a].locked = word[a].locked
      BY <3>1
    <3>2. CASE a = on[t]
      <4>1. word[a] \in Word /\ word'[a] = [word[a] EXCEPT !.parked = TRUE]
        BY <3>2
      <4> QED
        BY <4>1 DEF Word
    <3>3. CASE a # on[t]
      BY <3>3
    <3> QED
      BY <3>2, <3>3
  <2> QED
    BY <1>1, <2>1, <2>2
<1>8. CASE Park(t)
  <2>1. SameOwners /\ SameLocks
    BY <1>8 DEF Park, Enqueue, EntryIn, Owns, HandedOver
  <2> QED
    BY <1>1, <2>1
<1>9. CASE Woken(t)
  <2>1. SameLocks
    BY <1>9 DEF Woken
  <2>2. SameOwners
    <3> SUFFICES ASSUME NEW u \in Threads
                 PROVE  Owns(u, a)' <=> Owns(u, a)
      OBVIOUS
    <3>1. CASE u # t
      BY <1>9, <3>1 DEF Woken, ParkOK, EntryOut, Owns, HandedOver
    <3>2. CASE u = t
      <4>1. unparking[t] /\ pc[t] = "parked"
        BY <1>9 DEF Woken, ParkOK, EntryInv
      <4> QED
        BY <1>9, <3>2, <4>1 DEF Woken, Owns, HandedOver
    <3> QED
      BY <3>1, <3>2
  <2> QED
    BY <1>1, <2>1, <2>2
<1>10. CASE Drain(t) \/ Expire(t)
  <2>1. SameOwners /\ SameLocks
    BY <1>10 DEF Drain, Expire, MustDrain, WaitExpires, mutexVars, Owns, HandedOver
  <2> QED
    BY <1>1, <2>1
<1>11. CASE ParkFails(t)
  <2>1. SameOwners /\ SameLocks
    BY <1>11 DEF ParkFails, Withdraw, EntryOut, Owns, HandedOver
  <2> QED
    BY <1>1, <2>1
<1>12. CASE Reload(t)
  <2>1. SameOwners /\ SameLocks
    BY <1>12 DEF Reload, Owns, HandedOver
  <2> QED
    BY <1>1, <2>1
<1>13. CASE Unlock(t)
  <2>1. a = on[t] => word[on[t]].locked
    BY <1>13, OwnerLocked DEF Unlock
  <2>2. CASE a = on[t]
    <3>1. SameOwners /\ SameLocks
      BY <1>13, <2>1, <2>2 DEF Unlock, SeeLocked, Owns, HandedOver
    <3> QED
      BY <1>1, <3>1
  <2>3. CASE a # on[t]
    <3>1. SameOwners /\ SameLocks
      BY <1>13, <2>3 DEF Unlock, SeeLocked, Owns, HandedOver
    <3> QED
      BY <1>1, <3>1
  <2> QED
    BY <2>2, <2>3
<1>14. CASE UnlockFast(t)
  <2>1. pc[t] = "unlock" /\ UNCHANGED lotVars /\ (a = on[t] => word[on[t]].locked)
    BY <1>14, OwnerLocked DEF UnlockFast
  <2>2. CASE word' = [word EXCEPT ![on[t]] = Unlocked] /\ Return(t, "idle")
    BY <2>1, <2>2, ReleaseOwner
  <2>3. CASE SeeLocked(t) /\ UNCHANGED <<word, on, handed>>
    <3>1. a = on[t] => SameOwners /\ SameLocks
      BY <2>1, <2>3 DEF SeeLocked, Owns, HandedOver
    <3>2. a # on[t] => SameOwners /\ SameLocks
      BY <2>1, <2>3 DEF SeeLocked, Owns, HandedOver
    <3> QED
      BY <1>1, <3>1, <3>2
  <2> QED
    BY <1>14, <2>2, <2>3 DEF UnlockFast
<1>15. CASE Unpark(t)
  <2>1. pc[t] = "unlock"
    BY <1>15 DEF Unpark
  <2>2. CASE word' = [word EXCEPT ![on[t]] = Unlocked] /\ Return(t, "idle") /\ UNCHANGED lotVars
    BY <2>1, <2>2, ReleaseOwner
  <2>3. ASSUME NEW w \in Threads, HandOver(t, w), Goto(t, "wake"), on' = [on EXCEPT ![t] = NULL]
        PROVE  Exclusive(a)'
    BY <2>1, <2>3, HandOverOwner
  <2> QED
    BY <1>15, <2>2, <2>3 DEF Unpark
<1>16. CASE Wake(t)
  <2>1. SameOwners /\ SameLocks
    BY <1>16 DEF Wake, Wakeup, Owns, HandedOver
  <2> QED
    BY <1>1, <2>1
<1> QED
  BY <1>2, <1>3, <1>4, <1>5, <1>6, <1>7, <1>8, <1>9, <1>10, <1>11, <1>12, <1>13,
     <1>14, <1>15, <1>16 DEF Act, Step

(* What is done to a threading.Lock leaves the other mutexes alone.        *)
LEMMA StrangerOwners ==
  ASSUME NEW t \in Threads, WaitInv,
         AcquireReturns(t) \/ TryUnlock(t) \/ \E m \in Addrs : ReleaseCalled(t, m)
  PROVE  /\ \A a \in Addrs \ Locks : word'[a] = word[a]
         /\ \A u \in Threads, a \in Addrs \ Locks : Owns(u, a)' <=> Owns(u, a)
         /\ \A u \in Threads : Wants(u)' = Wants(u)
<1> USE ParkingLotAssumption, ThreadingLockAssumption
    DEF WaitInv, TypeOK, LotTypeOK, Goto, Return, lotVars, Locking
<1> DEFINE Same == /\ \A a \in Addrs \ Locks : word'[a] = word[a]
                   /\ \A u \in Threads, a \in Addrs \ Locks : Owns(u, a)' <=> Owns(u, a)
                   /\ \A u \in Threads : Wants(u)' = Wants(u)
<1>1. CASE AcquireReturns(t)
  <2>1. \A u \in Threads, a \in Addrs \ Locks : Owns(u, a)' <=> Owns(u, a)
    BY <1>1 DEF AcquireReturns, Owns, HandedOver
  <2>2. \A u \in Threads : Wants(u)' = Wants(u)
    BY <1>1 DEF AcquireReturns, Wants, Asked, HandedOver
  <2> QED
    BY <1>1, <2>1, <2>2 DEF AcquireReturns
<1>2. CASE TryUnlock(t)
  <2>1. pc[t] = "unlock" /\ on[t] \in Locks
    BY <1>2 DEF TryUnlock
  <2>2. \A a \in Addrs \ Locks : word'[a] = word[a]
    BY <1>2, <2>1 DEF TryUnlock
  <2>3. /\ pc'[t] \in {"idle", "unlock"} /\ on'[t] \in {NULL, on[t]} /\ UNCHANGED lotVars
        /\ \A u \in Threads : u # t =>
             pc'[u] = pc[u] /\ on'[u] = on[u] /\ handed'[u] = handed[u]
    BY <1>2, <2>1 DEF TryUnlock
  <2>4. \A u \in Threads, a \in Addrs \ Locks : Owns(u, a)' <=> Owns(u, a)
    <3>1. ASSUME NEW u \in Threads, NEW a \in Addrs \ Locks, u # t
          PROVE  Owns(u, a)' <=> Owns(u, a)
      BY <2>3, <3>1 DEF Owns, HandedOver
    <3>2. ASSUME NEW a \in Addrs \ Locks PROVE on[t] # a /\ on'[t] # a
      BY <2>1, <2>3
    <3>3. ASSUME NEW a \in Addrs \ Locks PROVE ~Owns(t, a) /\ ~Owns(t, a)'
      BY <3>2 DEF Owns
    <3> QED
      BY <3>1, <3>3
  <2>5. \A u \in Threads : Wants(u)' = Wants(u)
    BY <2>1, <2>3 DEF Wants, Asked, HandedOver
  <2> QED
    BY <2>2, <2>4, <2>5
<1>3. ASSUME NEW m \in Addrs, ReleaseCalled(t, m) PROVE Same
  <2>1. \A u \in Threads, a \in Addrs \ Locks : Owns(u, a)' <=> Owns(u, a)
    BY <1>3 DEF ReleaseCalled, Owns, HandedOver
  <2>2. \A u \in Threads : Wants(u)' = Wants(u)
    BY <1>3 DEF ReleaseCalled, Wants, Asked, HandedOver
  <2> QED
    BY <1>3, <2>1, <2>2 DEF ReleaseCalled
<1> QED
  BY <1>1, <1>2, <1>3

(* So they stay exclusive.                                                 *)
LEMMA StrangerExclusive ==
  ASSUME NEW t \in Threads, WaitInv, NEW a \in Addrs \ Locks, Exclusive(a),
         AcquireReturns(t) \/ TryUnlock(t) \/ \E m \in Addrs : ReleaseCalled(t, m)
  PROVE  Exclusive(a)'
BY StrangerOwners DEF Exclusive

(* All steps but those that look at the byte of a mutex to unlock it.      *)
Harmless(t) ==
  \/ \E m \in Addrs, c \in Calls : Lock(t, m, c)
  \/ FastPath(t) \/ TryGrab(t) \/ Spin(t) \/ GiveUp(t) \/ SetParked(t) \/ Park(t)
  \/ Woken(t) \/ Expire(t) \/ Drain(t) \/ ParkFails(t) \/ Reload(t) \/ Age(t)
  \/ Unpark(t) \/ Wake(t)
  \/ AcquireReturns(t) \/ TryUnlock(t) \/ \E m \in Addrs : ReleaseCalled(t, m)

(* An unlock of a mutex that is owned is not fatal.                        *)
LEMMA StepNeverFatal ==
  ASSUME NEW t \in Threads, WaitInv, NeverFatal,
         Harmless(t) \/ ((Unlock(t) \/ UnlockFast(t)) /\ Exclusive(on[t]))
  PROVE  NeverFatal'
<1> USE DEF WaitInv, TypeOK, Goto, Return
<1>1. ASSUME pc' = [pc EXCEPT ![t] = pc'[t]], pc'[t] # "fatal" PROVE NeverFatal'
  BY <1>1 DEF NeverFatal
<1>2. CASE Unlock(t) /\ Exclusive(on[t])
  <2>1. word[on[t]].locked
    BY <1>2, OwnerLocked DEF Unlock
  <2> QED
    BY <1>1, <1>2, <2>1 DEF Unlock, SeeLocked
<1>3. CASE UnlockFast(t) /\ Exclusive(on[t])
  <2>1. word[on[t]].locked
    BY <1>3, OwnerLocked DEF UnlockFast
  <2> QED
    BY <1>1, <1>3, <2>1 DEF UnlockFast, SeeLocked
<1>4. CASE FastPath(t) \/ TryGrab(t) \/ Spin(t) \/ Age(t) \/ GiveUp(t) \/ SetParked(t) \/ Park(t)
  BY <1>1, <1>4 DEF NeverFatal, FastPath, TryGrab, Grab, Spin, Age, GiveUp, SetParked, Park
<1>5. CASE Woken(t) \/ Drain(t) \/ Expire(t) \/ ParkFails(t) \/ Reload(t) \/ Wake(t)
  BY <1>1, <1>5 DEF NeverFatal, Woken, Drain, Expire, ParkFails, Reload, Wake, mutexVars
<1>6. CASE Unpark(t)
  BY <1>1, <1>6 DEF Unpark
<1>7. CASE AcquireReturns(t) \/ TryUnlock(t)
  BY <1>1, <1>7 DEF NeverFatal, AcquireReturns, TryUnlock
<1>8. ASSUME NEW m \in Addrs, NEW c \in Calls, Lock(t, m, c) PROVE NeverFatal'
  BY <1>1, <1>8 DEF Lock
<1>9. ASSUME NEW m \in Addrs, ReleaseCalled(t, m) PROVE NeverFatal'
  BY <1>1, <1>9 DEF NeverFatal, ReleaseCalled
<1> QED
  BY <1>2, <1>3, <1>4, <1>5, <1>6, <1>7, <1>8, <1>9 DEF Harmless

(* Setting a bit of one byte changes no other bit.                         *)
LEMMA BitFacts ==
  ASSUME NEW w \in [Addrs -> Word], NEW a \in Addrs, NEW m \in Addrs
  PROVE  /\ [w EXCEPT ![a].locked = TRUE][m] =
              [locked |-> w[m].locked \/ m = a, parked |-> w[m].parked]
         /\ [w EXCEPT ![a].parked = TRUE][m] =
              [locked |-> w[m].locked, parked |-> w[m].parked \/ m = a]
<1>1. w[m] \in Word
  OBVIOUS
<1>2. w[m] = [locked |-> w[m].locked, parked |-> w[m].parked]
  BY <1>1 DEF Word
<1>3. w[m].locked \in BOOLEAN /\ w[m].parked \in BOOLEAN
  BY <1>1 DEF Word
<1>4. CASE m = a
  BY <1>1, <1>2, <1>3, <1>4 DEF Word
<1>5. CASE m # a
  BY <1>2, <1>3, <1>5
<1> QED
  BY <1>4, <1>5

(* Thread u waits and nobody has dequeued it.                              *)
Waiting(u) == park[u] \in {"waiting"} \union Expired /\ ~ unparking[u]

(* Every step keeps the waiters announced.                                 *)
LEMMA StepAnnounced ==
  ASSUME NEW t \in Threads, WaitInv, LockAct(t)
  PROVE  WaitersAnnounced'
<1> USE DEF WaitInv, TypeOK, LotTypeOK, Goto, Return, lotVars
<1>1. LotTypeOK' /\ QueuesExact' /\ EntryInv'
  BY StepLot, StepEntry
<1>2. ASSUME NEW u \in Threads, Waiting(u)
      PROVE  /\ Queued(u) /\ at[u] = on[u] /\ on[u] \in Addrs
             /\ word[on[u]].parked /\ pc[u] = "parked"
  BY <1>2, QueuedForm DEF WaitersAnnounced, Waiting, EntryInv, CallInv, Expired
<1>3. ASSUME \A u \in Threads : Waiting(u)' => word'[on'[u]].parked
      PROVE  WaitersAnnounced'
  <2> SUFFICES ASSUME NEW u \in Threads, Queued(u)'
               PROVE  at'[u] = on'[u] /\ word'[at'[u]].parked
    BY DEF WaitersAnnounced
  <2>1. Waiting(u)'
    BY <1>1 DEF QueuesExact, Waiting
  <2>2. at'[u] = on'[u]
    BY <1>1, <2>1 DEF EntryInv, Waiting, Expired
  <2> QED
    BY <1>3, <2>1, <2>2
<1>4. ASSUME UNCHANGED word, \A u \in Threads : Waiting(u)' => Waiting(u) /\ on'[u] = on[u]
      PROVE  WaitersAnnounced'
  BY <1>2, <1>3, <1>4
<1>5. ASSUME UNCHANGED lotVars, pc[t] # "parked", \A u \in Threads : u # t => on'[u] = on[u]
      PROVE  \A u \in Threads : Waiting(u)' => Waiting(u) /\ on'[u] = on[u]
  BY <1>2, <1>5 DEF Waiting
<1>6. ASSUME Grab(t), pc[t] \in {"fast", "loop"}, UNCHANGED lotVars
      PROVE  WaitersAnnounced'
  <2>1. \A u \in Threads : Waiting(u)' => Waiting(u) /\ on'[u] = on[u]
    BY <1>5, <1>6 DEF Grab
  <2>2. on[t] \in Addrs /\ word' = [word EXCEPT ![on[t]].locked = TRUE]
    BY <1>6 DEF Grab, CallInv
  <2>3. \A m \in Addrs : word'[m].parked = word[m].parked
    BY <2>2, BitFacts
  <2> QED
    BY <1>2, <1>3, <2>1, <2>3
<1>7. ASSUME NEW m \in Addrs, NEW c \in Calls, Lock(t, m, c) PROVE WaitersAnnounced'
  BY <1>4, <1>5, <1>7 DEF Lock
<1>8. CASE FastPath(t)
  <2>1. pc[t] = "fast" /\ UNCHANGED lotVars
    BY <1>8 DEF FastPath
  <2>2. CASE UNCHANGED word /\ (Return(t, "idle") \/ UNCHANGED on)
    BY <1>4, <1>5, <2>1, <2>2
  <2> QED
    BY <1>6, <1>8, <2>1, <2>2 DEF FastPath
<1>9. CASE TryGrab(t)
  <2>1. pc[t] = "loop" /\ UNCHANGED lotVars
    BY <1>9 DEF TryGrab
  <2>2. CASE UNCHANGED <<word, on>>
    BY <1>4, <1>5, <2>1, <2>2
  <2> QED
    BY <1>6, <1>9, <2>1, <2>2 DEF TryGrab
<1>10. CASE Spin(t) \/ Age(t)
  BY <1>4, <1>10 DEF Spin, Age, Waiting
<1>11. CASE GiveUp(t)
  BY <1>4, <1>5, <1>11 DEF GiveUp, Blocked
<1>12. CASE SetParked(t)
  <2>1. pc[t] = "loop" /\ UNCHANGED <<lotVars, on>> /\ on[t] \in Addrs
    BY <1>12 DEF SetParked, Blocked, CallInv
  <2>2. \A u \in Threads : Waiting(u)' => Waiting(u) /\ on'[u] = on[u]
    BY <1>5, <2>1
  <2>3. UNCHANGED word \/ word' = [word EXCEPT ![on[t]].parked = TRUE]
    BY <1>12 DEF SetParked
  <2>4. ASSUME NEW m \in Addrs, word[m].parked PROVE word'[m].parked
    <3>1. word \in [Addrs -> Word] /\ on[t] \in Addrs
      BY <2>1
    <3>2. [word EXCEPT ![on[t]].parked = TRUE][m] =
            [locked |-> word[m].locked, parked |-> word[m].parked \/ m = on[t]]
      BY <3>1, BitFacts, Zenon
    <3> QED
      BY <2>3, <2>4, <3>2
  <2> QED
    BY <1>2, <1>3, <2>2, <2>4
<1>13. CASE Park(t)
  <2>1. UNCHANGED word /\ UNCHANGED on
    BY <1>13 DEF Park
  <2>2. CASE word[on[t]] = Contended /\ Enqueue(t, on[t])
    <3>1. \A u \in Threads : u # t => (Waiting(u)' => Waiting(u))
      BY <2>2 DEF Enqueue, EntryIn, Waiting
    <3>2. word[on[t]].parked
      BY <2>2 DEF Contended
    <3> QED
      BY <1>2, <1>3, <2>1, <3>1, <3>2
  <2>3. CASE UNCHANGED lotVars
    BY <1>4, <2>1, <2>3 DEF Waiting
  <2> QED
    BY <1>13, <2>2, <2>3 DEF Park
<1>14. CASE Woken(t)
  BY <1>4, <1>14 DEF Woken, ParkOK, EntryOut, Waiting, Expired
<1>15. CASE Drain(t) \/ Expire(t)
  BY <1>4, <1>15 DEF Drain, Expire, MustDrain, WaitExpires, mutexVars, Waiting, Expired
<1>16. CASE ParkFails(t)
  BY <1>4, <1>16 DEF ParkFails, Withdraw, EntryOut, Waiting, Expired
<1>17. CASE Reload(t)
  BY <1>4, <1>5, <1>17 DEF Reload
<1>18. CASE Unlock(t)
  BY <1>4, <1>5, <1>18 DEF Unlock
<1>19. CASE TryOnce(t)
  <2>1. pc[t] = "unlock" /\ UNCHANGED lotVars /\ on[t] \in Addrs /\ ~ v[t].parked
    BY <1>19 DEF TryOnce, CallInv
  <2>2. CASE word[on[t]] = v[t] /\ word' = [word EXCEPT ![on[t]] = Unlocked] /\ Return(t, "idle")
    <3>1. \A u \in Threads : Waiting(u)' => Waiting(u) /\ on'[u] = on[u]
      BY <1>5, <2>1, <2>2
    <3>2. \A m \in Addrs : m # on[t] => word'[m] = word[m]
      BY <2>2
    <3>3. \A u \in Threads : Waiting(u) => on[u] # on[t]
      BY <1>2, <2>1, <2>2
    <3> QED
      BY <1>2, <1>3, <3>1, <3>2, <3>3
  <2>3. CASE UNCHANGED word /\ (Return(t, "idle") \/ UNCHANGED on)
    BY <1>4, <1>5, <2>1, <2>3
  <2> QED
    BY <1>19, <2>2, <2>3 DEF TryOnce
<1>20. CASE Unpark(t)
  <2>1. pc[t] = "unlock" /\ on[t] \in Addrs
    BY <1>20 DEF Unpark, CallInv
  <2>2. CASE /\ NoWaiter(on[t]) /\ word' = [word EXCEPT ![on[t]] = Unlocked]
             /\ Return(t, "idle") /\ UNCHANGED lotVars
    <3>1. \A u \in Threads : Waiting(u)' => Waiting(u) /\ on'[u] = on[u]
      BY <1>5, <2>1, <2>2
    <3>2. \A m \in Addrs : m # on[t] => word'[m] = word[m]
      BY <2>2
    <3>3. ASSUME NEW u \in Threads, Waiting(u), on[u] = on[t] PROVE FALSE
      <4>1. PICK i \in DOMAIN queue[Bucket[at[u]]] : queue[Bucket[at[u]]][i] = u
        BY <1>2, <3>3 DEF Queued
      <4>2. at[u] = on[t]
        BY <1>2, <3>3
      <4> QED
        BY <2>2, <4>1, <4>2 DEF NoWaiter
    <3> QED
      BY <1>2, <1>3, <3>1, <3>2, <3>3
  <2>3. ASSUME NEW w \in Threads, HandOver(t, w), Goto(t, "wake"), on' = [on EXCEPT ![t] = NULL]
        PROVE  WaitersAnnounced'
    <3>1. /\ unparking' = [unparking EXCEPT ![w] = TRUE] /\ park' = park
          /\ (\E u \in Threads : u # w /\ Queued(u) /\ at[u] = on[t]) => HasMoreWaiters(on[t])
      BY <2>1, <2>3, HandOverFacts
    <3>2. \A u \in Threads : Waiting(u)' => Waiting(u) /\ on'[u] = on[u] /\ u # w
      BY <1>2, <2>1, <2>3, <3>1 DEF Waiting
    <3>3. \A m \in Addrs : word'[m].parked = IF m = on[t] THEN HasMoreWaiters(on[t])
                                                          ELSE word[m].parked
      BY <2>1, <2>3 DEF HandOver
    <3>4. \A u \in Threads : Waiting(u) /\ u # w => word'[on[u]].parked
      BY <1>2, <3>1, <3>3
    <3> QED
      BY <1>3, <3>2, <3>4
  <2> QED
    BY <1>20, <2>2, <2>3 DEF Unpark
<1>21. CASE Wake(t)
  BY <1>4, <1>21 DEF Wake, Wakeup, Waiting
<1>22. CASE AcquireReturns(t)
  BY <1>4, <1>5, <1>22 DEF AcquireReturns
<1>23. ASSUME NEW m \in Addrs, ReleaseCalled(t, m) PROVE WaitersAnnounced'
  BY <1>4, <1>5, <1>23 DEF ReleaseCalled
<1> QED
  BY <1>7, <1>8, <1>9, <1>10, <1>11, <1>12, <1>13, <1>14, <1>15, <1>16, <1>17, <1>18,
     <1>19, <1>20, <1>21, <1>22, <1>23, TryOnceForm DEF LockAct, Act, Step

(* Every step keeps the entry of a thread that is about to be woken alive. *)
LEMMA StepAlive ==
  ASSUME NEW t \in Threads, WaitInv, LockAct(t)
  PROVE  EntriesAlive'
<1> SUFFICES ASSUME NEW u \in Threads, pc'[u] = "wake"
             PROVE  /\ park'[wakes'[u]] # "out" /\ unparking'[wakes'[u]]
                    /\ sema'[wakes'[u]] = 0
  BY DEF EntriesAlive
<1> USE DEF WaitInv, TypeOK, LotTypeOK, Goto, Return, lotVars, Locking
<1> DEFINE Alive == /\ park'[wakes'[u]] # "out" /\ unparking'[wakes'[u]]
                    /\ sema'[wakes'[u]] = 0
<1>1. pc[u] = "wake" => /\ wakes[u] \in Threads /\ park[wakes[u]] # "out"
                        /\ unparking[wakes[u]] /\ sema[wakes[u]] = 0
  BY DEF CallInv, EntriesAlive
<1>2. ASSUME UNCHANGED <<park, unparking, sema, wakes>>, pc'[u] = "wake" => pc[u] = "wake"
      PROVE  Alive
  BY <1>1, <1>2
<1>3. ASSUME UNCHANGED wakes, pc'[t] # "wake", pc[t] # "wake", wakes[u] # t,
             pc' = [pc EXCEPT ![t] = pc'[t]],
             \A x \in Threads : x # t =>
               park'[x] = park[x] /\ unparking'[x] = unparking[x] /\ sema'[x] = sema[x]
      PROVE  Alive
  BY <1>1, <1>3
<1>4. ASSUME NEW m \in Addrs, NEW c \in Calls, Lock(t, m, c) PROVE Alive
  BY <1>2, <1>4 DEF Lock
<1>5. CASE FastPath(t)
  BY <1>2, <1>5 DEF FastPath, Grab
<1>6. CASE TryGrab(t)
  BY <1>2, <1>6 DEF TryGrab, Grab
<1>7. CASE Spin(t) \/ Age(t)
  BY <1>2, <1>7 DEF Spin, Age
<1>8. CASE GiveUp(t)
  BY <1>2, <1>8 DEF GiveUp
<1>9. CASE SetParked(t)
  BY <1>2, <1>9 DEF SetParked
<1>10. CASE Park(t)
  <2>1. park[t] = "out" /\ pc[t] = "park" /\ UNCHANGED wakes
    BY <1>10 DEF Park, EntryInv
  <2>2. u # t /\ pc[u] = "wake" /\ wakes[u] # t
    BY <1>1, <1>10, <2>1 DEF Park
  <2> QED
    BY <1>1, <1>10, <2>1, <2>2 DEF Park, Enqueue, EntryIn
<1>11. CASE Woken(t)
  <2>1. sema[t] > 0 /\ pc[t] = "parked" /\ UNCHANGED wakes
    BY <1>11 DEF Woken, ParkOK
  <2>2. u # t /\ pc[u] = "wake" /\ wakes[u] # t
    BY <1>1, <1>11, <2>1 DEF Woken
  <2> QED
    BY <1>1, <1>11, <2>1, <2>2 DEF Woken, ParkOK, EntryOut
<1>12. CASE Drain(t) \/ Expire(t)
  <2>1. pc[u] = "wake" /\ UNCHANGED <<wakes, unparking, sema>>
    BY <1>12 DEF Drain, Expire, MustDrain, WaitExpires, mutexVars
  <2>2. \A x \in Threads : park[x] # "out" => park'[x] # "out"
    BY <1>12, PyMutexAssumption DEF Drain, Expire, MustDrain, WaitExpires, Expired
  <2> QED
    BY <1>1, <2>1, <2>2
<1>13. CASE ParkFails(t)
  <2>1. ~ unparking[t] /\ pc[t] = "parked" /\ UNCHANGED wakes
    BY <1>13 DEF ParkFails, Withdraw
  <2>2. u # t /\ pc[u] = "wake" /\ wakes[u] # t
    BY <1>1, <1>13, <2>1 DEF ParkFails
  <2> QED
    BY <1>1, <1>13, <2>1, <2>2 DEF ParkFails, Withdraw, EntryOut
<1>14. CASE Reload(t)
  BY <1>2, <1>14 DEF Reload
<1>15. CASE Unlock(t)
  BY <1>2, <1>15 DEF Unlock, SeeLocked
<1>16. CASE TryOnce(t)
  BY <1>2, <1>16 DEF TryOnce
<1>17. CASE Unpark(t)
  <2>1. CASE Return(t, "idle") /\ UNCHANGED <<lotVars, wakes>>
    BY <1>2, <2>1
  <2>2. ASSUME NEW w \in Threads, HandOver(t, w), Goto(t, "wake"),
               wakes' = [wakes EXCEPT ![t] = w]
        PROVE  Alive
    <3>1. pc[t] = "unlock"
      BY <1>17 DEF Unpark
    <3>2. /\ unparking' = [unparking EXCEPT ![w] = TRUE] /\ sema' = sema /\ park' = park
          /\ sema[w] = 0 /\ park[w] \in {"waiting"} \union Expired
      BY <2>2, <3>1, HandOverFacts
    <3> QED
      BY <1>1, <2>2, <3>1, <3>2 DEF Expired
  <2> QED
    BY <1>17, <2>1, <2>2 DEF Unpark
<1>18. CASE Wake(t)
  <2>1. u # t /\ pc[u] = "wake" /\ wakes'[u] = wakes[u] /\ wakes[u] # wakes[t]
    BY <1>18 DEF Wake, CallInv
  <2> QED
    BY <1>1, <1>18, <2>1 DEF Wake, Wakeup
<1>19. CASE AcquireReturns(t)
  BY <1>2, <1>19 DEF AcquireReturns
<1>20. ASSUME NEW m \in Addrs, ReleaseCalled(t, m) PROVE Alive
  BY <1>2, <1>20 DEF ReleaseCalled
<1> QED
  BY <1>4, <1>5, <1>6, <1>7, <1>8, <1>9, <1>10, <1>11, <1>12, <1>13, <1>14, <1>15,
     <1>16, <1>17, <1>18, <1>19, <1>20, TryOnceForm DEF LockAct, Act, Step

(* Every step keeps the promise that a woken thread tries.                 *)
LEMMA StepNoLostWakeup ==
  ASSUME NEW t \in Threads, WaitInv, LockAct(t)
  PROVE  NoLostWakeup'
<1> USE DEF WaitInv, TypeOK, LotTypeOK, Goto, Return, lotVars
<1>1. LotTypeOK' /\ QueuesExact' /\ EntryInv'
  BY StepLot, StepEntry
<1> SUFFICES ASSUME NEW m \in Addrs, ~ word'[m].locked,
                    NEW x \in Threads, Waiting(x)', on'[x] = m
             PROVE  \E u \in Threads : Tries(u, m)'
  <2> SUFFICES ASSUME NEW m \in Addrs, ~ word'[m].locked,
                      NEW x \in Threads, Queued(x)', at'[x] = m
               PROVE  \E u \in Threads : Tries(u, m)'
    BY DEF NoLostWakeup
  <2>1. Waiting(x)'
    BY <1>1 DEF QueuesExact, Waiting
  <2>2. on'[x] = m
    BY <1>1, <2>1 DEF EntryInv, Waiting, Expired
  <2> QED
    BY <2>1, <2>2
<1> DEFINE Tried == \E u \in Threads : Tries(u, m)'
           Others == \A u \in Threads : u # t =>
                       /\ pc'[u] = pc[u] /\ on'[u] = on[u] /\ v'[u] = v[u]
                       /\ handed'[u] = handed[u] /\ (unparking[u] => unparking'[u])
<1>2. Waiting(x) => Queued(x) /\ at[x] = on[x] /\ word[on[x]].parked /\ pc[x] = "parked"
  BY QueuedForm DEF WaitersAnnounced, Waiting, EntryInv, CallInv, Expired
<1>3. ASSUME Waiting(x), on[x] = m, word'[m] = word[m], Others, Tries(t, m) => Tries(t, m)'
      PROVE  Tried
  <2>1. PICK u \in Threads : Tries(u, m)
    BY <1>2, <1>3 DEF NoLostWakeup
  <2>2. CASE u = t
    BY <1>3, <2>1, <2>2
  <2>3. CASE u # t
    BY <1>3, <2>1, <2>3 DEF Tries
  <2> QED
    BY <2>2, <2>3
<1>4. ASSUME UNCHANGED lotVars, pc[t] # "parked", Others
      PROVE  Waiting(x) /\ on[x] = m
  BY <1>2, <1>4 DEF Waiting
<1>5. ASSUME Grab(t), pc[t] \in {"fast", "loop"}, UNCHANGED lotVars
      PROVE  Tried
  <2>1. Others
    BY <1>5 DEF Grab
  <2>2. word \in [Addrs -> Word] /\ on[t] \in Addrs /\ word' = [word EXCEPT ![on[t]].locked = TRUE]
    BY <1>5 DEF Grab, CallInv
  <2>3. m # on[t]
    BY <2>2
  <2> QED
    BY <1>3, <1>4, <1>5, <2>1, <2>2, <2>3 DEF Tries
<1>6. ASSUME NEW n \in Addrs, NEW c \in Calls, Lock(t, n, c) PROVE Tried
  <2>1. UNCHANGED <<lotVars, word>> /\ pc[t] = "idle" /\ Others
    BY <1>6 DEF Lock
  <2> QED
    BY <1>3, <1>4, <2>1 DEF Tries
<1>7. CASE FastPath(t)
  <2>1. pc[t] = "fast" /\ UNCHANGED lotVars
    BY <1>7 DEF FastPath
  <2>2. CASE Grab(t)
    BY <1>5, <2>1, <2>2
  <2>3. CASE /\ UNCHANGED word
             /\ \/ Return(t, "idle")
                \/ (UNCHANGED v \/ See(t)) /\ Goto(t, "loop") /\ UNCHANGED <<on, handed>>
    <3>1. Others
      BY <2>1, <2>3 DEF See
    <3> QED
      BY <1>3, <1>4, <2>1, <2>3, <3>1 DEF Tries
  <2> QED
    BY <1>7, <2>2, <2>3 DEF FastPath
<1>8. CASE TryGrab(t)
  <2>1. pc[t] = "loop" /\ UNCHANGED lotVars
    BY <1>8 DEF TryGrab
  <2>2. CASE Grab(t)
    BY <1>5, <2>1, <2>2
  <2>3. CASE See(t) /\ UNCHANGED <<word, pc, on, handed>>
    <3>1. Others
      BY <2>1, <2>3 DEF See
    <3> QED
      BY <1>3, <1>4, <2>1, <2>3, <3>1 DEF Tries, See
  <2> QED
    BY <1>8, <2>2, <2>3 DEF TryGrab
<1>9. CASE Spin(t)
  <2>1. pc[t] = "loop" /\ v[t].locked /\ UNCHANGED <<lotVars, word>> /\ Others
    BY <1>9 DEF Spin, See
  <2> QED
    BY <1>3, <1>4, <2>1 DEF Tries
<1>10. CASE Age(t)
  <2>1. UNCHANGED <<lotVars, word, pc, on, v, handed>>
    BY <1>10 DEF Age
  <2> QED
    BY <1>3, <2>1 DEF Tries, Waiting
<1>11. CASE GiveUp(t)
  <2>1. pc[t] = "loop" /\ v[t].locked /\ UNCHANGED <<lotVars, word>> /\ Others
    BY <1>11 DEF GiveUp, Blocked
  <2> QED
    BY <1>3, <1>4, <2>1 DEF Tries
<1>12. CASE SetParked(t)
  <2>1. pc[t] = "loop" /\ v[t].locked /\ UNCHANGED lotVars /\ Others
    BY <1>12 DEF SetParked, Blocked, See
  <2>2. CASE UNCHANGED word
    BY <1>3, <1>4, <2>1, <2>2 DEF Tries
  <2>3. CASE word[on[t]] = v[t] /\ word' = [word EXCEPT ![on[t]].parked = TRUE]
    <3>1. word \in [Addrs -> Word] /\ on[t] \in Addrs
      BY <2>1 DEF CallInv
    <3>2. word'[on[t]].locked
      BY <2>1, <2>3, <3>1 DEF Word
    <3>3. word'[m] = word[m] /\ on[t] # m
      BY <2>3, <3>1, <3>2
    <3> QED
      BY <1>3, <1>4, <2>1, <3>3 DEF Tries
  <2> QED
    BY <1>12, <2>2, <2>3 DEF SetParked
<1>13. CASE Park(t)
  <2>1. pc[t] = "park" /\ UNCHANGED <<word, on, v, handed>> /\ Others
    BY <1>13 DEF Park, Enqueue, EntryIn
  <2>2. CASE word[on[t]] = Contended /\ Enqueue(t, on[t])
    <3>1. x # t
      BY <2>1, <2>2 DEF Contended
    <3>2. Waiting(x)
      BY <2>2, <3>1 DEF Enqueue, EntryIn, Waiting
    <3> QED
      BY <1>3, <2>1, <3>2 DEF Tries
  <2>3. CASE UNCHANGED lotVars
    BY <1>3, <1>4, <2>1, <2>3 DEF Tries
  <2> QED
    BY <1>13, <2>2, <2>3 DEF Park
<1>14. CASE Woken(t)
  <2>1. pc[t] = "parked" /\ UNCHANGED word /\ Others
    BY <1>14 DEF Woken, ParkOK, EntryOut
  <2>2. Waiting(x) /\ on[x] = m
    BY <1>14 DEF Woken, ParkOK, EntryOut, Waiting, Expired
  <2> QED
    BY <1>3, <1>14, <2>1, <2>2 DEF Woken, Tries
<1>15. CASE Drain(t) \/ Expire(t)
  <2>1. UNCHANGED <<word, pc, on, v, handed, unparking>>
    BY <1>15 DEF Drain, Expire, MustDrain, WaitExpires, mutexVars
  <2>2. Waiting(x)
    BY <1>15 DEF Drain, Expire, MustDrain, WaitExpires, Waiting, Expired
  <2> QED
    BY <1>3, <2>1, <2>2 DEF Tries
<1>16. CASE ParkFails(t)
  <2>1. pc[t] = "parked" /\ ~ unparking[t] /\ UNCHANGED word /\ Others
    BY <1>16 DEF ParkFails, Withdraw, EntryOut
  <2>2. Waiting(x) /\ on[x] = m
    BY <1>16 DEF ParkFails, Withdraw, EntryOut, Waiting, Expired
  <2> QED
    BY <1>3, <2>1, <2>2 DEF Tries
<1>17. CASE Reload(t)
  <2>1. pc[t] = "reload" /\ UNCHANGED <<lotVars, word, on>> /\ See(t) /\ Goto(t, "loop") /\ Others
    BY <1>17 DEF Reload, See
  <2> QED
    BY <1>3, <1>4, <2>1 DEF Tries, See
<1>18. CASE Unlock(t)
  <2>1. pc[t] = "held" /\ UNCHANGED <<lotVars, word>> /\ Others
    BY <1>18 DEF Unlock, SeeLocked, See
  <2> QED
    BY <1>3, <1>4, <2>1 DEF Tries
<1>19. CASE TryOnce(t)
  <2>1. pc[t] = "unlock" /\ UNCHANGED lotVars /\ ~ v[t].parked /\ Others
    BY <1>19 DEF TryOnce, See
  <2>2. Waiting(x) /\ on[x] = m
    BY <1>4, <2>1
  <2>3. CASE UNCHANGED word
    BY <1>3, <2>1, <2>2, <2>3 DEF Tries
  <2>4. CASE word[on[t]] = v[t] /\ word' = [word EXCEPT ![on[t]] = Unlocked]
    <3>1. m # on[t]
      BY <1>2, <2>1, <2>2, <2>4
    <3> QED
      BY <1>3, <2>1, <2>2, <2>4, <3>1 DEF Tries
  <2> QED
    BY <1>19, <2>3, <2>4 DEF TryOnce
<1>20. CASE Unpark(t)
  <2>1. pc[t] = "unlock" /\ on[t] \in Addrs
    BY <1>20 DEF Unpark, CallInv
  <2>2. CASE /\ NoWaiter(on[t]) /\ word' = [word EXCEPT ![on[t]] = Unlocked]
             /\ Return(t, "idle") /\ UNCHANGED lotVars
    <3>1. Others
      BY <2>1, <2>2
    <3>2. Waiting(x) /\ on[x] = m
      BY <1>4, <2>1, <2>2, <3>1
    <3>3. m # on[t]
      <4>1. PICK i \in DOMAIN queue[Bucket[at[x]]] : queue[Bucket[at[x]]][i] = x
        BY <1>2, <3>2 DEF Queued
      <4>2. at[x] = m
        BY <1>2, <3>2
      <4> QED
        BY <2>2, <4>1, <4>2 DEF NoWaiter
    <3> QED
      BY <1>3, <2>1, <2>2, <3>1, <3>2, <3>3 DEF Tries
  <2>3. ASSUME NEW w \in Threads, HandOver(t, w), Goto(t, "wake"),
               on' = [on EXCEPT ![t] = NULL], v' = [v EXCEPT ![t] = Unlocked]
        PROVE  Tried
    <3>1. /\ w # t /\ pc[w] = "parked" /\ on[w] = on[t]
          /\ unparking' = [unparking EXCEPT ![w] = TRUE] /\ park' = park
          /\ handed' = [handed EXCEPT ![w] = aged[w]]
      BY <2>1, <2>3, HandOverFacts
    <3>2. word'[on[t]].locked = aged[w] /\ \A n \in Addrs : n # on[t] => word'[n] = word[n]
      BY <2>1, <2>3 DEF HandOver
    <3>3. CASE m = on[t]
      BY <2>3, <3>1, <3>2, <3>3 DEF Tries
    <3>4. CASE m # on[t]
      <4>1. Waiting(x) /\ on[x] = m
        BY <1>2, <2>1, <2>3, <3>1 DEF Waiting
      <4>2. PICK u \in Threads : Tries(u, m)
        BY <1>2, <4>1, <3>2, <3>4 DEF NoLostWakeup
      <4>3. u # t /\ u # w
        BY <3>1, <3>4, <4>2 DEF Tries
      <4>4. Tries(u, m)'
        BY <2>3, <3>1, <3>2, <3>4, <4>2, <4>3 DEF Tries
      <4> QED
        BY <4>4
    <3> QED
      BY <3>3, <3>4
  <2> QED
    BY <1>20, <2>2, <2>3 DEF Unpark
<1>21. CASE Wake(t)
  <2>1. pc[t] = "wake" /\ UNCHANGED <<word, on, v, handed, park, unparking>> /\ Others
    BY <1>21 DEF Wake, Wakeup
  <2> QED
    BY <1>3, <2>1 DEF Tries, Waiting
<1>22. CASE AcquireReturns(t)
  <2>1. pc[t] = "held" /\ UNCHANGED <<lotVars, word>> /\ Others
    BY <1>22 DEF AcquireReturns
  <2> QED
    BY <1>3, <1>4, <2>1 DEF Tries
<1>23. ASSUME NEW n \in Addrs, ReleaseCalled(t, n) PROVE Tried
  <2>1. pc[t] = "idle" /\ UNCHANGED <<lotVars, word>> /\ Others
    BY <1>23 DEF ReleaseCalled
  <2> QED
    BY <1>3, <1>4, <2>1 DEF Tries
<1> QED
  BY <1>6, <1>7, <1>8, <1>9, <1>10, <1>11, <1>12, <1>13, <1>14, <1>15, <1>16, <1>17,
     <1>18, <1>19, <1>20, <1>21, <1>22, <1>23, TryOnceForm DEF LockAct, Act, Step

-----------------------------------------------------------------------------
(* The theorems.                                                           *)

(* The invariant holds initially.                                          *)
LEMMA InitInv ==
  ASSUME Init
  PROVE  Inv /\ LockInv
<1> USE ParkingLotAssumption, PyMutexAssumption, WordType DEF Init, LotInit
<1>1. TypeOK
  <2>1. queue \in [Buckets -> Seq(Threads)]
    OBVIOUS
  <2>2. LotTypeOK
    BY <2>1 DEF LotTypeOK
  <2>3. 0 \in 0 .. MaxSpin /\ 0 \in 0 .. MaxCalls
    OBVIOUS
  <2> QED
    BY <2>2, <2>3 DEF TypeOK
<1>2. QueuesExact
  <2>1. \A b \in Buckets : queue[b] = << >>
    OBVIOUS
  <2>2. DOMAIN (<< >>) = {}
    OBVIOUS
  <2> QED
    BY <2>1, <2>2 DEF QueuesExact, IsInjective, Queued, Expired
<1>3. EntryInv /\ CallInv /\ NeverFatal /\ EntriesAlive
  BY DEF EntryInv, CallInv, NeverFatal, EntriesAlive
<1>4. MutualExclusion
  BY DEF MutualExclusion, Exclusive, Owns, HandedOver, Unlocked
<1>5. WaitersAnnounced /\ NoLostWakeup
  BY DEF WaitersAnnounced, NoLostWakeup, Queued
<1> QED
  BY <1>1, <1>2, <1>3, <1>4, <1>5 DEF Inv, LockInv, WaitInv, MutualExclusion, MutexesUndisturbed

(* Nothing in the invariants depends on whether the runtime finalizes.     *)
LEMMA QuietStep ==
  ASSUME WaitInv, finalizing' \in BOOLEAN,
         UNCHANGED <<lotVars, word, pc, on, call, v, spin, aged, handed, wakes, calls>>
  PROVE  /\ WaitInv' /\ (NeverFatal => NeverFatal')
         /\ \A m \in Addrs : Exclusive(m) => Exclusive(m)'
<1> USE DEF WaitInv, lotVars
<1>1. TypeOK'
  BY DEF TypeOK, LotTypeOK
<1>2. QueuesExact'
  BY DEF QueuesExact, Queued
<1>3. EntryInv' /\ CallInv' /\ (NeverFatal => NeverFatal') /\ EntriesAlive'
  BY DEF EntryInv, CallInv, NeverFatal, EntriesAlive
<1>4. \A m \in Addrs : Exclusive(m) => Exclusive(m)'
  BY DEF Exclusive, Owns, HandedOver
<1>5. WaitersAnnounced' /\ NoLostWakeup'
  BY DEF WaitersAnnounced, NoLostWakeup, Queued, Tries
<1> QED
  BY <1>1, <1>2, <1>3, <1>4, <1>5

(* Every step keeps what holds whoever unlocks.                            *)
LEMMA StepWait ==
  ASSUME NEW t \in Threads, WaitInv, LockAct(t)
  PROVE  WaitInv'
<1>1. TypeOK' /\ QueuesExact' /\ EntryInv'
  BY StepType, StepLot, StepEntry
<1>2. CallInv' /\ WaitersAnnounced' /\ EntriesAlive' /\ NoLostWakeup'
  BY StepCall, StepAnnounced, StepAlive, StepNoLostWakeup
<1> QED
  BY <1>1, <1>2 DEF WaitInv

(* Every step keeps the invariant.                                         *)
LEMMA NextInv ==
  ASSUME Inv, [Next]_vars
  PROVE  Inv'
<1> USE DEF Inv
<1>1. ASSUME NEW t \in Threads, Act(t) PROVE Inv'
  <2>1. WaitInv'
    BY <1>1, StepWait DEF LockAct
  <2>2. MutualExclusion'
    BY <1>1, StepExclusive DEF MutualExclusion
  <2>3. (Unlock(t) \/ UnlockFast(t)) => Exclusive(on[t])
    BY OwnerLocked DEF Unlock, UnlockFast, MutualExclusion
  <2>4. NeverFatal'
    BY <1>1, <2>3, StepNeverFatal DEF Harmless, Act, Step
  <2> QED
    BY <2>1, <2>2, <2>4
<1>2. CASE Finalize
  BY <1>2, QuietStep DEF Finalize, MutualExclusion
<1>3. CASE UNCHANGED vars
  <2>1. finalizing' \in BOOLEAN
    BY <1>3 DEF vars, mutexVars, WaitInv, TypeOK
  <2> QED
    BY <1>3, <2>1, QuietStep DEF vars, mutexVars, MutualExclusion
<1> QED
  BY <1>1, <1>2, <1>3 DEF Next, Act

(* The invariant of PyMutex holds in every reachable state.                *)
THEOREM Invariance == Spec => []Inv
<1>1. Init => Inv
  BY InitInv
<1>2. Inv /\ [Next]_vars => Inv'
  BY NextInv
<1> QED
  BY <1>1, <1>2, PTL DEF Spec

(* A PyMutex has one owner at a time, exactly while its lock bit is set.   *)
THEOREM MutualExclusionHolds == Spec => []MutualExclusion
<1>1. Inv => MutualExclusion
  BY DEF Inv
<1> QED
  BY <1>1, Invariance, PTL

(* While a mutex with parked threads is unlocked, somebody tries for it.   *)
THEOREM NoLostWakeupHolds == Spec => []NoLostWakeup
<1>1. Inv => NoLostWakeup
  BY DEF Inv, WaitInv
<1> QED
  BY <1>1, Invariance, PTL

(* Every queued waiter is announced in the byte of its mutex.              *)
THEOREM WaitersAnnouncedHolds == Spec => []WaitersAnnounced
<1>1. Inv => WaitersAnnounced
  BY DEF Inv, WaitInv
<1> QED
  BY <1>1, Invariance, PTL

(* A semaphore is posted only while its waiter is inside Park, and once.   *)
THEOREM EntriesAliveHolds == Spec => []EntriesAlive
<1>1. Inv => EntriesAlive
  BY DEF Inv, WaitInv
<1> QED
  BY <1>1, Invariance, PTL

(* The lists of the parking lot hold exactly the waiters nobody dequeued.  *)
THEOREM QueuesExactHolds == Spec => []QueuesExact
<1>1. Inv => QueuesExact
  BY DEF Inv, WaitInv
<1> QED
  BY <1>1, Invariance, PTL

-----------------------------------------------------------------------------
(* PyMutex implements MutexSpec.                                           *)

(* The abstract owner of a mutex is the one thread that owns it.           *)
LEMMA OwnerFacts ==
  ASSUME NEW m \in Addrs, Exclusive(m)
  PROVE  /\ Owner(m) \in Threads \union {NULL}
         /\ \A t \in Threads : Owner(m) = t <=> Owns(t, m)
BY ParkingLotAssumption DEF Owner, Exclusive

(* The same in the state after a step.                                     *)
LEMMA OwnerFactsNext ==
  ASSUME NEW m \in Addrs, Exclusive(m)'
  PROVE  /\ Owner(m)' \in Threads \union {NULL}
         /\ \A t \in Threads : Owner(m)' = t <=> Owns(t, m)'
BY ParkingLotAssumption DEF Owner, Exclusive

(* The abstract mutexes after a step, from what the step does to Owns.     *)
LEMMA OwnerChanges ==
  ASSUME NEW m \in Addrs, Exclusive(m), Exclusive(m)'
  PROVE  /\ (\A u \in Threads : Owns(u, m)' <=> Owns(u, m)) => Owner(m)' = Owner(m)
         /\ (\A u \in Threads : ~ Owns(u, m)') => Owner(m)' = NULL
         /\ (\A u \in Threads : ~ Owns(u, m)) => Owner(m) = NULL
         /\ \A t \in Threads : Owns(t, m) => Owner(m) = t
         /\ \A t \in Threads : Owns(t, m)' => Owner(m)' = t
<1> USE OwnerFacts, OwnerFactsNext, ParkingLotAssumption
<1>1. ASSUME \A u \in Threads : Owns(u, m)' <=> Owns(u, m)
      PROVE  Owner(m)' = Owner(m)
  <2>1. CASE Owner(m) \in Threads
    BY <1>1, <2>1
  <2>2. CASE Owner(m) = NULL
    <3>1. Owner(m)' \notin Threads
      BY <1>1, <2>2
    <3> QED
      BY <2>2, <3>1
  <2> QED
    BY <2>1, <2>2
<1> QED
  BY <1>1

(* MutexSpec for the mutexes of a set M.                                   *)
MutexesOf(M) == INSTANCE MutexSpec WITH
  Mutexes <- M,
  owner <- owners(M),
  wants <- requests(M)

(* Every step of a thread is a step of the abstract mutexes, or none.      *)
LEMMA StepImplements ==
  ASSUME NEW t \in Threads, WaitInv, Act(t), NEW M \in SUBSET Addrs,
         \A m \in M : Exclusive(m) /\ Exclusive(m)'
  PROVE  MutexesOf(M)!Next \/ UNCHANGED <<owners(M), requests(M)>>
<1> USE DEF WaitInv, TypeOK, LotTypeOK, Goto, Return, lotVars, Locking
<1> DEFINE SameOwners == \A u \in Threads, m \in M : Owns(u, m)' <=> Owns(u, m)
           SameOthers == \A u \in Threads : u # t => Wants(u)' = Wants(u)
           Stutters == UNCHANGED <<owners(M), requests(M)>>
           Goal == MutexesOf(M)!Next \/ Stutters
<1>0. NULL \notin M /\ M \subseteq Addrs
  BY ParkingLotAssumption
<1>1. ASSUME SameOwners PROVE owners(M)' = owners(M)
  BY <1>1, OwnerChanges DEF owners
<1>2. ASSUME \A u \in Threads : Wants(u)' = Wants(u) \/ {Wants(u), Wants(u)'} \intersect M = {}
      PROVE  requests(M)' = requests(M)
  <2>1. \A u \in Threads :
          (IF Wants(u)' \in M THEN Wants(u)' ELSE NULL) = IF Wants(u) \in M THEN Wants(u) ELSE NULL
    BY <1>2
  <2> QED
    BY <2>1 DEF requests
<1>3. ASSUME NEW x \in M \union {NULL}, NEW w \in Threads,
             \A u \in Threads : u # w => Wants(u)' = Wants(u), Wants(w)' = x
      PROVE  requests(M)' = [requests(M) EXCEPT ![w] = x]
  BY <1>0, <1>3 DEF requests
<1>4. on[t] # NULL => on[t] \in Addrs
  OBVIOUS
<1>5. ASSUME NEW m \in Addrs, NEW c \in Calls, Lock(t, m, c) PROVE Goal
  <2>1. SameOwners
    BY <1>5 DEF Lock, Owns, HandedOver
  <2>2. ~ Owns(t, m) /\ Wants(t) = NULL
    BY <1>5 DEF Lock, Owns, HandedOver, Wants, Asked
  <2>3. SameOthers /\ Wants(t)' = m
    BY <1>5 DEF Lock, Wants, Asked, HandedOver
  <2>4. CASE m \in M
    <3>1. owners(M)[m] # t
      BY <2>2, <2>4, OwnerFacts DEF owners
    <3>2. MutexesOf(M)!Ask(t, m)
      BY <1>0, <1>1, <1>3, <2>1, <2>2, <2>3, <2>4, <3>1 DEF MutexesOf!Ask, owners, requests
    <3> QED
      BY <2>4, <3>2 DEF MutexesOf!Next
  <2>5. CASE m \notin M
    BY <1>0, <1>1, <1>2, <2>1, <2>2, <2>3, <2>5
  <2> QED
    BY <2>4, <2>5
<1>6. ASSUME Grab(t), pc[t] \in {"fast", "loop"}, UNCHANGED lotVars PROVE Goal
  <2>1. /\ on[t] \in Addrs /\ (Exclusive(on[t]) => \A u \in Threads : ~ Owns(u, on[t]))
        /\ \A u \in Threads, m \in Addrs :
             Owns(u, m)' <=> Owns(u, m) \/ (u = t /\ m = on[t])
    BY <1>6, GrabOwner
  <2>2. SameOthers /\ Wants(t)' = NULL /\ Wants(t) = on[t]
    BY <1>6 DEF Grab, Wants, Asked, HandedOver
  <2>3. CASE on[t] \in M
    <3>1. Owner(on[t]) = NULL
      BY <2>1, <2>3, OwnerChanges
    <3>2. owners(M)' = [owners(M) EXCEPT ![on[t]] = t]
      <4>1. ASSUME NEW m \in M PROVE Owner(m)' = IF m = on[t] THEN t ELSE Owner(m)
        BY <2>1, OwnerChanges
      <4> QED
        BY <4>1 DEF owners
    <3>3. MutexesOf(M)!Take(t, on[t])
      BY <1>3, <2>2, <2>3, <3>1, <3>2 DEF MutexesOf!Take, owners, requests
    <3> QED
      BY <2>3, <3>3 DEF MutexesOf!Next
  <2>4. CASE on[t] \notin M
    <3>1. SameOwners
      BY <2>1, <2>4
    <3> QED
      BY <1>0, <1>1, <1>2, <2>2, <2>4, <3>1
  <2> QED
    BY <2>3, <2>4
<1>7. ASSUME SameOwners, SameOthers, Wants(t)' = NULL, Wants(t) \in Addrs PROVE Goal
  <2>1. CASE Wants(t) \in M
    <3>1. MutexesOf(M)!GiveUp(t, Wants(t))
      BY <1>1, <1>3, <1>7, <2>1 DEF MutexesOf!GiveUp, owners, requests
    <3> QED
      BY <2>1, <3>1 DEF MutexesOf!Next
  <2>2. CASE Wants(t) \notin M
    BY <1>0, <1>1, <1>2, <1>7, <2>2
  <2> QED
    BY <2>1, <2>2
<1>8. ASSUME pc[t] = "unlock", word' = [word EXCEPT ![on[t]] = Unlocked],
             Return(t, "idle"), UNCHANGED lotVars
      PROVE  Goal
  <2>1. on[t] \in Addrs /\ Owns(t, on[t]) /\ \A m \in Addrs : Owns(t, m) => m = on[t]
    BY <1>8, OwnerLocked DEF Owns
  <2>2. \A u \in Threads, m \in Addrs : Owns(u, m)' <=> Owns(u, m) /\ u # t
    BY <1>8, ReleaseOwner
  <2>3. \A u \in Threads : Wants(u)' = Wants(u)
    BY <1>8 DEF Wants, Asked, HandedOver
  <2>4. CASE on[t] \in M
    <3>1. owners(M)' = [owners(M) EXCEPT ![on[t]] = NULL]
      <4>1. ASSUME NEW m \in M PROVE Owner(m)' = IF m = on[t] THEN NULL ELSE Owner(m)
        <5>1. CASE m = on[t]
          <6>1. \A u \in Threads : ~ Owns(u, m)'
            BY <2>1, <2>2, <5>1 DEF Exclusive
          <6> QED
            BY <5>1, <6>1, OwnerChanges
        <5>2. CASE m # on[t]
          <6>1. \A u \in Threads : Owns(u, m)' <=> Owns(u, m)
            BY <2>1, <2>2, <5>2
          <6> QED
            BY <5>2, <6>1, OwnerChanges
        <5> QED
          BY <5>1, <5>2
      <4> QED
        BY <4>1 DEF owners
    <3>2. Owner(on[t]) = t
      BY <2>1, <2>4, OwnerChanges
    <3>3. MutexesOf(M)!Release(t, on[t])
      BY <1>2, <2>3, <2>4, <3>1, <3>2 DEF MutexesOf!Release, owners, requests
    <3> QED
      BY <2>4, <3>3 DEF MutexesOf!Next
  <2>5. CASE on[t] \notin M
    <3>1. SameOwners
      BY <2>1, <2>2, <2>5
    <3> QED
      BY <1>1, <1>2, <2>3, <3>1
  <2> QED
    BY <2>4, <2>5
<1>9. ASSUME pc[t] = "unlock", NEW w \in Threads, HandOver(t, w),
             Goto(t, "wake"), on' = [on EXCEPT ![t] = NULL]
      PROVE  Goal
  <2>1. on[t] \in Addrs /\ Owns(t, on[t]) /\ \A m \in Addrs : Owns(t, m) => m = on[t]
    BY <1>9, OwnerLocked DEF Owns
  <2>2. /\ w # t /\ pc[w] = "parked" /\ on[w] = on[t] /\ ~ unparking[w]
        /\ unparking' = [unparking EXCEPT ![w] = TRUE]
        /\ handed' = [handed EXCEPT ![w] = aged[w]]
    BY <1>9, HandOverFacts
  <2>3. \A u \in Threads, m \in Addrs :
          Owns(u, m)' <=> (Owns(u, m) /\ u # t) \/ (u = w /\ m = on[t] /\ aged[w])
    BY <1>9, HandOverOwner
  <2>4. /\ \A u \in Threads : u # w => Wants(u)' = Wants(u)
        /\ Wants(w) = on[t] /\ Wants(w)' = IF aged[w] THEN NULL ELSE on[t]
    BY <1>9, <2>2 DEF Wants, Asked, HandedOver
  <2>5. CASE on[t] \in M
    <3>1. \A u \in Threads : Owns(u, on[t]) => u = t
      BY <2>1, <2>5 DEF Exclusive
    <3>2. owners(M)' = [owners(M) EXCEPT ![on[t]] = IF aged[w] THEN w ELSE NULL]
      <4>1. ASSUME NEW m \in M
            PROVE  Owner(m)' = IF m = on[t] THEN (IF aged[w] THEN w ELSE NULL) ELSE Owner(m)
        <5>1. CASE m = on[t] /\ aged[w]
          BY <2>2, <2>3, <5>1, OwnerChanges
        <5>2. CASE m = on[t] /\ ~ aged[w]
          BY <2>3, <3>1, <5>2, OwnerChanges
        <5>3. CASE m # on[t]
          <6>1. \A u \in Threads : Owns(u, m)' <=> Owns(u, m)
            BY <2>1, <2>3, <5>3
          <6> QED
            BY <5>3, <6>1, OwnerChanges
        <5> QED
          BY <5>1, <5>2, <5>3
      <4> QED
        BY <4>1 DEF owners
    <3>3. Owner(on[t]) = t
      BY <2>1, <2>5, OwnerChanges
    <3>4. CASE aged[w]
      <4>1. requests(M)' = [requests(M) EXCEPT ![w] = NULL]
        BY <1>3, <2>4, <3>4
      <4>2. MutexesOf(M)!Pass(t, w, on[t])
        BY <2>4, <2>5, <3>2, <3>3, <3>4, <4>1 DEF MutexesOf!Pass, owners, requests
      <4> QED
        BY <2>5, <4>2 DEF MutexesOf!Next
    <3>5. CASE ~ aged[w]
      <4>1. requests(M)' = requests(M)
        BY <1>2, <2>4, <3>5
      <4>2. MutexesOf(M)!Release(t, on[t])
        BY <2>5, <3>2, <3>3, <3>5, <4>1 DEF MutexesOf!Release, owners, requests
      <4> QED
        BY <2>5, <4>2 DEF MutexesOf!Next
    <3> QED
      BY <3>4, <3>5
  <2>6. CASE on[t] \notin M
    <3>1. SameOwners
      BY <2>1, <2>3, <2>6
    <3>2. \A u \in Threads : Wants(u)' = Wants(u) \/ {Wants(u), Wants(u)'} \intersect M = {}
      BY <1>0, <2>4, <2>6
    <3> QED
      BY <1>1, <1>2, <3>1, <3>2
  <2> QED
    BY <2>5, <2>6
<1>10. ASSUME UNCHANGED <<on, handed, unparking>>, pc' = [pc EXCEPT ![t] = pc'[t]],
              \/ pc'[t] = pc[t]
              \/ {pc[t], pc'[t]} \subseteq {"fast", "loop", "park", "reload"}
              \/ {pc[t], pc'[t]} \subseteq {"held", "unlock"}
              \/ {pc[t], pc'[t]} \subseteq {"idle", "wake"}
       PROVE  Stutters
  <2>1. SameOwners
    <3> SUFFICES ASSUME NEW u \in Threads, NEW m \in Addrs
                 PROVE  Owns(u, m)' <=> Owns(u, m)
      BY <1>0
    <3> QED
      BY <1>10 DEF Owns, HandedOver
  <2>2. SameOthers /\ Wants(t)' = Wants(t)
    <3> SUFFICES ASSUME NEW u \in Threads
                 PROVE  Wants(u)' = Wants(u)
      OBVIOUS
    <3> QED
      BY <1>10 DEF Wants, Asked, HandedOver
  <2> QED
    BY <1>1, <1>2, <2>1, <2>2
<1>11. CASE FastPath(t)
  <2>0. pc[t] = "fast" /\ UNCHANGED lotVars
    BY <1>11 DEF FastPath
  <2>1. pc[t] = "fast" /\ on[t] \in Addrs /\ UNCHANGED lotVars
    BY <1>4, <2>0 DEF CallInv
  <2>2. CASE Return(t, "idle") /\ UNCHANGED word
    <3>1. SameOwners
      BY <2>1, <2>2 DEF Owns, HandedOver
    <3>2. SameOthers /\ Wants(t)' = NULL /\ Wants(t) = on[t]
      BY <2>1, <2>2 DEF Wants, Asked, HandedOver
    <3> QED
      BY <1>7, <2>1, <3>1, <3>2
  <2>3. CASE Goto(t, "loop") /\ UNCHANGED <<on, handed>>
    BY <1>10, <2>1, <2>3
  <2> QED
    BY <1>6, <1>11, <2>1, <2>2, <2>3 DEF FastPath
<1>12. CASE TryGrab(t)
  <2>1. pc[t] = "loop" /\ UNCHANGED lotVars
    BY <1>12 DEF TryGrab
  <2>2. CASE UNCHANGED <<pc, on, handed>>
    BY <1>10, <2>1, <2>2
  <2> QED
    BY <1>6, <1>12, <2>1, <2>2 DEF TryGrab
<1>13. CASE Spin(t) \/ Age(t)
  BY <1>10, <1>13 DEF Spin, Age
<1>14. CASE GiveUp(t)
  <2>1. pc[t] = "loop" /\ on[t] \in Addrs /\ Return(t, "idle") /\ UNCHANGED lotVars
    BY <1>14 DEF GiveUp, Blocked, CallInv
  <2>2. SameOwners
    BY <2>1 DEF Owns, HandedOver
  <2>3. SameOthers /\ Wants(t)' = NULL /\ Wants(t) = on[t]
    BY <2>1 DEF Wants, Asked, HandedOver
  <2> QED
    BY <1>7, <2>1, <2>2, <2>3
<1>15. CASE SetParked(t)
  BY <1>10, <1>15 DEF SetParked, Blocked
<1>16. CASE Park(t)
  <2>0. pc[t] = "park" /\ UNCHANGED <<on, handed>>
    BY <1>16 DEF Park
  <2>1. pc[t] = "park" /\ on[t] \in Addrs /\ UNCHANGED <<on, handed>>
    BY <1>4, <2>0 DEF CallInv
  <2>2. CASE Enqueue(t, on[t]) /\ Goto(t, "parked")
    <3>1. SameOwners
      BY <2>1, <2>2 DEF Enqueue, EntryIn, Owns, HandedOver
    <3>2. SameOthers /\ Wants(t)' = Wants(t)
      BY <2>1, <2>2 DEF Enqueue, EntryIn, Wants, Asked, HandedOver
    <3> QED
      BY <1>1, <1>2, <3>1, <3>2
  <2>3. CASE UNCHANGED lotVars /\ Goto(t, "reload")
    BY <1>10, <2>1, <2>3
  <2> QED
    BY <1>16, <2>2, <2>3 DEF Park
<1>17. CASE Woken(t)
  <2>1. unparking[t] /\ pc[t] = "parked"
    BY <1>17 DEF Woken, ParkOK, EntryInv
  <2>2. SameOwners
    <3> SUFFICES ASSUME NEW u \in Threads, NEW m \in Addrs
                 PROVE  Owns(u, m)' <=> Owns(u, m)
      OBVIOUS
    <3>1. CASE u # t
      BY <1>17, <3>1 DEF Woken, ParkOK, EntryOut, Owns, HandedOver
    <3>2. CASE u = t
      BY <1>17, <2>1, <3>2 DEF Woken, Owns, HandedOver
    <3> QED
      BY <3>1, <3>2
  <2>3. SameOthers
    BY <1>17 DEF Woken, ParkOK, EntryOut, Wants, Asked, HandedOver
  <2>4. Wants(t)' = Wants(t)
    BY <1>17, <2>1 DEF Woken, Wants, Asked, HandedOver
  <2> QED
    BY <1>1, <1>2, <2>2, <2>3, <2>4
<1>18. CASE Drain(t) \/ Expire(t)
  BY <1>10, <1>18 DEF Drain, Expire, MustDrain, WaitExpires, mutexVars
<1>19. CASE ParkFails(t)
  <2>1. pc[t] = "parked" /\ ~ unparking[t] /\ on[t] \in Addrs
    BY <1>19 DEF ParkFails, Withdraw, CallInv
  <2>2. SameOwners
    BY <1>19, <2>1 DEF ParkFails, Withdraw, EntryOut, Owns, HandedOver
  <2>3. SameOthers /\ Wants(t) = on[t]
    BY <1>19, <2>1 DEF ParkFails, Withdraw, EntryOut, Wants, Asked, HandedOver
  <2>4. CASE Return(t, "idle")
    <3>1. Wants(t)' = NULL
      BY <2>4 DEF Wants, Asked
    <3> QED
      BY <1>7, <2>1, <2>2, <2>3, <3>1
  <2>5. CASE Goto(t, "reload") /\ UNCHANGED on
    <3>1. Wants(t)' = Wants(t)
      BY <2>3, <2>5 DEF Wants, Asked, HandedOver
    <3> QED
      BY <1>1, <1>2, <2>2, <2>3, <3>1
  <2> QED
    BY <1>19, <2>4, <2>5 DEF ParkFails
<1>20. CASE Reload(t)
  BY <1>10, <1>20 DEF Reload
<1>21. ASSUME pc[t] \in {"held", "unlock"}, SeeLocked(t), on[t] \in Addrs, ~ word[on[t]].locked,
              UNCHANGED <<lotVars, on, handed>>
       PROVE  Goal
  <2>1. on[t] \notin M
    BY <1>21, OwnerLocked
  <2>2. SameOwners
    BY <1>21, <2>1 DEF SeeLocked, Owns, HandedOver
  <2>3. \A u \in Threads : Wants(u)' = Wants(u)
    BY <1>21 DEF SeeLocked, Wants, Asked, HandedOver
  <2> QED
    BY <1>1, <1>2, <2>2, <2>3
<1>22. CASE Unlock(t) \/ UnlockFast(t)
  <2>1. pc[t] \in {"held", "unlock"} /\ UNCHANGED lotVars /\ on[t] \in Addrs
    BY <1>22 DEF Unlock, UnlockFast, CallInv
  <2>2. CASE SeeLocked(t) /\ UNCHANGED <<on, handed>>
    <3>1. CASE word[on[t]].locked
      BY <1>10, <2>1, <2>2, <3>1 DEF SeeLocked
    <3>2. CASE ~ word[on[t]].locked
      BY <1>21, <2>1, <2>2, <3>2
    <3> QED
      BY <3>1, <3>2
  <2> QED
    BY <1>8, <1>22, <2>1, <2>2 DEF Unlock, UnlockFast
<1>23. CASE Unpark(t)
  BY <1>8, <1>9, <1>23 DEF Unpark
<1>24. CASE Wake(t)
  BY <1>10, <1>24 DEF Wake, Wakeup
<1> QED
  BY <1>5, <1>11, <1>12, <1>13, <1>14, <1>15, <1>16, <1>17, <1>18, <1>19, <1>20,
     <1>21, <1>22, <1>23, <1>24 DEF Act, Step

(* What is done to a threading.Lock is no step of the other mutexes.       *)
LEMMA StrangerImplements ==
  ASSUME NEW t \in Threads, WaitInv, NEW M \in SUBSET (Addrs \ Locks),
         \A m \in M : Exclusive(m) /\ Exclusive(m)',
         AcquireReturns(t) \/ TryUnlock(t) \/ \E m \in Addrs : ReleaseCalled(t, m)
  PROVE  UNCHANGED <<owners(M), requests(M)>>
<1>1. \A u \in Threads, m \in M : Owns(u, m)' <=> Owns(u, m)
  BY StrangerOwners
<1>2. \A u \in Threads : Wants(u)' = Wants(u)
  BY StrangerOwners
<1>3. \A m \in M : Owner(m)' = Owner(m)
  BY <1>1, OwnerChanges
<1> QED
  BY <1>2, <1>3 DEF owners, requests

(* Initially nobody has or wants a mutex.                                  *)
LEMMA InitImplements ==
  ASSUME Init
  PROVE  (\A t \in Threads : Wants(t) = NULL) /\ \A m \in Addrs : Owner(m) = NULL
<1>1. \A t \in Threads : Wants(t) = NULL
  BY DEF Init, Wants, Asked, Locking
<1>2. \A m \in Addrs : Owner(m) = NULL
  BY DEF Init, Owner, Owns, HandedOver
<1> QED
  BY <1>1, <1>2

(* Whether the runtime finalizes does not matter to who has or wants what. *)
LEMMA QuietImplements ==
  ASSUME NEW M, UNCHANGED <<lotVars, pc, on, handed>>
  PROVE  UNCHANGED <<owners(M), requests(M)>>
BY DEF owners, requests, Owner, Owns, Wants, Asked, HandedOver, lotVars

(* The byte, the parking lot and the hand-off implement MutexSpec.         *)
THEOREM Implements == Spec => ImplementsMutex
<1>1. Init => Mutex!Init
  BY InitImplements, ParkingLotAssumption DEF owners, requests, Mutex!Init
<1>2. ASSUME Inv, Inv', [Next]_vars
      PROVE  MutexesOf(Addrs)!Next \/ UNCHANGED <<owners(Addrs), requests(Addrs)>>
  <2>1. ASSUME NEW t \in Threads, Act(t)
        PROVE  MutexesOf(Addrs)!Next \/ UNCHANGED <<owners(Addrs), requests(Addrs)>>
    <3>1. WaitInv /\ \A m \in Addrs : Exclusive(m) /\ Exclusive(m)'
      BY <1>2 DEF Inv, MutualExclusion
    <3> QED
      BY <2>1, <3>1, StepImplements
  <2>2. CASE UNCHANGED <<lotVars, pc, on, handed>>
    BY <2>2, QuietImplements
  <2> QED
    BY <1>2, <2>1, <2>2 DEF Next, Act, Finalize, vars, mutexVars
<1>3. MutexesOf(Addrs)!Next => Mutex!Next
  BY DEF MutexesOf!Next, MutexesOf!Ask, MutexesOf!Take, MutexesOf!GiveUp, MutexesOf!Release,
       MutexesOf!Pass,
       Mutex!Next, Mutex!Ask, Mutex!Take, Mutex!GiveUp, Mutex!Release, Mutex!Pass
<1>4. Inv /\ Inv' /\ [Next]_vars => [Mutex!Next]_<<owners(Addrs), requests(Addrs)>>
  BY <1>2, <1>3
<1> QED
  BY <1>1, <1>4, Invariance, PTL DEF Spec, ImplementsMutex, Mutex!Spec

-----------------------------------------------------------------------------
(* threading.Lock                                                          *)

(* Every step keeps the invariant although anybody may release a lock.     *)
LEMMA LockNextInv ==
  ASSUME LockInv, [LockNext]_vars
  PROVE  LockInv'
<1> USE DEF LockInv, MutexesUndisturbed
<1>1. ASSUME NEW t \in Threads, LockStep(t) PROVE LockInv'
  <2>1. LockAct(t)
    BY <1>1 DEF LockStep, Acquiring, Releasing, LockAct, Act, Step
  <2>2. ASSUME NEW a \in Addrs \ Locks PROVE Exclusive(a)'
    BY <1>1, <2>1, <2>2, StepExclusive, StrangerExclusive DEF LockAct
  <2>3. WaitInv'
    BY <2>1, StepWait
  <2>4. (Unlock(t) \/ UnlockFast(t)) /\ on[t] \notin Locks => Exclusive(on[t])
    BY OwnerLocked DEF Unlock, UnlockFast
  <2>5. NeverFatal'
    BY <1>1, <2>4, StepNeverFatal DEF Harmless, LockStep, Acquiring, Releasing
  <2> QED
    BY <2>2, <2>3, <2>5

<1>2. CASE Finalize
  BY <1>2, QuietStep DEF Finalize
<1>3. CASE UNCHANGED vars
  <2>1. finalizing' \in BOOLEAN
    BY <1>3 DEF vars, mutexVars, WaitInv, TypeOK
  <2> QED
    BY <1>3, <2>1, QuietStep DEF vars, mutexVars
<1> QED
  BY <1>1, <1>2, <1>3 DEF LockNext

(* The invariant of threading.Lock holds in every reachable state.         *)
THEOREM LockInvariance == LockSpec => []LockInv
<1>1. Init => LockInv
  BY InitInv
<1>2. LockInv /\ [LockNext]_vars => LockInv'
  BY LockNextInv
<1> QED
  BY <1>1, <1>2, PTL DEF LockSpec

(* No release of a lock, by whoever and however often, loses a wakeup.     *)
THEOREM LockNoLostWakeup == LockSpec => []NoLostWakeup
<1>1. LockInv => NoLostWakeup
  BY DEF LockInv, WaitInv
<1> QED
  BY <1>1, LockInvariance, PTL

(* The byte of a lock announces its waiters, whoever releases it.          *)
THEOREM LockWaitersAnnounced == LockSpec => []WaitersAnnounced
<1>1. LockInv => WaitersAnnounced
  BY DEF LockInv, WaitInv
<1> QED
  BY <1>1, LockInvariance, PTL

(* Threads that release one lock at once wake different waiters, which are *)
(* still in Park.                                                          *)
THEOREM LockEntriesAlive == LockSpec => []EntriesAlive
<1>1. LockInv => EntriesAlive
  BY DEF LockInv, WaitInv
<1> QED
  BY <1>1, LockInvariance, PTL

(* The lists hold exactly the waiters nobody dequeued, whoever releases.   *)
THEOREM LockQueuesExact == LockSpec => []QueuesExact
<1>1. LockInv => QueuesExact
  BY DEF LockInv, WaitInv
<1> QED
  BY <1>1, LockInvariance, PTL

(* The mutexes of the interpreter stay exclusive beside locks that anybody *)
(* releases, in the same buckets.                                          *)
THEOREM MutexesUndisturbedHolds == LockSpec => []MutexesUndisturbed
<1>1. LockInv => MutexesUndisturbed
  BY DEF LockInv
<1> QED
  BY <1>1, LockInvariance, PTL

(* The mutexes of the interpreter implement MutexSpec beside such locks.   *)
THEOREM LockImplements == LockSpec => ImplementsMutexes
<1> DEFINE M == Addrs \ Locks
<1>1. Init => NativeMutexes!Init
  BY InitImplements, ParkingLotAssumption DEF owners, requests, NativeMutexes!Init
<1>2. ASSUME LockInv, LockInv', [LockNext]_vars
      PROVE  MutexesOf(M)!Next \/ UNCHANGED <<owners(M), requests(M)>>
  <2>1. WaitInv /\ M \subseteq Addrs /\ \A m \in M : Exclusive(m) /\ Exclusive(m)'
    BY <1>2 DEF LockInv, MutexesUndisturbed
  <2>2. ASSUME NEW t \in Threads, Act(t)
        PROVE  MutexesOf(M)!Next \/ UNCHANGED <<owners(M), requests(M)>>
    BY <2>1, <2>2, StepImplements
  <2>3. ASSUME NEW t \in Threads,
               AcquireReturns(t) \/ TryUnlock(t) \/ \E m \in Addrs : ReleaseCalled(t, m)
        PROVE  UNCHANGED <<owners(M), requests(M)>>
    BY <2>1, <2>3, StrangerImplements
  <2>4. CASE UNCHANGED <<lotVars, pc, on, handed>>
    BY <2>4, QuietImplements
  <2> QED
    BY <1>2, <2>2, <2>3, <2>4 DEF LockNext, LockStep, Acquiring, Releasing, Act, Step, Finalize,
       vars, mutexVars
<1>3. MutexesOf(M)!Next => NativeMutexes!Next
  BY DEF MutexesOf!Next, MutexesOf!Ask, MutexesOf!Take, MutexesOf!GiveUp, MutexesOf!Release,
       MutexesOf!Pass,
       NativeMutexes!Next, NativeMutexes!Ask, NativeMutexes!Take, NativeMutexes!GiveUp,
       NativeMutexes!Release, NativeMutexes!Pass
<1>4. LockInv /\ LockInv' /\ [LockNext]_vars => [NativeMutexes!Next]_<<owners(M), requests(M)>>
  BY <1>2, <1>3
<1> QED
  BY <1>1, <1>4, LockInvariance, PTL DEF LockSpec, ImplementsMutexes, NativeMutexes!Spec
=============================================================================
