------------------------ MODULE LockPrimitivesProofs ------------------------
(***************************************************************************)
(* The safety properties of the event, the once flag, the RW mutex and the *)
(* recursive mutex over the parking lot, for every finite set of threads,  *)
(* every set of addresses and every hashing of them into buckets.          *)
(***************************************************************************)
EXTENDS LockPrimitives, SequenceTheorems, FiniteSetTheorems, TLAPS

(* Appending a new element keeps a sequence free of repetitions.           *)
LEMMA AppendFacts ==
  ASSUME NEW S, NEW q \in Seq(S), NEW e \in S, IsInjective(q),
         \A i \in DOMAIN q : q[i] # e
  PROVE  /\ Append(q, e) \in Seq(S)
         /\ IsInjective(Append(q, e))
         /\ ToSet(Append(q, e)) = ToSet(q) \union {e}
<1> DEFINE r == Append(q, e)
<1>1. r \in Seq(S) /\ Len(r) = Len(q) + 1 /\ Len(q) \in Nat
  OBVIOUS
<1>2. DOMAIN r = 1 .. Len(q) + 1 /\ DOMAIN q = 1 .. Len(q)
  BY <1>1
<1>3. \A i \in 1 .. Len(q) : r[i] = q[i]
  OBVIOUS
<1>4. r[Len(q) + 1] = e
  OBVIOUS
<1> HIDE DEF r
<1>5. IsInjective(r)
  BY <1>1, <1>2, <1>3, <1>4 DEF IsInjective
<1>6. ToSet(r) = ToSet(q) \union {e}
  <2>1. \A u : (\E i \in DOMAIN r : r[i] = u) <=> (\E i \in DOMAIN q : q[i] = u) \/ u = e
    BY <1>1, <1>2, <1>3, <1>4
  <2> QED
    BY <2>1 DEF ToSet
<1> QED
  BY <1>1, <1>5, <1>6 DEF r

(* So does removing one, which then is gone and the others are left.       *)
LEMMA RemoveFacts ==
  ASSUME NEW S, NEW q \in Seq(S), NEW k \in DOMAIN q, IsInjective(q)
  PROVE  /\ RemoveAt(q, k) \in Seq(S)
         /\ IsInjective(RemoveAt(q, k))
         /\ ToSet(RemoveAt(q, k)) = ToSet(q) \ {q[k]}
<1> DEFINE r == RemoveAt(q, k)
           n == Len(q)
<1>1. n \in Nat /\ k \in 1 .. n /\ DOMAIN q = 1 .. n
  OBVIOUS
<1>2. /\ SubSeq(q, 1, k - 1) \in Seq(S) /\ Len(SubSeq(q, 1, k - 1)) = k - 1
      /\ \A i \in 1 .. k - 1 : SubSeq(q, 1, k - 1)[i] = q[i]
  BY <1>1
<1>3. /\ SubSeq(q, k + 1, n) \in Seq(S) /\ Len(SubSeq(q, k + 1, n)) = n - k
      /\ \A i \in 1 .. n - k : SubSeq(q, k + 1, n)[i] = q[i + k]
  BY <1>1, SMTT(30)
<1> DEFINE front == SubSeq(q, 1, k - 1)
           back  == SubSeq(q, k + 1, n)
<1>a. r = front \o back
  BY DEF RemoveAt
<1>b. /\ front \in Seq(S) /\ back \in Seq(S) /\ Len(front) = k - 1 /\ Len(back) = n - k
      /\ \A j \in 1 .. k - 1 : front[j] = q[j]
      /\ \A j \in 1 .. n - k : back[j] = q[j + k]
  BY <1>2, <1>3
<1> HIDE DEF front, back, r
<1>c. /\ r \in Seq(S) /\ Len(r) = Len(front) + Len(back)
      /\ \A i \in 1 .. Len(front) + Len(back) :
           r[i] = IF i <= Len(front) THEN front[i] ELSE back[i - Len(front)]
  <2>1. /\ front \o back \in Seq(S) /\ Len(front \o back) = Len(front) + Len(back)
        /\ \A i \in 1 .. Len(front) + Len(back) :
             (front \o back)[i] = IF i <= Len(front) THEN front[i] ELSE back[i - Len(front)]
    BY <1>b, ConcatProperties
  <2> QED
    BY <1>a, <2>1
<1>4. r \in Seq(S) /\ Len(r) = n - 1
  BY <1>1, <1>b, <1>c
<1>5. \A i \in 1 .. n - 1 : r[i] = IF i < k THEN q[i] ELSE q[i + 1]
  <2> SUFFICES ASSUME NEW i \in 1 .. n - 1
               PROVE  r[i] = IF i < k THEN q[i] ELSE q[i + 1]
    OBVIOUS
  <2>1. i \in 1 .. Len(front) + Len(back)
    BY <1>1, <1>b
  <2>2. CASE i < k
    <3>1. i <= Len(front) /\ i \in 1 .. k - 1
      BY <2>2, <1>1, <1>b
    <3> QED
      BY <2>1, <2>2, <3>1, <1>b, <1>c
  <2>3. CASE ~ (i < k)
    <3>1. ~ (i <= Len(front)) /\ i - Len(front) \in 1 .. n - k /\ (i - Len(front)) + k = i + 1
      BY <2>3, <1>1, <1>b
    <3> QED
      BY <2>1, <2>3, <3>1, <1>b, <1>c
  <2> QED
    BY <2>2, <2>3
<1>6. DOMAIN r = 1 .. n - 1
  BY <1>4
<1>7. IsInjective(r)
  <2> SUFFICES ASSUME NEW i \in 1 .. n - 1, NEW j \in 1 .. n - 1, r[i] = r[j]
               PROVE  i = j
    BY <1>6 DEF IsInjective
  <2> DEFINE old(x) == IF x < k THEN x ELSE x + 1
  <2>1. old(i) \in 1 .. n /\ old(j) \in 1 .. n /\ q[old(i)] = q[old(j)]
    BY <1>1, <1>5
  <2>2. old(i) = old(j)
    BY <2>1, <1>1 DEF IsInjective
  <2> QED
    BY <2>2, <1>1
<1>8. ASSUME NEW u PROVE (\E i \in DOMAIN r : r[i] = u) => (\E i \in DOMAIN q : q[i] = u) /\ u # q[k]
  <2> SUFFICES ASSUME NEW i \in 1 .. n - 1, r[i] = u
               PROVE  (\E j \in 1 .. n : q[j] = u) /\ u # q[k]
    BY <1>1, <1>6
  <2>1. CASE i < k
    BY <2>1, <1>1, <1>5 DEF IsInjective
  <2>2. CASE ~ (i < k)
    <3>1. i + 1 \in 1 .. n /\ i + 1 # k /\ r[i] = q[i + 1]
      BY <2>2, <1>1, <1>5
    <3> QED
      BY <3>1, <1>1 DEF IsInjective
  <2> QED
    BY <2>1, <2>2
<1>9. ASSUME NEW j \in DOMAIN q, q[j] # q[k] PROVE \E i \in DOMAIN r : r[i] = q[j]
  <2>1. CASE j < k
    <3>1. j \in 1 .. n - 1 /\ r[j] = q[j]
      BY <2>1, <1>1, <1>5
    <3> QED
      BY <3>1, <1>6
  <2>2. CASE j > k
    <3>1. j - 1 \in 1 .. n - 1 /\ r[j - 1] = q[j - 1 + 1]
      BY <2>2, <1>1, <1>5
    <3>2. j - 1 + 1 = j
      BY <1>1
    <3> QED
      BY <3>1, <3>2, <1>6
  <2> QED
    BY <2>1, <2>2, <1>1, <1>9
<1>10. ToSet(r) = ToSet(q) \ {q[k]}
  <2>1. ASSUME NEW u \in ToSet(r) PROVE u \in ToSet(q) \ {q[k]}
    <3>1. \E i \in DOMAIN r : r[i] = u
      BY DEF ToSet
    <3>2. (\E i \in DOMAIN q : q[i] = u) /\ u # q[k]
      BY <3>1, <1>8
    <3> QED
      BY <3>2 DEF ToSet
  <2>2. ASSUME NEW u \in ToSet(q) \ {q[k]} PROVE u \in ToSet(r)
    <3>1. PICK j \in DOMAIN q : q[j] = u
      BY DEF ToSet
    <3>2. \E i \in DOMAIN r : r[i] = u
      BY <3>1, <1>9
    <3> QED
      BY <3>2 DEF ToSet
  <2> QED
    BY <2>1, <2>2
<1> QED
  BY <1>4, <1>7, <1>10 DEF r

(* Among takes the elements of a sequence that are in a set, each once.    *)
LEMMA AmongFacts ==
  ASSUME NEW S, NEW q \in Seq(S), IsInjective(q), NEW A
  PROVE  /\ Among(q, A) \in Seq(S)
         /\ IsInjective(Among(q, A))
         /\ ToSet(Among(q, A)) = ToSet(q) \intersect A
<1> DEFINE n == Len(q)
           Upto(i) == {j \in 1 .. i : q[j] \in A}
           rank(i) == Cardinality(Upto(i))
           I == Upto(n)
           m == rank(n)
           r == [k \in 1 .. m |-> q[CHOOSE i \in DOMAIN q : q[i] \in A /\ rank(i) = k]]
<1>1. n \in Nat /\ DOMAIN q = 1 .. n /\ \A i \in 1 .. n : q[i] \in S
  OBVIOUS
<1>2. Among(q, A) = r
  BY DEF Among
<1>a. /\ \A i, j : j \in Upto(i) <=> j \in 1 .. i /\ q[j] \in A
      /\ I = Upto(n) /\ m = Cardinality(I) /\ \A i : rank(i) = Cardinality(Upto(i))
  OBVIOUS
<1>b. \A i : i \in I <=> i \in 1 .. n /\ q[i] \in A
  OBVIOUS
<1> HIDE DEF Upto, rank, I, m
<1>3. ASSUME NEW i \in 0 .. n
      PROVE  IsFiniteSet(Upto(i)) /\ rank(i) \in Nat /\ Upto(i) \subseteq I
  <2>1. IsFiniteSet(1 .. i) /\ Upto(i) \subseteq 1 .. i
    BY <1>1, <1>a, FS_Interval
  <2>2. IsFiniteSet(Upto(i))
    BY <2>1, FS_Subset
  <2>3. rank(i) \in Nat
    BY <2>2, <1>a, FS_CardinalityType
  <2>4. Upto(i) \subseteq I
    BY <1>1, <1>a, <1>b
  <2> QED
    BY <2>2, <2>3, <2>4
<1>4. IsFiniteSet(I) /\ m \in Nat /\ Cardinality(I) = m
  BY <1>1, <1>3, <1>a, FS_CardinalityType
<1>5. ASSUME NEW i \in I, NEW j \in I, i < j
      PROVE  rank(i) < rank(j)
  <2>0. i \in 1 .. n /\ j \in 1 .. n /\ q[j] \in A
    BY <1>b
  <2>1. i \in 1 .. n /\ j \in 1 .. n /\ j \in Upto(j) /\ Upto(i) \subseteq Upto(j) \ {j}
    <3>1. j \in 1 .. j /\ 1 .. i \subseteq (1 .. j) \ {j}
      BY <2>0, <1>1, <1>5
    <3> QED
      BY <2>0, <3>1, <1>a
  <2>2. IsFiniteSet(Upto(j)) /\ rank(j) \in Nat /\ rank(i) \in Nat
    BY <2>1, <1>1, <1>3
  <2>3. IsFiniteSet(Upto(j) \ {j}) /\ Cardinality(Upto(j) \ {j}) = rank(j) - 1
    BY <2>1, <2>2, <1>a, FS_RemoveElement
  <2>4. rank(i) <= Cardinality(Upto(j) \ {j})
    BY <2>1, <2>3, <1>a, FS_Subset
  <2> QED
    BY <2>2, <2>3, <2>4
<1>6. \A i \in I : rank(i) \in 1 .. m
  <2> SUFFICES ASSUME NEW i \in I PROVE rank(i) \in 1 .. m
    OBVIOUS
  <2>1. i \in 1 .. n /\ i \in Upto(i)
    BY <1>1, <1>a, <1>b
  <2>2. IsFiniteSet(Upto(i)) /\ rank(i) \in Nat /\ Upto(i) \subseteq I
    BY <2>1, <1>1, <1>3
  <2>3. rank(i) # 0
    BY <2>1, <2>2, <1>a, FS_EmptySet
  <2>4. rank(i) <= Cardinality(I)
    BY <2>2, <1>4, <1>a, FS_Subset
  <2> QED
    BY <2>2, <2>3, <2>4, <1>4
<1>7. \A k \in 1 .. m : \E i \in I : rank(i) = k
  <2> DEFINE f == [i \in I |-> rank(i)]
  <2>1. f \in [I -> 1 .. m]
    BY <1>6
  <2>2. \A i, j \in I : rank(i) = rank(j) => i = j
    <3> SUFFICES ASSUME NEW i \in I, NEW j \in I, rank(i) = rank(j) PROVE i = j
      OBVIOUS
    <3>1. i \in 1 .. n /\ j \in 1 .. n
      BY <1>b
    <3>2. rank(i) \in Nat /\ ~ (rank(i) < rank(j)) /\ ~ (rank(j) < rank(i))
      BY <1>6, <1>4
    <3>3. ~ (i < j) /\ ~ (j < i)
      BY <1>5, <3>2
    <3> QED
      BY <3>1, <3>3, <1>1
  <2>3. \A i \in I : f[i] = rank(i)
    OBVIOUS
  <2> HIDE DEF f
  <2>4. f \in Injection(I, 1 .. m)
    BY <2>1, <2>2, <2>3 DEF Injection, IsInjective
  <2>5. IsFiniteSet(1 .. m) /\ Cardinality(1 .. m) = m
    BY <1>4, FS_Interval
  <2>6. f \in Surjection(I, 1 .. m)
    BY <2>4, <2>5, <1>4, FS_Injection
  <2> QED
    BY <2>6, <2>3 DEF Surjection
<1> DEFINE pick(k) == CHOOSE i \in DOMAIN q : q[i] \in A /\ rank(i) = k
<1>8. \A i : i \in I <=> i \in DOMAIN q /\ q[i] \in A
  BY <1>1, <1>b
<1>9. \A k \in 1 .. m : pick(k) \in I /\ rank(pick(k)) = k /\ r[k] = q[pick(k)]
  BY <1>7, <1>8
<1>10. DOMAIN r = 1 .. m /\ \A k \in 1 .. m : pick(k) \in DOMAIN q /\ q[pick(k)] \in A
  BY <1>8, <1>9 DEF r
<1> HIDE DEF pick, r
<1>11. r \in Seq(S)
  <2>1. r = [k \in 1 .. m |-> r[k]] /\ \A k \in 1 .. m : r[k] \in S
    BY <1>1, <1>9, <1>10 DEF r
  <2> QED
    BY <2>1, <1>4
<1>12. IsInjective(r)
  BY <1>8, <1>9, <1>10 DEF IsInjective
<1>13. \A i \in I : \E k \in 1 .. m : pick(k) = i
  <2> SUFFICES ASSUME NEW i \in I PROVE pick(rank(i)) = i
    BY <1>6
  <2>1. rank(i) \in 1 .. m /\ rank(pick(rank(i))) = rank(i) /\ pick(rank(i)) \in I
    BY <1>6, <1>9
  <2>2. i \in Nat /\ pick(rank(i)) \in Nat /\ rank(i) \in Nat
    BY <2>1, <1>1, <1>4, <1>8
  <2> QED
    BY <2>1, <2>2, <1>5
<1>14. ToSet(r) = ToSet(q) \intersect A
  <2>1. ASSUME NEW u \in ToSet(r) PROVE u \in ToSet(q) \intersect A
    BY <1>9, <1>10 DEF ToSet
  <2>2. ASSUME NEW u \in ToSet(q) \intersect A PROVE u \in ToSet(r)
    <3>1. PICK i \in DOMAIN q : q[i] = u
      BY DEF ToSet
    <3>2. PICK k \in 1 .. m : pick(k) = i
      BY <3>1, <1>8, <1>13
    <3>3. r[k] = u
      BY <3>1, <3>2, <1>9
    <3> QED
      BY <3>3, <1>10 DEF ToSet
  <2> QED
    BY <2>1, <2>2
<1> QED
  BY <1>2, <1>11, <1>12, <1>14

-----------------------------------------------------------------------------
(* The queues of the parking lot.                                          *)

(* Thread u has an entry in the list of bucket b.                          *)
In(b, u) == \E i \in DOMAIN queue[b] : queue[b][i] = u

(* Thread u is in Park, on an address of bucket b, and not dequeued.       *)
WaitsIn(b, u) ==
  /\ at[u] # NULL /\ Bucket[at[u]] = b
  /\ park[u] \in {"waiting"} \union Expired /\ ~ unparking[u]

(* QueuesExact, bucket by bucket.                                          *)
Exact ==
  /\ \A b \in Buckets : IsInjective(queue[b])
  /\ \A b \in Buckets, u \in Threads : In(b, u) <=> WaitsIn(b, u)

(* QueuesExact says that each bucket holds who waits in it.                *)
LEMMA ExactForm ==
  ASSUME LotTypeOK, QueuesExact
  PROVE  Exact
<1> USE ParkingLotAssumption DEF LotTypeOK
<1>1. ASSUME NEW b \in Buckets, NEW u \in Threads
      PROVE  In(b, u) <=> WaitsIn(b, u)
  <2>1. In(b, u) => at[u] # NULL /\ Bucket[at[u]] = b
    BY DEF In, QueuesExact
  <2>2. In(b, u) => Queued(u)
    BY <2>1 DEF In, Queued
  <2>3. Queued(u) => at[u] # NULL /\ In(Bucket[at[u]], u)
    BY DEF Queued, In
  <2>4. Queued(u) <=> park[u] \in {"waiting"} \union Expired /\ ~ unparking[u]
    BY DEF QueuesExact
  <2> QED
    BY <2>1, <2>2, <2>3, <2>4 DEF WaitsIn
<1> QED
  BY <1>1 DEF Exact, QueuesExact

(* And the other way round, in the state after a step.                     *)
LEMMA ExactFormNext ==
  ASSUME LotTypeOK', Exact', \A u \in Threads : park[u]' # "out" => at[u]' # NULL
  PROVE  QueuesExact'
<1> USE ParkingLotAssumption DEF LotTypeOK
<1>1. ASSUME NEW b \in Buckets, NEW i \in DOMAIN queue'[b]
      PROVE  at'[queue'[b][i]] # NULL /\ Bucket[at'[queue'[b][i]]] = b
  <2>1. queue'[b][i] \in Threads
    OBVIOUS
  <2>2. ASSUME NEW u \in Threads, u = queue'[b][i]
        PROVE  at'[u] # NULL /\ Bucket[at'[u]] = b
    <3>1. In(b, u)'
      BY <2>2 DEF In
    <3> QED
      BY <3>1 DEF Exact, WaitsIn
  <2> QED
    BY <2>1, <2>2
<1>2. ASSUME NEW u \in Threads
      PROVE  Queued(u)' <=> park'[u] \in {"waiting"} \union Expired /\ ~ unparking'[u]
  <2>1. CASE at'[u] = NULL
    BY <2>1 DEF Queued, Expired
  <2>2. CASE at'[u] # NULL
    <3>1. PICK b \in Buckets : b = Bucket[at'[u]]
      BY <2>2
    <3>2. Queued(u)' <=> In(b, u)'
      BY <3>1, <2>2 DEF Queued, In
    <3>3. In(b, u)' <=> WaitsIn(b, u)'
      BY DEF Exact
    <3> QED
      BY <3>1, <3>2, <3>3, <2>2 DEF WaitsIn
  <2> QED
    BY <2>1, <2>2
<1> QED
  BY <1>1, <1>2 DEF QueuesExact, Exact

(* A thread is queued where its entry says it waits.                       *)
LEMMA QueuedForm ==
  ASSUME LotTypeOK, QueuesExact, NEW u \in Threads
  PROVE  Queued(u) <=> park[u] \in {"waiting"} \union Expired /\ ~ unparking[u]
BY DEF QueuesExact

(* Park enqueues a thread that has no entry yet.                           *)
LEMMA EnqueueStep ==
  ASSUME LotTypeOK, QueuesExact, NEW t \in Threads, NEW a \in Addrs,
         \A u \in Threads : park[u] # "out" => at[u] # NULL,
         park[t] = "out", at[t] = NULL, Enqueue(t, a)
  PROVE  LotTypeOK' /\ QueuesExact'
<1> USE ParkingLotAssumption
<1> DEFINE B == Bucket[a]
<1>1. Exact
  BY ExactForm
<1>2. B \in Buckets /\ queue[B] \in Seq(Threads) /\ IsInjective(queue[B])
  BY <1>1 DEF LotTypeOK, Exact
<1>3. \A i \in DOMAIN queue[B] : queue[B][i] # t
  BY <1>1, <1>2 DEF Exact, In, WaitsIn
<1>4. queue' = [queue EXCEPT ![B] = Append(@, t)]
  BY DEF Enqueue
<1> HIDE DEF B
<1>5. /\ queue'[B] = Append(queue[B], t)
      /\ \A b \in Buckets : b # B => queue'[b] = queue[b]
  BY <1>2, <1>4 DEF LotTypeOK
<1>6. /\ queue'[B] \in Seq(Threads) /\ IsInjective(queue'[B])
      /\ \A u : In(B, u)' <=> In(B, u) \/ u = t
  <2>1. /\ queue'[B] \in Seq(Threads) /\ IsInjective(queue'[B])
        /\ ToSet(queue'[B]) = ToSet(queue[B]) \union {t}
    BY <1>2, <1>3, <1>5, AppendFacts
  <2>2. \A u : In(B, u) <=> u \in ToSet(queue[B])
    BY DEF In, ToSet
  <2>3. \A u : In(B, u)' <=> u \in ToSet(queue'[B])
    BY DEF In, ToSet
  <2> QED
    BY <2>1, <2>2, <2>3
<1>7. queue' \in [Buckets -> Seq(Threads)]
  BY <1>2, <1>4, <1>5, <1>6 DEF LotTypeOK
<1>8. LotTypeOK'
  BY <1>7 DEF LotTypeOK, Enqueue, EntryIn, Parking
<1>9. \A b \in Buckets : IsInjective(queue'[b])
  BY <1>1, <1>5, <1>6 DEF Exact
<1>10. \A b \in Buckets, u \in Threads : b # B => (In(b, u)' <=> In(b, u))
  BY <1>5 DEF In
<1>11. /\ at'[t] = a /\ park'[t] = "waiting" /\ ~ unparking'[t]
       /\ \A u \in Threads : u # t =>
            at'[u] = at[u] /\ park'[u] = park[u] /\ unparking'[u] = unparking[u]
  BY DEF LotTypeOK, Enqueue, EntryIn
<1>12. \A b \in Buckets, u \in Threads : In(b, u)' <=> WaitsIn(b, u)'
  <2> SUFFICES ASSUME NEW b \in Buckets, NEW u \in Threads
               PROVE  In(b, u)' <=> WaitsIn(b, u)'
    OBVIOUS
  <2>1. CASE u = t
    <3>1. WaitsIn(b, u)' <=> b = B
      BY <2>1, <1>11 DEF WaitsIn, B
    <3>2. ~ In(b, u)
      BY <2>1, <1>1 DEF Exact, WaitsIn
    <3> QED
      BY <3>1, <3>2, <2>1, <1>6, <1>10
  <2>2. CASE u # t
    BY <2>2, <1>1, <1>6, <1>10, <1>11 DEF Exact, WaitsIn
  <2> QED
    BY <2>1, <2>2
<1>13. \A u \in Threads : park'[u] # "out" => at'[u] # NULL
  BY <1>11
<1> QED
  BY <1>8, <1>9, <1>12, <1>13, ExactFormNext DEF Exact

(* Taking the entry of w off its list, when w's entry does not wait any    *)
(* more and the other entries are as before.                               *)
LEMMA RemoveStep ==
  ASSUME LotTypeOK, QueuesExact, NEW b \in Buckets, NEW i \in DOMAIN queue[b],
         NEW w, w = queue[b][i],
         queue' = [queue EXCEPT ![b] = RemoveAt(@, i)],
         park'[w] = "out" \/ unparking'[w],
         \A u \in Threads : u # w =>
           at'[u] = at[u] /\ park'[u] = park[u] /\ unparking'[u] = unparking[u]
  PROVE  w \in Threads /\ In(b, w) /\ queue' \in [Buckets -> Seq(Threads)] /\ Exact'
<1>1. Exact
  BY ExactForm
<1>2. queue[b] \in Seq(Threads) /\ IsInjective(queue[b])
  BY <1>1 DEF LotTypeOK, Exact
<1>3. w \in Threads /\ In(b, w)
  BY <1>2 DEF In
<1>4. /\ queue'[b] = RemoveAt(queue[b], i)
      /\ \A c \in Buckets : c # b => queue'[c] = queue[c]
  BY DEF LotTypeOK
<1>5. /\ queue'[b] \in Seq(Threads) /\ IsInjective(queue'[b])
      /\ \A u : In(b, u)' <=> In(b, u) /\ u # w
  <2>1. /\ queue'[b] \in Seq(Threads) /\ IsInjective(queue'[b])
        /\ ToSet(queue'[b]) = ToSet(queue[b]) \ {w}
    BY <1>2, <1>4, RemoveFacts
  <2>2. \A u : In(b, u) <=> u \in ToSet(queue[b])
    BY DEF In, ToSet
  <2>3. \A u : In(b, u)' <=> u \in ToSet(queue'[b])
    BY DEF In, ToSet
  <2> QED
    BY <2>1, <2>2, <2>3
<1>6. queue' \in [Buckets -> Seq(Threads)]
  BY <1>4, <1>5 DEF LotTypeOK
<1>7. \A c \in Buckets, u \in Threads : c # b => (In(c, u)' <=> In(c, u))
  BY <1>4 DEF In
<1>8. \A c \in Buckets : IsInjective(queue'[c])
  BY <1>1, <1>4, <1>5 DEF Exact
<1>9. \A c \in Buckets, u \in Threads : In(c, u)' <=> WaitsIn(c, u)'
  <2> SUFFICES ASSUME NEW c \in Buckets, NEW u \in Threads
               PROVE  In(c, u)' <=> WaitsIn(c, u)'
    OBVIOUS
  <2>1. CASE u = w
    <3>1. ~ WaitsIn(c, u)'
      BY <2>1 DEF WaitsIn, Expired
    <3>2. In(c, u) => c = b
      BY <2>1, <1>1, <1>3 DEF Exact, WaitsIn
    <3> QED
      BY <3>1, <3>2, <2>1, <1>5, <1>7
  <2>2. CASE u # w
    <3>1. In(c, u)' <=> In(c, u)
      BY <2>2, <1>5, <1>7
    <3>2. WaitsIn(c, u)' <=> WaitsIn(c, u)
      BY <2>2 DEF WaitsIn
    <3> QED
      BY <3>1, <3>2, <1>1 DEF Exact
  <2> QED
    BY <2>1, <2>2
<1> QED
  BY <1>3, <1>6, <1>8, <1>9 DEF Exact

(* What the callers keep true of the entries of the parking lot.           *)
EntriesOK ==
  \A u \in Threads :
    /\ park[u] # "out" => at[u] # NULL
    /\ sema[u] > 0 => unparking[u]

(* A waiter that gives up takes itself off its list.                       *)
LEMMA WithdrawStep ==
  ASSUME LotTypeOK, QueuesExact, EntriesOK, NEW t \in Threads, Withdraw(t)
  PROVE  LotTypeOK' /\ QueuesExact'
<1> USE ParkingLotAssumption DEF LotTypeOK
<1> DEFINE b == Bucket[at[t]]
<1>1. PICK i \in DOMAIN queue[b] :
        queue[b][i] = t /\ queue' = [queue EXCEPT ![b] = RemoveAt(@, i)]
  BY DEF Withdraw
<1>2. b \in Buckets
  BY DEF EntriesOK, Withdraw, Expired
<1>3. /\ park'[t] = "out"
      /\ \A u \in Threads : u # t =>
           at'[u] = at[u] /\ park'[u] = park[u] /\ unparking'[u] = unparking[u]
  BY DEF Withdraw, EntryOut
<1> HIDE DEF b, LotTypeOK
<1>4. queue' \in [Buckets -> Seq(Threads)] /\ Exact'
  BY <1>1, <1>2, <1>3, RemoveStep, ZenonT(60)
<1>5. LotTypeOK'
  BY <1>4 DEF Withdraw, EntryOut, Parking, LotTypeOK
<1>6. \A u \in Threads : park'[u] # "out" => at'[u] # NULL
  BY <1>3 DEF EntriesOK
<1> QED
  BY <1>4, <1>5, <1>6, ExactFormNext

(* The steps that leave the queues alone.                                  *)
LEMMA QueuesSame ==
  ASSUME LotTypeOK, QueuesExact, LotTypeOK', queue' = queue, EntriesOK,
         \A u \in Threads : park'[u] # "out" => at'[u] = at[u] /\ park[u] # "out",
         \A u \in Threads :
           (park'[u] \in {"waiting"} \union Expired /\ ~ unparking'[u])
             <=> (park[u] \in {"waiting"} \union Expired /\ ~ unparking[u])
  PROVE  QueuesExact'
<1>1. Exact
  BY ExactForm
<1>2. \A b \in Buckets, u \in Threads : WaitsIn(b, u)' <=> WaitsIn(b, u)
  BY DEF WaitsIn, EntriesOK, Expired
<1>3. Exact'
  BY <1>1, <1>2 DEF Exact, In
<1> QED
  BY <1>3, ExactFormNext DEF EntriesOK

(* UnparkAll takes everybody who waits on its address, each once.          *)
Asleep(u) == park[u] \in {"waiting"} \union Expired /\ ~ unparking[u]

LEMMA DequeueAllStep ==
  ASSUME LotTypeOK, QueuesExact, EntriesOK, NEW a \in Addrs, DequeueAll(a)
  PROVE  /\ LotTypeOK' /\ QueuesExact'
         /\ Waiters(a) \in Seq(Threads) /\ IsInjective(Waiters(a))
         /\ \A u : u \in ToSet(Waiters(a)) <=> u \in Threads /\ Asleep(u) /\ at[u] = a
         /\ \A u \in Threads : unparking'[u] <=> unparking[u] \/ (Asleep(u) /\ at[u] = a)
<1> USE ParkingLotAssumption
<1>1. PICK B \in Buckets : B = Bucket[a]
  OBVIOUS
<1>2. Exact
  BY ExactForm
<1>3. queue[B] \in Seq(Threads) /\ IsInjective(queue[B])
  BY <1>2 DEF LotTypeOK, Exact
<1>4. \A b \in Buckets : \A u \in Threads : In(b, u) <=> Asleep(u) /\ at[u] # NULL /\ Bucket[at[u]] = b
  BY <1>2 DEF Exact, WaitsIn, Asleep
<1>5. \A u : u \in ToSet(queue[B]) <=> u \in Threads /\ In(B, u)
  BY <1>3 DEF ToSet, In
<1>6. /\ Waiters(a) \in Seq(Threads) /\ IsInjective(Waiters(a))
      /\ ToSet(Waiters(a)) = ToSet(queue[B]) \intersect WaitingOn(a)
  BY <1>1, <1>3, AmongFacts DEF Waiters
<1>7. \A u : u \in ToSet(Waiters(a)) <=> u \in Threads /\ Asleep(u) /\ at[u] = a
  BY <1>1, <1>4, <1>5, <1>6 DEF WaitingOn
<1>8. \A u \in Threads : unparking'[u] <=> unparking[u] \/ (Asleep(u) /\ at[u] = a)
  BY <1>7 DEF DequeueAll, LotTypeOK
<1>9. /\ queue'[B] = Among(queue[B], Threads \ WaitingOn(a))
      /\ \A b \in Buckets : b # B => queue'[b] = queue[b]
      /\ queue' = [queue EXCEPT ![B] = Among(queue[B], Threads \ WaitingOn(a))]
  BY <1>1 DEF DequeueAll, LotTypeOK
<1>10. /\ queue'[B] \in Seq(Threads) /\ IsInjective(queue'[B])
       /\ ToSet(queue'[B]) = ToSet(queue[B]) \intersect (Threads \ WaitingOn(a))
  BY <1>3, <1>9, AmongFacts
<1>11. \A u : u \in ToSet(queue'[B]) <=> u \in Threads /\ In(B, u)'
  BY <1>10 DEF ToSet, In
<1>12. queue' \in [Buckets -> Seq(Threads)]
  BY <1>9, <1>10 DEF LotTypeOK
<1>13. LotTypeOK'
  <2>1. unparking' \in [Threads -> BOOLEAN]
    BY Zenon DEF DequeueAll, LotTypeOK
  <2> QED
    BY <1>12, <2>1 DEF DequeueAll, LotTypeOK
<1>14. UNCHANGED <<at, sema, park>>
  BY DEF DequeueAll
<1>15. \A b \in Buckets : IsInjective(queue'[b])
  BY <1>2, <1>9, <1>10 DEF Exact
<1>16. ASSUME NEW b \in Buckets, NEW u \in Threads
       PROVE  In(b, u)' <=> WaitsIn(b, u)'
  <2>1. WaitsIn(b, u)' <=> WaitsIn(b, u) /\ at[u] # a
    BY <1>8, <1>14 DEF WaitsIn, Asleep
  <2>2. CASE b = B
    BY <2>1, <2>2, <1>2, <1>5, <1>10, <1>11 DEF Exact, WaitingOn
  <2>3. CASE b # B
    <3>1. In(b, u)' <=> In(b, u)
      BY <2>3, <1>9 DEF In
    <3> QED
      BY <2>1, <2>3, <3>1, <1>1, <1>2 DEF Exact, WaitsIn
  <2> QED
    BY <2>2, <2>3
<1>17. \A u \in Threads : park'[u] # "out" => at'[u] # NULL
  BY <1>14 DEF EntriesOK
<1> QED
  BY <1>6, <1>7, <1>8, <1>13, <1>15, <1>16, <1>17, ExactFormNext DEF Exact

-----------------------------------------------------------------------------
(* The steps, by what they touch.                                          *)

LotMove(t) ==
  \/ Park(t) \/ Woken(t) \/ Expire(t) \/ Drain(t) \/ ParkFails(t) \/ UnparkAll(t) \/ Post(t)

WordMove(t) ==
  \/ \E a \in Events : EventWait(t, a) \/ EventNotify(t, a)
  \/ \E a \in Onces : CallOnce(t, a)
  \/ \E a \in RWs : RLock(t, a) \/ Lock(t, a)
  \/ Load(t) \/ EventLoop(t) \/ EventCheck(t) \/ OnceLoop(t)
  \/ \E ok \in BOOLEAN : UnlockOnce(t, ok)
  \/ RLockLoop(t) \/ LockLoop(t) \/ RUnlock(t) \/ Unlock(t)

RecMove(t) ==
  \/ \E a \in Recursives : RecursiveLock(t, a)
  \/ ReleaseSave(t) \/ TakeMutex(t) \/ Stamp(t) \/ RecursiveUnlock(t) \/ DropMutex(t)

LEMMA NextMoves ==
  ASSUME Next
  PROVE  /\ \E t \in Threads :
              \/ LotMove(t) /\ UNCHANGED recVars
              \/ WordMove(t) /\ UNCHANGED recVars
              \/ RecMove(t)
         /\ UNCHANGED uses
<1>1. PICK t \in Threads : NewCall(t) \/ Step(t) \/ (Expire(t) /\ UNCHANGED recVars)
  BY DEF Next
<1>2. UNCHANGED uses
  BY DEF Next
<1>3. CASE NewCall(t)
  BY <1>2, <1>3 DEF NewCall, EventCall, OnceCall, RWCall, WordMove, RecMove
<1>4. CASE Step(t)
  BY <1>2, <1>4 DEF Step, WordStep, EventStep, OnceStep, RWStep, RecursiveStep, LotMove, WordMove, RecMove
<1>5. CASE Expire(t) /\ UNCHANGED recVars
  BY <1>2, <1>5 DEF LotMove
<1> QED
  BY <1>1, <1>3, <1>4, <1>5

Addresses == Addrs \union {NULL}

LEMMA Kinds ==
  /\ Events \subseteq Addrs /\ Onces \subseteq Addrs /\ RWs \subseteq Addrs /\ Recursives \subseteq Addrs
  /\ Events \intersect Onces = {} /\ Events \intersect RWs = {} /\ Events \intersect Recursives = {}
  /\ Onces \intersect RWs = {} /\ Onces \intersect Recursives = {} /\ RWs \intersect Recursives = {}
  /\ Addrs = Events \union Onces \union RWs \union Recursives
BY LockPrimitivesAssumption

LEMMA Words ==
  /\ Zero \in Word /\ ONCE_INITIALIZED \in Word /\ [Zero EXCEPT !.locked = TRUE] \in Word
  /\ \A w \in Word :
       /\ [w EXCEPT !.parked = TRUE] \in Word /\ [w EXCEPT !.locked = TRUE] \in Word
       /\ [w EXCEPT !.count = @ + 1] \in Word
       /\ w.count > 0 => [w EXCEPT !.count = @ - 1] \in Word
       /\ w.locked \in BOOLEAN /\ w.parked \in BOOLEAN /\ w.count \in Nat
<1>1. Zero \in Word /\ ONCE_INITIALIZED \in Word /\ [Zero EXCEPT !.locked = TRUE] \in Word
  BY DEF Zero, ONCE_INITIALIZED, Word
<1>2. ASSUME NEW w \in Word
      PROVE  /\ [w EXCEPT !.parked = TRUE] \in Word /\ [w EXCEPT !.locked = TRUE] \in Word
             /\ [w EXCEPT !.count = @ + 1] \in Word
             /\ w.count > 0 => [w EXCEPT !.count = @ - 1] \in Word
             /\ w.locked \in BOOLEAN /\ w.parked \in BOOLEAN /\ w.count \in Nat
  <2>1. w.locked \in BOOLEAN /\ w.parked \in BOOLEAN /\ w.count \in Nat
    BY <1>2 DEF Word
  <2>2. /\ [w EXCEPT !.parked = TRUE] \in Word
        /\ [w EXCEPT !.locked = TRUE] \in Word
    BY <1>2 DEF Word
  <2>3. [w EXCEPT !.count = @ + 1] \in Word
    BY <1>2, <2>1 DEF Word
  <2>4. w.count > 0 => [w EXCEPT !.count = @ - 1] \in Word
    BY <1>2, <2>1 DEF Word
  <2> QED
    BY <2>1, <2>2, <2>3, <2>4
<1> QED
  BY <1>1, <1>2

(* Only the thread that moves changes its own state.                       *)
Local(t) ==
  \A u \in Threads \ {t} :
    pc'[u] = pc[u] /\ on'[u] = on[u] /\ doing'[u] = doing[u] /\ v'[u] = v[u]

(* Inside of a lock the word of it says so.                                *)
LEMMA InsideFacts ==
  ASSUME TypeOK, HoldersAgree, NEW t \in Threads, pc[t] = "inside"
  PROVE  /\ doing[t] = "RLock" /\ on[t] \in RWs =>
              word[on[t]].count > 0 /\ ~ word[on[t]].locked
         /\ doing[t] = "Lock" /\ on[t] \in RWs =>
              word[on[t]].count = 0 /\ word[on[t]].locked
         /\ doing[t] = "CallOnce" /\ on[t] \in Onces => word[on[t]].locked
<1>1. \A a, f : IsFiniteSet(Inside(a, f))
  <2>1. \A a, f : Inside(a, f) \in SUBSET Threads
    BY DEF Inside
  <2> QED
    BY <2>1, ParkingLotAssumption, FS_Subset
<1>2. \A a, f : t \in Inside(a, f) => Cardinality(Inside(a, f)) # 0
  BY <1>1, FS_EmptySet
<1>3. t \in Inside(on[t], doing[t])
  BY DEF Inside
<1>4. \A a \in Addrs : word[a].count \in Nat
  BY Words DEF TypeOK, WordsTypeOK
<1> QED
  BY <1>2, <1>3, <1>4, Kinds DEF HoldersAgree

Places == Busy \union {"idle", "inside", "drop", "unpark", "wake"}

PlaceTyped(t) == pc' \in [Threads -> Places] /\ \A u \in Threads \ {t} : pc'[u] = pc[u]
OnTyped(t) == on' \in [Threads -> Addrs \union {NULL}] /\ \A u \in Threads \ {t} : on'[u] = on[u]
DoingTyped(t) == doing' \in [Threads -> Doing] /\ \A u \in Threads \ {t} : doing'[u] = doing[u]
SeenTyped(t) == v' \in [Threads -> Word] /\ \A u \in Threads \ {t} : v'[u] = v[u]
LocalsTyped(t) == PlaceTyped(t) /\ OnTyped(t) /\ DoingTyped(t) /\ SeenTyped(t)
WordTyped == word' \in [Addrs -> Word]

LEMMA GotoTyped ==
  ASSUME TypeOK, NEW t \in Threads
  PROVE  /\ \A p \in Places : Goto(t, p) => PlaceTyped(t) /\ pc'[t] = p
         /\ UNCHANGED pc => PlaceTyped(t)
BY DEF TypeOK, WordsTypeOK, Goto, PlaceTyped, Places

LEMMA OnIsTyped ==
  ASSUME TypeOK, NEW t \in Threads
  PROVE  /\ \A a \in Addrs \union {NULL} : on' = [on EXCEPT ![t] = a] => OnTyped(t) /\ on'[t] = a
         /\ UNCHANGED on => OnTyped(t)
BY DEF TypeOK, WordsTypeOK, OnTyped

LEMMA DoingIsTyped ==
  ASSUME TypeOK, NEW t \in Threads
  PROVE  /\ \A f \in Doing : doing' = [doing EXCEPT ![t] = f] => DoingTyped(t) /\ doing'[t] = f
         /\ UNCHANGED doing => DoingTyped(t)
BY DEF TypeOK, WordsTypeOK, DoingTyped

LEMMA SeenIsTyped ==
  ASSUME TypeOK, NEW t \in Threads
  PROVE  /\ \A w \in Word : v' = [v EXCEPT ![t] = w] => SeenTyped(t) /\ v'[t] = w
         /\ UNCHANGED v => SeenTyped(t)
BY DEF TypeOK, WordsTypeOK, SeenTyped

LEMMA WordIsTyped ==
  ASSUME TypeOK
  PROVE  /\ \A a \in Addrs, w \in Word : word' = [word EXCEPT ![a] = w] =>
              WordTyped /\ word'[a] = w /\ \A b \in Addrs \ {a} : word'[b] = word[b]
         /\ UNCHANGED word => WordTyped
BY DEF TypeOK, WordsTypeOK, WordTyped

LEMMA InPlaces ==
  /\ \A p \in {"idle", "inside", "drop", "unpark", "wake", "load", "loop", "park", "parked",
               "check", "mutex", "stamp"} : p \in Places
  /\ \A f \in {"none", "CallOnce", "RLock", "Lock", "Recursive", "PyEvent_Wait", "PyEvent_WaitTimed"} :
       f \in Doing
BY DEF Places, Busy, Doing, Waits

(* The same for the parts that the steps are made of.                      *)
LEMMA ReturnFacts ==
  ASSUME TypeOK, NEW t \in Threads, Return(t)
  PROVE  LocalsTyped(t) /\ pc'[t] = "idle" /\ on'[t] = NULL /\ doing'[t] = "none" /\ v'[t] = Zero
BY GotoTyped, OnIsTyped, DoingIsTyped, SeenIsTyped, InPlaces, Words DEF Return, LocalsTyped

LEMMA EnterFacts ==
  ASSUME TypeOK, NEW t \in Threads, Enter(t)
  PROVE  LocalsTyped(t) /\ pc'[t] = "inside" /\ on'[t] = on[t] /\ doing'[t] = doing[t] /\ v'[t] = Zero
BY GotoTyped, OnIsTyped, DoingIsTyped, SeenIsTyped, InPlaces, Words DEF Enter, LocalsTyped

LEMMA CallFacts ==
  ASSUME TypeOK, NEW t \in Threads, NEW a \in Addrs, NEW f \in Doing, NEW p \in Places,
         Call(t, a, f, p), UNCHANGED v
  PROVE  LocalsTyped(t) /\ pc[t] = "idle" /\ pc'[t] = p /\ on'[t] = a /\ doing'[t] = f
BY GotoTyped, OnIsTyped, DoingIsTyped, SeenIsTyped DEF Call, LocalsTyped

LEMMA ReleasedFacts ==
  ASSUME TypeOK, NEW t \in Threads, NEW old \in Word, Released(t, old)
  PROVE  /\ LocalsTyped(t) /\ doing'[t] = "none" /\ v'[t] = Zero
         /\ pc'[t] = IF old.parked THEN "unpark" ELSE "idle"
         /\ on'[t] = IF old.parked THEN on[t] ELSE NULL
<1>1. on[t] \in Addrs \union {NULL}
  BY DEF TypeOK, WordsTypeOK
<1>2. PlaceTyped(t) /\ pc'[t] = IF old.parked THEN "unpark" ELSE "idle"
  BY GotoTyped, InPlaces DEF Released
<1>3. OnTyped(t) /\ on'[t] = IF old.parked THEN on[t] ELSE NULL
  BY <1>1, OnIsTyped DEF Released
<1> QED
  BY <1>2, <1>3, DoingIsTyped, SeenIsTyped, InPlaces, Words DEF Released, LocalsTyped

LEMMA RetryFacts ==
  ASSUME TypeOK, NEW t \in Threads, on[t] \in Addrs, Retry(t)
  PROVE  LocalsTyped(t) /\ UNCHANGED <<word, pc, on, doing>> /\ v'[t] = word[on[t]]
<1>1. word[on[t]] \in Word
  BY DEF TypeOK, WordsTypeOK
<1> QED
  BY <1>1, GotoTyped, OnIsTyped, DoingIsTyped, SeenIsTyped DEF Retry, See, LocalsTyped

LEMMA SetParkedFacts ==
  ASSUME TypeOK, NEW t \in Threads, on[t] \in Addrs, SetParked(t)
  PROVE  /\ LocalsTyped(t) /\ WordTyped /\ UNCHANGED <<on, doing>>
         /\ \/ pc'[t] = pc[t] /\ v'[t] = word[on[t]] /\ UNCHANGED word
            \/ pc'[t] = "park" /\ v[t].parked /\ UNCHANGED <<word, v>>
            \/ /\ pc'[t] = "park" /\ word[on[t]] = v[t] /\ ~ v[t].parked
               /\ v'[t] = [v[t] EXCEPT !.parked = TRUE]
               /\ word'[on[t]] = [v[t] EXCEPT !.parked = TRUE]
               /\ \A b \in Addrs \ {on[t]} : word'[b] = word[b]
<1>1. word[on[t]] \in Word /\ v[t] \in Word /\ [v[t] EXCEPT !.parked = TRUE] \in Word
  BY Words DEF TypeOK, WordsTypeOK
<1>2. CASE /\ v[t].parked
           /\ Goto(t, "park")
           /\ UNCHANGED <<word, on, doing, v>>
  BY <1>2, GotoTyped, OnIsTyped, DoingIsTyped, SeenIsTyped, WordIsTyped, InPlaces DEF LocalsTyped
<1>3. CASE /\ ~ v[t].parked /\ ~ Changed(t)
           /\ Set(t, [v[t] EXCEPT !.parked = TRUE])
           /\ v' = [v EXCEPT ![t].parked = TRUE]
           /\ Goto(t, "park")
           /\ UNCHANGED <<on, doing>>
  <2>1. v' = [v EXCEPT ![t] = [v[t] EXCEPT !.parked = TRUE]]
    BY <1>3 DEF TypeOK, WordsTypeOK
  <2>2. /\ WordTyped /\ word'[on[t]] = [v[t] EXCEPT !.parked = TRUE]
        /\ \A b \in Addrs \ {on[t]} : word'[b] = word[b]
    BY <1>1, <1>3, WordIsTyped DEF Set
  <2>3. SeenTyped(t) /\ v'[t] = [v[t] EXCEPT !.parked = TRUE]
    BY <1>1, <2>1, SeenIsTyped
  <2>4. word[on[t]] = v[t]
    BY <1>3 DEF Changed
  <2>5. PlaceTyped(t) /\ pc'[t] = "park" /\ OnTyped(t) /\ DoingTyped(t)
    BY <1>3, GotoTyped, OnIsTyped, DoingIsTyped, InPlaces
  <2> QED
    BY <1>3, <2>2, <2>3, <2>4, <2>5 DEF LocalsTyped
<1>4. CASE ~ v[t].parked /\ Retry(t)
  BY <1>4, RetryFacts, WordIsTyped DEF Retry
<1> QED
  BY <1>2, <1>3, <1>4 DEF SetParked

-----------------------------------------------------------------------------
(* What the steps on a word do, case by case.                              *)

OtherWords(a) == \A b \in Addrs \ {a} : word'[b] = word[b]
Stays(t) == on'[t] = on[t] /\ doing'[t] = doing[t]

(* A call begins.                                                          *)
Asks(t) ==
  /\ pc[t] = "idle" /\ pc'[t] = "load" /\ UNCHANGED word
  /\ \/ doing'[t] \in Waits /\ on'[t] \in Events
     \/ doing'[t] = "CallOnce" /\ on'[t] \in Onces
     \/ doing'[t] \in {"RLock", "Lock"} /\ on'[t] \in RWs

(* An event is set.                                                        *)
Notifies(t) ==
  /\ pc[t] = "idle" /\ doing'[t] = doing[t]
  /\ \E a \in Events :
       /\ word'[a].locked /\ ~ word'[a].parked /\ OtherWords(a)
       /\ IF word[a].parked THEN pc'[t] = "unpark" /\ on'[t] = a
          ELSE pc'[t] = pc[t] /\ on'[t] = on[t]

(* A thread reads the word anew.                                           *)
Looks(t) ==
  /\ pc[t] \in {"load", "loop", "check"} /\ pc'[t] \in {"load", "loop"}
  /\ pc'[t] = "loop" => v'[t] = word[on[t]]
  /\ Stays(t) /\ UNCHANGED word

(* The parked bit is set, or was, and there is a reason to wait.           *)
Announces(t) ==
  /\ pc[t] = "loop" /\ pc'[t] = "park" /\ Stays(t)
  /\ v'[t].parked
  /\ doing[t] \in Waits => ~ v'[t].locked
  /\ doing[t] = "CallOnce" => v'[t].locked
  /\ doing[t] = "Lock" => v'[t].locked \/ v'[t].count > 0
  /\ \/ UNCHANGED word
     \/ /\ word'[on[t]].parked /\ OtherWords(on[t])
        /\ word'[on[t]].locked = word[on[t]].locked /\ word'[on[t]].count = word[on[t]].count
        /\ doing[t] = "RLock" => word[on[t]].locked
        /\ v'[t].locked = word[on[t]].locked /\ v'[t].count = word[on[t]].count

(* A call returns without a lock, as it has seen that it may.              *)
Quits(t) ==
  /\ \/ pc[t] = "loop" /\ (doing[t] \in Waits => v[t].locked) /\ (doing[t] = "CallOnce" => v[t].count # 0)
     \/ pc[t] = "check" /\ (word[on[t]].locked \/ doing[t] = "PyEvent_WaitTimed")
  /\ pc'[t] = "idle" /\ UNCHANGED word
  /\ doing[t] \in Waits \union {"CallOnce"} /\ doing'[t] = "none" /\ on'[t] = NULL

(* A call gets its lock.                                                   *)
Enters(t) ==
  /\ pc[t] = "loop" /\ pc'[t] = "inside" /\ Stays(t) /\ OtherWords(on[t])
  /\ LET w == word[on[t]]
         x == word'[on[t]]
     IN  \/ doing[t] = "CallOnce" /\ ~ w.locked /\ ~ w.parked /\ w.count = 0 /\ x.locked /\ x.count = 0
         \/ /\ doing[t] = "RLock" /\ ~ w.locked /\ ~ w.parked
            /\ ~ x.locked /\ ~ x.parked /\ x.count = w.count + 1
         \/ doing[t] = "Lock" /\ ~ w.locked /\ w.count = 0 /\ x.locked /\ x.count = 0 /\ x.parked = w.parked

(* It gives the lock back.                                                 *)
Leaves(t) ==
  /\ pc[t] = "inside" /\ doing'[t] = "none" /\ OtherWords(on[t])
  /\ LET w == word[on[t]]
         x == word'[on[t]]
     IN  \/ /\ doing[t] = "CallOnce" /\ ~ x.locked /\ ~ x.parked
            /\ IF w.parked THEN pc'[t] = "unpark" /\ on'[t] = on[t] ELSE pc'[t] = "idle" /\ on'[t] = NULL
         \/ /\ doing[t] = "Lock" /\ ~ x.locked /\ ~ x.parked /\ x.count = 0
            /\ IF w.parked THEN pc'[t] = "unpark" /\ on'[t] = on[t] ELSE pc'[t] = "idle" /\ on'[t] = NULL
         \/ /\ doing[t] = "RLock" /\ ~ x.locked /\ x.parked = w.parked /\ x.count = w.count - 1
            /\ IF w.parked /\ x.count = 0
               THEN pc'[t] = "unpark" /\ on'[t] = on[t] ELSE pc'[t] = "idle" /\ on'[t] = NULL

Effect(t) ==
  Asks(t) \/ Notifies(t) \/ Looks(t) \/ Announces(t) \/ Quits(t) \/ Enters(t) \/ Leaves(t)

Stay == UNCHANGED <<lotVars, posts>>

LEMMA AskFacts ==
  ASSUME TypeOK, NEW t \in Threads,
         \/ \E a \in Events : EventWait(t, a)
         \/ \E a \in Onces : CallOnce(t, a)
         \/ \E a \in RWs : RLock(t, a) \/ Lock(t, a)
  PROVE  LocalsTyped(t) /\ WordTyped /\ Stay /\ Asks(t)
<1>1. ASSUME NEW a \in Addrs, NEW f \in Doing, Call(t, a, f, "load"),
             UNCHANGED <<lotVars, word, v, posts>>
      PROVE  /\ LocalsTyped(t) /\ WordTyped /\ Stay
             /\ pc[t] = "idle" /\ pc'[t] = "load" /\ on'[t] = a /\ doing'[t] = f /\ UNCHANGED word
  BY <1>1, CallFacts, InPlaces, WordIsTyped DEF Stay
<1>2. CASE \E a \in Events : EventWait(t, a)
  <2>1. PICK a \in Events : EventWait(t, a)
    BY <1>2
  <2>2. PICK f \in Waits : Call(t, a, f, "load")
    BY <2>1 DEF EventWait
  <2> QED
    BY <1>1, <2>1, <2>2, Kinds DEF EventWait, Asks, Doing
<1>3. CASE \E a \in Onces : CallOnce(t, a)
  BY <1>1, <1>3, Kinds, InPlaces DEF CallOnce, Asks
<1>4. CASE \E a \in RWs : RLock(t, a) \/ Lock(t, a)
  BY <1>1, <1>4, Kinds, InPlaces DEF RLock, Lock, Asks
<1> QED
  BY <1>2, <1>3, <1>4

LEMMA NotifyFacts ==
  ASSUME TypeOK, NEW t \in Threads, NEW a \in Events, EventNotify(t, a)
  PROVE  LocalsTyped(t) /\ WordTyped /\ Stay /\ Notifies(t)
<1>1. a \in Addrs /\ [Zero EXCEPT !.locked = TRUE] \in Word
  BY Kinds, Words
<1>2. WordTyped /\ word'[a] = [Zero EXCEPT !.locked = TRUE] /\ OtherWords(a)
  BY <1>1, WordIsTyped DEF EventNotify, OtherWords
<1>3. word'[a].locked /\ ~ word'[a].parked
  BY <1>2 DEF Zero
<1>4. SeenTyped(t) /\ DoingTyped(t) /\ doing'[t] = doing[t] /\ Stay
  BY DoingIsTyped, SeenIsTyped DEF EventNotify, Stay
<1>5. PlaceTyped(t) /\ OnTyped(t)
  BY <1>1, GotoTyped, OnIsTyped, InPlaces DEF EventNotify
<1>6. IF word[a].parked THEN pc'[t] = "unpark" /\ on'[t] = a
      ELSE pc'[t] = pc[t] /\ on'[t] = on[t]
  BY <1>1, GotoTyped, OnIsTyped, InPlaces DEF EventNotify
<1>7. pc[t] = "idle"
  BY DEF EventNotify
<1> QED
  BY <1>2, <1>3, <1>4, <1>5, <1>6, <1>7 DEF LocalsTyped, Notifies

LEMMA LoadFacts ==
  ASSUME TypeOK, NEW t \in Threads, on[t] \in Addrs, Load(t)
  PROVE  LocalsTyped(t) /\ WordTyped /\ Stay /\ Looks(t)
<1>1. word[on[t]] \in Word
  BY DEF TypeOK, WordsTypeOK
<1> QED
  BY <1>1, GotoTyped, OnIsTyped, DoingIsTyped, SeenIsTyped, WordIsTyped, InPlaces
  DEF Load, See, LocalsTyped, Stay, Looks, Stays

(* A thread in its loop sets the parked bit for a reason.                  *)
LEMMA AnnounceFacts ==
  ASSUME TypeOK, NEW t \in Threads, on[t] \in Addrs, pc[t] = "loop", SetParked(t),
         doing[t] \in Waits => ~ v[t].locked,
         doing[t] = "CallOnce" => v[t].locked,
         doing[t] = "Lock" => v[t].locked \/ v[t].count > 0,
         doing[t] = "RLock" => v[t].locked \/ v[t].parked
  PROVE  LocalsTyped(t) /\ WordTyped /\ (Looks(t) \/ Announces(t))
<1>1. LocalsTyped(t) /\ WordTyped /\ Stays(t)
  BY SetParkedFacts DEF Stays
<1>2. v[t] \in Word
  BY DEF TypeOK, WordsTypeOK
<1>3. CASE pc'[t] = pc[t] /\ v'[t] = word[on[t]] /\ UNCHANGED word
  BY <1>1, <1>3 DEF Looks
<1>4. CASE pc'[t] = "park" /\ v[t].parked /\ UNCHANGED <<word, v>>
  BY <1>1, <1>4 DEF Announces
<1>5. CASE /\ pc'[t] = "park" /\ word[on[t]] = v[t] /\ ~ v[t].parked
           /\ v'[t] = [v[t] EXCEPT !.parked = TRUE]
           /\ word'[on[t]] = [v[t] EXCEPT !.parked = TRUE]
           /\ \A b \in Addrs \ {on[t]} : word'[b] = word[b]
  <2>1. /\ v'[t].parked /\ v'[t].locked = v[t].locked /\ v'[t].count = v[t].count
        /\ word'[on[t]].parked /\ word'[on[t]].locked = v[t].locked /\ word'[on[t]].count = v[t].count
    BY <1>2, <1>5 DEF Word
  <2> QED
    BY <1>1, <1>5, <2>1 DEF Announces, OtherWords
<1> QED
  BY <1>3, <1>4, <1>5, <1>1, SetParkedFacts

LEMMA LoopFacts ==
  ASSUME TypeOK, PlaceInv, NEW t \in Threads,
         EventLoop(t) \/ OnceLoop(t) \/ RLockLoop(t) \/ LockLoop(t)
  PROVE  LocalsTyped(t) /\ WordTyped /\ Stay /\ Effect(t)
<1>1. /\ pc[t] = "loop" /\ on[t] \in Addrs /\ Stay
      /\ doing[t] \in Waits \union {"CallOnce", "RLock", "Lock"}
  BY Kinds DEF PlaceInv, EventLoop, OnceLoop, RLockLoop, LockLoop, Stay
<1>2. /\ v[t] \in Word /\ word[on[t]] \in Word
      /\ v[t].locked \in BOOLEAN /\ v[t].parked \in BOOLEAN /\ v[t].count \in Nat
  BY <1>1, Words DEF TypeOK, WordsTypeOK
<1>3. ASSUME SetParked(t),
             doing[t] \in Waits => ~ v[t].locked,
             doing[t] = "CallOnce" => v[t].locked,
             doing[t] = "Lock" => v[t].locked \/ v[t].count > 0,
             doing[t] = "RLock" => v[t].locked \/ v[t].parked
      PROVE  LocalsTyped(t) /\ WordTyped /\ Stay /\ Effect(t)
  BY <1>1, <1>3, AnnounceFacts DEF Effect
<1>4. ASSUME Retry(t) PROVE LocalsTyped(t) /\ WordTyped /\ Stay /\ Effect(t)
  BY <1>1, <1>4, RetryFacts, WordIsTyped DEF Effect, Looks, Stays
<1>5. ASSUME Return(t), UNCHANGED word, doing[t] \in Waits \union {"CallOnce"},
             doing[t] \in Waits => v[t].locked,
             doing[t] = "CallOnce" => v[t].count # 0
      PROVE  LocalsTyped(t) /\ WordTyped /\ Stay /\ Effect(t)
  BY <1>1, <1>5, ReturnFacts, WordIsTyped DEF Effect, Quits
<1>6. ASSUME NEW w \in Word, ~ Changed(t), Set(t, w), Enter(t)
      PROVE  /\ LocalsTyped(t) /\ WordTyped /\ Stay
             /\ pc'[t] = "inside" /\ Stays(t) /\ OtherWords(on[t])
             /\ word[on[t]] = v[t] /\ word'[on[t]] = w
  BY <1>1, <1>6, EnterFacts, WordIsTyped DEF Set, Changed, Stays, OtherWords
<1>7. CASE EventLoop(t)
  BY <1>3, <1>5, <1>7 DEF EventLoop, IsSet, Waits
<1>8. CASE OnceLoop(t)
  <2>1. CASE v[t] = Zero /\ ~ Changed(t) /\ Set(t, [Zero EXCEPT !.locked = TRUE]) /\ Enter(t)
    <3>1. /\ LocalsTyped(t) /\ WordTyped /\ Stay
          /\ pc'[t] = "inside" /\ Stays(t) /\ OtherWords(on[t])
          /\ word[on[t]] = Zero /\ word'[on[t]] = [Zero EXCEPT !.locked = TRUE]
      BY <2>1, <1>6, Words
    <3> QED
      BY <1>1, <1>8, <3>1 DEF Effect, Enters, OnceLoop, Zero
  <2>2. doing[t] = "CallOnce" /\ ONCE_INITIALIZED.count # 0
    BY <1>8 DEF OnceLoop, ONCE_INITIALIZED, Zero
  <2> QED
    BY <1>3, <1>4, <1>5, <1>8, <2>1, <2>2 DEF OnceLoop, Waits
<1>9. CASE RLockLoop(t)
  <2>1. CASE ~ v[t].locked /\ ~ v[t].parked /\ ~ Changed(t)
             /\ Set(t, [v[t] EXCEPT !.count = @ + 1]) /\ Enter(t)
    <3>1. /\ LocalsTyped(t) /\ WordTyped /\ Stay
          /\ pc'[t] = "inside" /\ Stays(t) /\ OtherWords(on[t])
          /\ word[on[t]] = v[t] /\ word'[on[t]] = [v[t] EXCEPT !.count = @ + 1]
      BY <2>1, <1>2, <1>6, Words
    <3>2. LET x == word'[on[t]]
          IN  x.locked = v[t].locked /\ x.parked = v[t].parked /\ x.count = v[t].count + 1
      BY <1>2, <3>1 DEF Word
    <3> QED
      BY <1>1, <1>9, <2>1, <3>1, <3>2 DEF Effect, Enters, RLockLoop
  <2>2. doing[t] = "RLock"
    BY <1>9 DEF RLockLoop
  <2> QED
    BY <1>3, <1>4, <1>9, <2>1, <2>2 DEF RLockLoop, Waits
<1>10. CASE LockLoop(t)
  <2>1. CASE ~ v[t].locked /\ v[t].count = 0 /\ ~ Changed(t)
             /\ Set(t, [v[t] EXCEPT !.locked = TRUE]) /\ Enter(t)
    <3>1. /\ LocalsTyped(t) /\ WordTyped /\ Stay
          /\ pc'[t] = "inside" /\ Stays(t) /\ OtherWords(on[t])
          /\ word[on[t]] = v[t] /\ word'[on[t]] = [v[t] EXCEPT !.locked = TRUE]
      BY <2>1, <1>2, <1>6, Words
    <3>2. LET x == word'[on[t]]
          IN  x.locked /\ x.parked = v[t].parked /\ x.count = v[t].count
      BY <1>2, <3>1 DEF Word
    <3> QED
      BY <1>1, <1>10, <2>1, <3>1, <3>2 DEF Effect, Enters, LockLoop
  <2>2. doing[t] = "Lock"
    BY <1>10 DEF LockLoop
  <2> QED
    BY <1>3, <1>4, <1>10, <2>1, <2>2 DEF LockLoop, Waits
<1> QED
  BY <1>7, <1>8, <1>9, <1>10

LEMMA CheckFacts ==
  ASSUME TypeOK, PlaceInv, NEW t \in Threads, EventCheck(t)
  PROVE  LocalsTyped(t) /\ WordTyped /\ Stay /\ Effect(t)
<1>1. pc[t] = "check" /\ doing[t] \in Waits /\ UNCHANGED word /\ Stay /\ WordTyped
  BY WordIsTyped DEF PlaceInv, EventCheck, Stay
<1>2. CASE IsSet(word[on[t]]) \/ doing[t] = "PyEvent_WaitTimed"
  <2>1. Return(t)
    BY <1>2 DEF EventCheck
  <2> QED
    BY <1>1, <1>2, <2>1, ReturnFacts DEF Effect, Quits, IsSet
<1>3. CASE Goto(t, "load") /\ UNCHANGED <<on, doing, v>>
  BY <1>1, <1>3, GotoTyped, OnIsTyped, DoingIsTyped, SeenIsTyped, InPlaces
  DEF LocalsTyped, Effect, Looks, Stays
<1> QED
  BY <1>2, <1>3 DEF EventCheck

LEMMA LeaveFacts ==
  ASSUME TypeOK, PlaceInv, HoldersAgree, NEW t \in Threads,
         (\E ok \in BOOLEAN : UnlockOnce(t, ok)) \/ RUnlock(t) \/ Unlock(t)
  PROVE  LocalsTyped(t) /\ WordTyped /\ Stay /\ Leaves(t)
<1>1. /\ pc[t] = "inside" /\ on[t] \in Addrs /\ Stay
      /\ doing[t] = "CallOnce" => on[t] \in Onces
      /\ doing[t] \in {"RLock", "Lock"} => on[t] \in RWs
  BY Kinds DEF PlaceInv, UnlockOnce, RUnlock, Unlock, Stay
<1>2. word[on[t]] \in Word
  BY <1>1 DEF TypeOK, WordsTypeOK
<1>3. ASSUME NEW w \in Word, NEW old \in Word, Set(t, w), Released(t, old)
      PROVE  /\ LocalsTyped(t) /\ WordTyped /\ doing'[t] = "none"
             /\ pc'[t] = IF old.parked THEN "unpark" ELSE "idle"
             /\ on'[t] = IF old.parked THEN on[t] ELSE NULL
             /\ OtherWords(on[t]) /\ word'[on[t]] = w
  <2>1. WordTyped /\ word'[on[t]] = w /\ OtherWords(on[t])
    BY <1>1, <1>3, WordIsTyped DEF Set, OtherWords
  <2> QED
    BY <1>3, <2>1, ReleasedFacts
<1>4. CASE \E ok \in BOOLEAN : UnlockOnce(t, ok)
  <2>1. PICK w \in {Zero, ONCE_INITIALIZED} : Set(t, w) /\ Released(t, word[on[t]])
    BY <1>4 DEF UnlockOnce
  <2>2. /\ LocalsTyped(t) /\ WordTyped /\ doing'[t] = "none"
        /\ pc'[t] = IF word[on[t]].parked THEN "unpark" ELSE "idle"
        /\ on'[t] = IF word[on[t]].parked THEN on[t] ELSE NULL
        /\ OtherWords(on[t]) /\ word'[on[t]] = w
    BY <2>1, <1>2, <1>3, Words
  <2>3. ~ w.locked /\ ~ w.parked
    BY <2>1 DEF Zero, ONCE_INITIALIZED
  <2> QED
    BY <1>1, <1>4, <2>2, <2>3 DEF Leaves, UnlockOnce
<1>5. CASE Unlock(t)
  <2>1. /\ LocalsTyped(t) /\ WordTyped /\ doing'[t] = "none"
        /\ pc'[t] = IF word[on[t]].parked THEN "unpark" ELSE "idle"
        /\ on'[t] = IF word[on[t]].parked THEN on[t] ELSE NULL
        /\ OtherWords(on[t]) /\ word'[on[t]] = Zero
    BY <1>2, <1>3, <1>5, Words DEF Unlock
  <2> QED
    BY <1>1, <1>5, <2>1 DEF Leaves, Unlock, Zero
<1>6. CASE RUnlock(t)
  <2>1. doing[t] = "RLock" /\ word[on[t]].count > 0 /\ ~ word[on[t]].locked
    BY <1>1, <1>6, InsideFacts DEF RUnlock
  <2>2. PICK left \in Word : left = [word[on[t]] EXCEPT !.count = @ - 1]
    BY <1>2, <2>1, Words
  <2>3. left.locked = word[on[t]].locked /\ left.parked = word[on[t]].parked /\ left.count = word[on[t]].count - 1
    BY <1>2, <2>2 DEF Word
  <2>4. PICK old \in Word : old = IF left.count = 0 THEN left ELSE Zero
    BY Words
  <2>5. Set(t, left) /\ Released(t, old)
    BY <1>6, <2>2, <2>4 DEF RUnlock
  <2>6. /\ LocalsTyped(t) /\ WordTyped /\ doing'[t] = "none"
        /\ pc'[t] = IF old.parked THEN "unpark" ELSE "idle"
        /\ on'[t] = IF old.parked THEN on[t] ELSE NULL
        /\ OtherWords(on[t]) /\ word'[on[t]] = left
    BY <1>3, <2>5
  <2>7. old.parked <=> word[on[t]].parked /\ left.count = 0
    BY <2>3, <2>4 DEF Zero
  <2> QED
    BY <1>1, <2>1, <2>3, <2>6, <2>7 DEF Leaves
<1> QED
  BY <1>1, <1>4, <1>5, <1>6

LEMMA WordFacts ==
  ASSUME TypeOK, PlaceInv, HoldersAgree, NEW t \in Threads, WordMove(t)
  PROVE  LocalsTyped(t) /\ WordTyped /\ Stay /\ Effect(t)
<1>1. CASE Load(t)
  <2>1. on[t] \in Addrs
    BY <1>1, Kinds DEF Load, PlaceInv, TypeOK, WordsTypeOK, Doing
  <2> QED
    BY <1>1, <2>1, LoadFacts DEF Effect
<1> QED
  BY <1>1, AskFacts, NotifyFacts, LoopFacts, CheckFacts, LeaveFacts DEF WordMove, Effect

-----------------------------------------------------------------------------
(* Who is inside, and what the words say of it.                            *)

Holding == {"inside", "stamp", "drop"}

LEMMA HoldersFinite ==
  /\ \A a, f : IsFiniteSet(Inside(a, f)) /\ IsFiniteSet(HoldsMutex(a))
  /\ \A a, f : Cardinality(Inside(a, f)) \in Nat /\ Cardinality(HoldsMutex(a)) \in Nat
<1>1. \A a, f : Inside(a, f) \in SUBSET Threads /\ HoldsMutex(a) \in SUBSET Threads
  BY DEF Inside, HoldsMutex
<1>2. \A a, f : IsFiniteSet(Inside(a, f)) /\ IsFiniteSet(HoldsMutex(a))
  BY <1>1, ParkingLotAssumption, FS_Subset
<1> QED
  BY <1>2, FS_CardinalityType

LEMMA HoldersOf ==
  ASSUME NEW t \in Threads, NEW a
  PROVE  /\ \A f : t \in Inside(a, f) <=> on[t] = a /\ pc[t] = "inside" /\ doing[t] = f
         /\ t \in HoldsMutex(a) <=>
              on[t] = a /\ (pc[t] \in {"stamp", "drop"} \/ (pc[t] = "inside" /\ doing[t] = "Recursive"))
BY DEF Inside, HoldsMutex

(* The others are where they were.                                         *)
LEMMA OthersHold ==
  ASSUME NEW t \in Threads, LocalsTyped(t), NEW u \in Threads \ {t}
  PROVE  \A a : /\ \A f : u \in Inside(a, f)' <=> u \in Inside(a, f)
                /\ u \in HoldsMutex(a)' <=> u \in HoldsMutex(a)
BY DEF LocalsTyped, PlaceTyped, OnTyped, DoingTyped, Inside, HoldsMutex

LEMMA CountMore ==
  ASSUME NEW S, NEW T, NEW t, IsFiniteSet(S), t \notin S, t \in T,
         \A u : u # t => (u \in T <=> u \in S)
  PROVE  Cardinality(T) = Cardinality(S) + 1
<1>1. T = S \union {t}
  OBVIOUS
<1> QED
  BY <1>1, FS_AddElement

LEMMA CountLess ==
  ASSUME NEW S, NEW T, NEW t, IsFiniteSet(S), t \in S, t \notin T,
         \A u : u # t => (u \in T <=> u \in S)
  PROVE  Cardinality(T) = Cardinality(S) - 1
<1>1. T = S \ {t}
  OBVIOUS
<1> QED
  BY <1>1, FS_RemoveElement

(* Nothing changes for the holders when somebody else moves.               *)
LEMMA AwayHolders ==
  ASSUME TypeOK, HoldersAgree, NEW t \in Threads, LocalsTyped(t),
         pc[t] \notin Holding, pc'[t] \notin Holding, UNCHANGED recVars,
         \A a \in Onces \union RWs \union Recursives :
           word'[a].locked = word[a].locked /\ word'[a].count = word[a].count
  PROVE  HoldersAgree'
<1>1. \A a, f : Inside(a, f)' = Inside(a, f)
  <2>1. \A a, f : t \notin Inside(a, f) /\ t \notin Inside(a, f)'
    BY DEF Inside, Holding
  <2> QED
    BY <2>1, OthersHold, SMTT(30) DEF Inside
<1>2. \A a : HoldsMutex(a)' = HoldsMutex(a)
  <2>1. \A a : t \notin HoldsMutex(a) /\ t \notin HoldsMutex(a)'
    BY DEF HoldsMutex, Inside, Holding
  <2>2. \A a : HoldsMutex(a)' \subseteq Threads /\ HoldsMutex(a) \subseteq Threads
    BY DEF HoldsMutex, Inside
  <2> QED
    BY <2>1, <2>2, OthersHold, SMTT(30)
<1>3. UNCHANGED <<thread, level, depth>>
  BY DEF recVars
<1>4. RecursionCounts'
  BY <1>1, <1>2, <1>3 DEF HoldersAgree, RecursionCounts, IsOwnedBy
<1> QED
  BY <1>1, <1>4 DEF HoldersAgree

(* A thread at another kind of lock takes no recursive mutex.              *)
LEMMA RecursionStays ==
  ASSUME TypeOK, PlaceInv, HoldersAgree, NEW t \in Threads, LocalsTyped(t),
         doing[t] # "Recursive", doing'[t] # "Recursive", pc[t] \in {"loop", "inside"},
         pc'[t] \notin {"stamp", "drop"}, UNCHANGED recVars,
         \A a \in Recursives : word'[a] = word[a]
  PROVE  RecursionCounts'
<1>1. \A a : HoldsMutex(a)' = HoldsMutex(a)
  <2>1. \A a : t \notin HoldsMutex(a) /\ t \notin HoldsMutex(a)'
    BY DEF HoldsMutex, Inside
  <2>2. \A a : HoldsMutex(a)' \subseteq Threads /\ HoldsMutex(a) \subseteq Threads
    BY DEF HoldsMutex, Inside
  <2> QED
    BY <2>1, <2>2, OthersHold, SMTT(30)
<1>2. \A a : Inside(a, "Recursive")' = Inside(a, "Recursive")
  <2>1. \A a : t \notin Inside(a, "Recursive") /\ t \notin Inside(a, "Recursive")'
    BY DEF Inside
  <2> QED
    BY <2>1, OthersHold, SMTT(30) DEF Inside
<1>3. UNCHANGED <<thread, level, depth>>
  BY DEF recVars
<1> QED
  BY <1>1, <1>2, <1>3 DEF HoldersAgree, RecursionCounts, IsOwnedBy

LEMMA EnterHolders ==
  ASSUME TypeOK, PlaceInv, HoldersAgree, NEW t \in Threads, LocalsTyped(t), WordTyped,
         UNCHANGED recVars, Enters(t)
  PROVE  HoldersAgree'
<1>0. PICK a, f : a = on[t] /\ f = doing[t]
  OBVIOUS
<1>1. /\ pc[t] = "loop" /\ pc'[t] = "inside" /\ on'[t] = a /\ doing'[t] = f
      /\ f \in {"CallOnce", "RLock", "Lock"} /\ OtherWords(a)
      /\ f = "CallOnce" => a \in Onces
      /\ f \in {"RLock", "Lock"} => a \in RWs
  BY <1>0 DEF Enters, Stays, PlaceInv
<1>2. RecursionCounts'
  BY <1>0, <1>1, RecursionStays, Kinds DEF OtherWords
<1>3. \A b, g : b # a \/ g # f => Inside(b, g)' = Inside(b, g)
  <2> SUFFICES ASSUME NEW b, NEW g, b # a \/ g # f
               PROVE  Inside(b, g)' = Inside(b, g)
    OBVIOUS
  <2>1. t \notin Inside(b, g) /\ t \notin Inside(b, g)'
    BY <1>0, <1>1 DEF Inside
  <2> QED
    BY <2>1, OthersHold DEF Inside
<1>4. Cardinality(Inside(a, f)') = Cardinality(Inside(a, f)) + 1
  <2>1. t \notin Inside(a, f) /\ t \in Inside(a, f)'
    BY <1>0, <1>1 DEF Inside
  <2>2. \A u : u # t => (u \in Inside(a, f)' <=> u \in Inside(a, f))
    BY OthersHold DEF Inside
  <2> QED
    BY <2>1, <2>2, CountMore, HoldersFinite
<1>5. \A b \in Onces \union RWs \union Recursives : b # a => word'[b] = word[b]
  BY <1>1, Kinds DEF OtherWords
<1>6. /\ word[a].locked \in BOOLEAN /\ word[a].count \in Nat
      /\ word'[a].locked \in BOOLEAN /\ word'[a].count \in Nat
  BY <1>1, Kinds, Words DEF TypeOK, WordsTypeOK, WordTyped
<1>7. \/ f = "CallOnce" /\ ~ word[a].locked /\ word'[a].locked
      \/ f = "RLock" /\ ~ word[a].locked /\ ~ word'[a].locked /\ word'[a].count = word[a].count + 1
      \/ f = "Lock" /\ ~ word[a].locked /\ word[a].count = 0 /\ word'[a].locked /\ word'[a].count = 0
  BY <1>0 DEF Enters
<1>8. \A b \in RWs :
        /\ Cardinality(Inside(b, "Lock")') = IF word'[b].locked THEN 1 ELSE 0
        /\ Cardinality(Inside(b, "RLock")') = word'[b].count
        /\ word'[b].locked => word'[b].count = 0
  <2> SUFFICES ASSUME NEW b \in RWs
               PROVE  /\ Cardinality(Inside(b, "Lock")') = IF word'[b].locked THEN 1 ELSE 0
                      /\ Cardinality(Inside(b, "RLock")') = word'[b].count
                      /\ word'[b].locked => word'[b].count = 0
    OBVIOUS
  <2>1. /\ Cardinality(Inside(b, "Lock")) = IF word[b].locked THEN 1 ELSE 0
        /\ Cardinality(Inside(b, "RLock")) = word[b].count
        /\ word[b].locked => word[b].count = 0
    BY DEF HoldersAgree
  <2>2. CASE b # a
    BY <2>1, <2>2, <1>3, <1>5
  <2>3. CASE b = a /\ f = "Lock"
    BY <2>1, <2>3, <1>3, <1>4, <1>7
  <2>4. CASE b = a /\ f = "RLock"
    BY <2>1, <2>4, <1>3, <1>4, <1>7
  <2> QED
    BY <2>2, <2>3, <2>4, <1>1, Kinds
<1>9. \A b \in Onces : Cardinality(Inside(b, "CallOnce")') = IF word'[b].locked THEN 1 ELSE 0
  <2> SUFFICES ASSUME NEW b \in Onces
               PROVE  Cardinality(Inside(b, "CallOnce")') = IF word'[b].locked THEN 1 ELSE 0
    OBVIOUS
  <2>1. Cardinality(Inside(b, "CallOnce")) = IF word[b].locked THEN 1 ELSE 0
    BY DEF HoldersAgree
  <2>2. CASE b # a
    BY <2>1, <2>2, <1>3, <1>5
  <2>3. CASE b = a /\ f = "CallOnce"
    BY <2>1, <2>3, <1>4, <1>7
  <2> QED
    BY <2>2, <2>3, <1>1, Kinds
<1> QED
  BY <1>2, <1>8, <1>9 DEF HoldersAgree

LEMMA LeaveHolders ==
  ASSUME TypeOK, PlaceInv, HoldersAgree, NEW t \in Threads, LocalsTyped(t), WordTyped,
         UNCHANGED recVars, Leaves(t)
  PROVE  HoldersAgree'
<1>0. PICK a, f : a = on[t] /\ f = doing[t]
  OBVIOUS
<1>1. /\ pc[t] = "inside" /\ pc'[t] \in {"unpark", "idle"} /\ doing'[t] = "none"
      /\ f \in {"CallOnce", "RLock", "Lock"} /\ OtherWords(a)
      /\ f = "CallOnce" => a \in Onces
      /\ f \in {"RLock", "Lock"} => a \in RWs
  BY <1>0 DEF Leaves, PlaceInv
<1>2. RecursionCounts'
  BY <1>0, <1>1, RecursionStays, Kinds DEF OtherWords
<1>3. \A b, g : b # a \/ g # f => Inside(b, g)' = Inside(b, g)
  <2> SUFFICES ASSUME NEW b, NEW g, b # a \/ g # f
               PROVE  Inside(b, g)' = Inside(b, g)
    OBVIOUS
  <2>1. t \notin Inside(b, g) /\ t \notin Inside(b, g)'
    BY <1>0, <1>1 DEF Inside
  <2> QED
    BY <2>1, OthersHold DEF Inside
<1>4. Cardinality(Inside(a, f)') = Cardinality(Inside(a, f)) - 1
  <2>1. t \in Inside(a, f) /\ t \notin Inside(a, f)'
    BY <1>0, <1>1 DEF Inside
  <2>2. \A u : u # t => (u \in Inside(a, f)' <=> u \in Inside(a, f))
    BY OthersHold DEF Inside
  <2> QED
    BY <2>1, <2>2, CountLess, HoldersFinite
<1>a. /\ f = "RLock" => word[a].count > 0 /\ ~ word[a].locked
      /\ f = "Lock" => word[a].count = 0 /\ word[a].locked
      /\ f = "CallOnce" => word[a].locked
  BY <1>0, <1>1, InsideFacts
<1>5. \A b \in Onces \union RWs \union Recursives : b # a => word'[b] = word[b]
  BY <1>1, Kinds DEF OtherWords
<1>6. /\ word[a].locked \in BOOLEAN /\ word[a].count \in Nat
      /\ word'[a].locked \in BOOLEAN /\ word'[a].count \in Nat
  BY <1>1, Kinds, Words DEF TypeOK, WordsTypeOK, WordTyped
<1>7. \/ f = "CallOnce" /\ ~ word'[a].locked
      \/ f = "RLock" /\ ~ word'[a].locked /\ word'[a].count = word[a].count - 1
      \/ f = "Lock" /\ ~ word'[a].locked /\ word'[a].count = 0
  BY <1>0 DEF Leaves
<1>8. \A b \in RWs :
        /\ Cardinality(Inside(b, "Lock")') = IF word'[b].locked THEN 1 ELSE 0
        /\ Cardinality(Inside(b, "RLock")') = word'[b].count
        /\ word'[b].locked => word'[b].count = 0
  <2> SUFFICES ASSUME NEW b \in RWs
               PROVE  /\ Cardinality(Inside(b, "Lock")') = IF word'[b].locked THEN 1 ELSE 0
                      /\ Cardinality(Inside(b, "RLock")') = word'[b].count
                      /\ word'[b].locked => word'[b].count = 0
    OBVIOUS
  <2>1. /\ Cardinality(Inside(b, "Lock")) = IF word[b].locked THEN 1 ELSE 0
        /\ Cardinality(Inside(b, "RLock")) = word[b].count
        /\ word[b].locked => word[b].count = 0
    BY DEF HoldersAgree
  <2>2. CASE b # a
    BY <2>1, <2>2, <1>3, <1>5
  <2>3. CASE b = a /\ f = "Lock"
    BY <2>1, <2>3, <1>3, <1>4, <1>7, <1>a
  <2>4. CASE b = a /\ f = "RLock"
    BY <2>1, <2>4, <1>3, <1>4, <1>7, <1>a
  <2> QED
    BY <2>2, <2>3, <2>4, <1>1, Kinds
<1>9. \A b \in Onces : Cardinality(Inside(b, "CallOnce")') = IF word'[b].locked THEN 1 ELSE 0
  <2> SUFFICES ASSUME NEW b \in Onces
               PROVE  Cardinality(Inside(b, "CallOnce")') = IF word'[b].locked THEN 1 ELSE 0
    OBVIOUS
  <2>1. Cardinality(Inside(b, "CallOnce")) = IF word[b].locked THEN 1 ELSE 0
    BY DEF HoldersAgree
  <2>2. CASE b # a
    BY <2>1, <2>2, <1>3, <1>5
  <2>3. CASE b = a /\ f = "CallOnce"
    BY <2>1, <2>3, <1>4, <1>7, <1>a
  <2> QED
    BY <2>2, <2>3, <1>1, Kinds
<1> QED
  BY <1>2, <1>8, <1>9 DEF HoldersAgree

LEMMA WordHolders ==
  ASSUME TypeOK, PlaceInv, HoldersAgree, NEW t \in Threads, LocalsTyped(t), WordTyped,
         UNCHANGED recVars, Effect(t)
  PROVE  HoldersAgree'
<1>1. CASE Asks(t) \/ Looks(t) \/ Quits(t)
  <2>1. pc[t] \notin Holding /\ pc'[t] \notin Holding /\ UNCHANGED word
    BY <1>1 DEF Asks, Looks, Quits, Holding
  <2> QED
    BY <2>1, AwayHolders
<1>2. CASE Notifies(t)
  <2>1. pc[t] \notin Holding /\ pc'[t] \notin Holding
    BY <1>2 DEF Notifies, Holding
  <2>2. \A a \in Onces \union RWs \union Recursives : word'[a] = word[a]
    BY <1>2, Kinds DEF Notifies, OtherWords
  <2> QED
    BY <2>1, <2>2, AwayHolders
<1>3. CASE Announces(t)
  <2>1. pc[t] \notin Holding /\ pc'[t] \notin Holding
    BY <1>3 DEF Announces, Holding
  <2>2. \A a \in Onces \union RWs \union Recursives :
          word'[a].locked = word[a].locked /\ word'[a].count = word[a].count
    BY <1>3, Kinds DEF Announces, OtherWords
  <2> QED
    BY <2>1, <2>2, AwayHolders
<1> QED
  BY <1>1, <1>2, <1>3, EnterHolders, LeaveHolders DEF Effect

-----------------------------------------------------------------------------
(* What the steps on a recursive mutex do, case by case.                   *)

RecOthers(t, a) ==
  /\ \A b \in Addrs \ {a} : thread'[b] = thread[b] /\ level'[b] = level[b]
  /\ \A u \in Threads \ {t} : saved'[u] = saved[u] /\ depth'[u] = depth[u]

Owner(t, a, o, l) == thread'[a] = o /\ level'[a] = l
Depth(t, s, d) == saved'[t] = s /\ depth'[t] = d

(* It is locked once more, or asked for.                                   *)
LocksAgain(t, a) ==
  /\ pc[t] = "inside" /\ on[t] = a /\ doing[t] = "Recursive"
  /\ pc'[t] = "inside" /\ on'[t] = a /\ doing'[t] = "Recursive" /\ UNCHANGED word
  /\ Owner(t, a, thread[a], level[a] + 1) /\ Depth(t, saved[t], depth[t] + 1)
Requests(t, a) ==
  /\ pc[t] = "idle" /\ thread[a] # t
  /\ pc'[t] = "mutex" /\ on'[t] = a /\ doing'[t] = "Recursive" /\ UNCHANGED word
  /\ Owner(t, a, thread[a], level[a]) /\ Depth(t, saved[t], depth[t] + 1)

(* The mutex inside is taken, and the owner stored.                        *)
Takes(t, a) ==
  /\ pc[t] = "mutex" /\ on[t] = a /\ pc'[t] = "stamp" /\ Stays(t)
  /\ ~ word[a].locked /\ word'[a].locked /\ OtherWords(a)
  /\ Owner(t, a, thread[a], level[a]) /\ Depth(t, saved[t], depth[t])
Stamps(t, a) ==
  /\ pc[t] = "stamp" /\ on[t] = a /\ pc'[t] = "inside" /\ Stays(t) /\ UNCHANGED word
  /\ Owner(t, a, t, IF saved[t] = 0 THEN level[a] ELSE saved[t] - 1) /\ Depth(t, 0, depth[t])

(* It is unlocked once; or for the last time, or at all levels.            *)
UnlocksOne(t, a) ==
  /\ pc[t] = "inside" /\ on[t] = a /\ doing[t] = "Recursive" /\ thread[a] = t /\ level[a] > 0
  /\ pc'[t] = "inside" /\ Stays(t) /\ UNCHANGED word
  /\ Owner(t, a, thread[a], level[a] - 1) /\ Depth(t, saved[t], depth[t] - 1)
UnlocksLast(t, a) ==
  /\ pc[t] = "inside" /\ on[t] = a /\ doing[t] = "Recursive" /\ thread[a] = t /\ level[a] = 0
  /\ pc'[t] = "drop" /\ Stays(t) /\ UNCHANGED word
  /\ Owner(t, a, NULL, level[a]) /\ Depth(t, saved[t], depth[t] - 1)
UnlocksAll(t, a) ==
  /\ pc[t] = "inside" /\ on[t] = a /\ doing[t] = "Recursive" /\ thread[a] = t
  /\ pc'[t] = "drop" /\ Stays(t) /\ UNCHANGED word
  /\ Owner(t, a, NULL, 0) /\ Depth(t, level[a] + 1, depth[t])

(* The mutex inside is unlocked.                                           *)
Drops(t, a) ==
  /\ pc[t] = "drop" /\ on[t] = a
  /\ ~ word'[a].locked /\ OtherWords(a)
  /\ Owner(t, a, thread[a], level[a]) /\ Depth(t, saved[t], depth[t])
  /\ IF saved[t] = 0 THEN pc'[t] = "idle" /\ on'[t] = NULL /\ doing'[t] = "none"
     ELSE pc'[t] = "mutex" /\ Stays(t)

RecEffect(t, a) ==
  \/ LocksAgain(t, a) \/ Requests(t, a) \/ Takes(t, a) \/ Stamps(t, a)
  \/ UnlocksOne(t, a) \/ UnlocksLast(t, a) \/ UnlocksAll(t, a) \/ Drops(t, a)

LEMMA RecTypes ==
  ASSUME TypeOK
  PROVE  /\ thread \in [Addrs -> Threads \union {NULL}] /\ level \in [Addrs -> Nat]
         /\ saved \in [Threads -> Nat] /\ depth \in [Threads -> Nat]
         /\ \A t \in Threads : saved[t] \in Nat /\ depth[t] \in Nat
         /\ \A a \in Addrs : level[a] \in Nat /\ thread[a] \in Threads \union {NULL}
BY DEF TypeOK, RecursionTypeOK

(* An owner is inside, and a thread that is inside is the owner.           *)
LEMMA OwnerIs ==
  ASSUME HoldersAgree, NEW t \in Threads, NEW a \in Recursives
  PROVE  /\ thread[a] = t <=> on[t] = a /\ pc[t] = "inside" /\ doing[t] = "Recursive"
         /\ thread[a] = t => level[a] + 1 = depth[t]
BY DEF HoldersAgree, RecursionCounts, IsOwnedBy, Inside

LEMMA LockFacts ==
  ASSUME TypeOK, PlaceInv, HoldersAgree, NEW t \in Threads, NEW a \in Recursives, RecursiveLock(t, a)
  PROVE  /\ LocalsTyped(t) /\ WordTyped /\ Stay /\ RecursionTypeOK'
         /\ RecEffect(t, a) /\ RecOthers(t, a)
<1>1. a \in Addrs /\ Stay /\ UNCHANGED <<word, v, thread, saved>> /\ WordTyped
  BY Kinds, WordIsTyped DEF RecursiveLock, Stay
<1>2. /\ OnTyped(t) /\ on'[t] = a /\ DoingTyped(t) /\ doing'[t] = "Recursive" /\ SeenTyped(t)
  BY <1>1, OnIsTyped, DoingIsTyped, SeenIsTyped, InPlaces DEF RecursiveLock
<1>3. /\ depth' \in [Threads -> Nat] /\ depth'[t] = depth[t] + 1
      /\ \A u \in Threads \ {t} : depth'[u] = depth[u]
  BY RecTypes DEF RecursiveLock
<1>4. CASE IsOwnedBy(a, t)
  <2>1. pc[t] = "inside" /\ on[t] = a /\ doing[t] = "Recursive"
    BY <1>4, OwnerIs DEF IsOwnedBy
  <2>2. PlaceTyped(t) /\ pc'[t] = "inside"
    BY <1>4, GotoTyped, InPlaces DEF RecursiveLock
  <2>3. /\ level' \in [Addrs -> Nat] /\ level'[a] = level[a] + 1
        /\ \A b \in Addrs \ {a} : level'[b] = level[b]
    BY <1>1, <1>4, RecTypes DEF RecursiveLock
  <2>4. RecursionTypeOK'
    BY <1>1, <1>3, <2>3, RecTypes DEF RecursionTypeOK
  <2>5. RecOthers(t, a)
    BY <1>1, <1>3, <2>3 DEF RecOthers
  <2>6. LocksAgain(t, a)
    BY <1>1, <1>2, <1>3, <2>1, <2>2, <2>3 DEF LocksAgain, Owner, Depth
  <2> QED
    BY <1>1, <1>2, <2>2, <2>4, <2>5, <2>6 DEF LocalsTyped, RecEffect
<1>5. CASE ~ IsOwnedBy(a, t)
  <2>1. pc[t] = "idle" /\ thread[a] # t
    BY <1>5, OwnerIs DEF IsOwnedBy, RecursiveLock
  <2>2. PlaceTyped(t) /\ pc'[t] = "mutex" /\ UNCHANGED level
    BY <1>5, GotoTyped, InPlaces DEF RecursiveLock
  <2>4. RecursionTypeOK'
    BY <1>1, <1>3, <2>2, RecTypes DEF RecursionTypeOK
  <2>5. RecOthers(t, a)
    BY <1>1, <1>3, <2>2 DEF RecOthers
  <2>6. Requests(t, a)
    BY <1>1, <1>2, <1>3, <2>1, <2>2 DEF Requests, Owner, Depth
  <2> QED
    BY <1>1, <1>2, <2>2, <2>4, <2>5, <2>6 DEF LocalsTyped, RecEffect
<1> QED
  BY <1>4, <1>5

LEMMA TakeFacts ==
  ASSUME TypeOK, PlaceInv, HoldersAgree, NEW t \in Threads, TakeMutex(t)
  PROVE  /\ LocalsTyped(t) /\ WordTyped /\ Stay /\ RecursionTypeOK'
         /\ on[t] \in Recursives /\ RecEffect(t, on[t]) /\ RecOthers(t, on[t])
<1>1. /\ on[t] \in Recursives /\ on[t] \in Addrs /\ Stay
      /\ UNCHANGED <<on, doing, v, thread, level, saved, depth>> /\ pc[t] = "mutex"
      /\ ~ word[on[t]].locked
  BY Kinds DEF PlaceInv, TakeMutex, Stay, recVars
<1>2. PlaceTyped(t) /\ pc'[t] = "stamp" /\ OnTyped(t) /\ DoingTyped(t) /\ SeenTyped(t)
  BY <1>1, GotoTyped, OnIsTyped, DoingIsTyped, SeenIsTyped, InPlaces DEF TakeMutex
<1>3. WordTyped /\ word'[on[t]] = [Zero EXCEPT !.locked = TRUE] /\ OtherWords(on[t])
  BY <1>1, WordIsTyped, Words DEF TakeMutex, Set, OtherWords
<1>4. RecursionTypeOK' /\ RecOthers(t, on[t])
  BY <1>1, RecTypes DEF RecursionTypeOK, RecOthers
<1>5. Takes(t, on[t])
  BY <1>1, <1>2, <1>3 DEF Takes, Stays, Owner, Depth, Zero
<1> QED
  BY <1>1, <1>2, <1>3, <1>4, <1>5 DEF LocalsTyped, RecEffect

LEMMA StampFacts ==
  ASSUME TypeOK, PlaceInv, HoldersAgree, NEW t \in Threads, Stamp(t)
  PROVE  /\ LocalsTyped(t) /\ WordTyped /\ Stay /\ RecursionTypeOK'
         /\ on[t] \in Recursives /\ RecEffect(t, on[t]) /\ RecOthers(t, on[t])
<1>1. /\ on[t] \in Recursives /\ on[t] \in Addrs /\ Stay
      /\ UNCHANGED <<word, on, doing, v, depth>> /\ pc[t] = "stamp" /\ WordTyped
  BY Kinds, WordIsTyped DEF PlaceInv, Stamp, Stay
<1>2. PlaceTyped(t) /\ pc'[t] = "inside" /\ OnTyped(t) /\ DoingTyped(t) /\ SeenTyped(t)
  BY <1>1, GotoTyped, OnIsTyped, DoingIsTyped, SeenIsTyped, InPlaces DEF Stamp
<1>3. PICK l \in Nat : l = IF saved[t] = 0 THEN level[on[t]] ELSE saved[t] - 1
  BY <1>1, RecTypes
<1>4. /\ level' \in [Addrs -> Nat] /\ level'[on[t]] = l
      /\ \A b \in Addrs \ {on[t]} : level'[b] = level[b]
  <2>1. level' = [level EXCEPT ![on[t]] = l]
    BY <1>3 DEF Stamp
  <2> QED
    BY <2>1, <1>1, RecTypes
<1>5. /\ thread' \in [Addrs -> Threads \union {NULL}] /\ thread'[on[t]] = t
      /\ \A b \in Addrs \ {on[t]} : thread'[b] = thread[b]
  BY <1>1, RecTypes DEF Stamp
<1>6. /\ saved' \in [Threads -> Nat] /\ saved'[t] = 0
      /\ \A u \in Threads \ {t} : saved'[u] = saved[u]
  BY <1>1, RecTypes DEF Stamp
<1>7. RecursionTypeOK' /\ RecOthers(t, on[t])
  BY <1>1, <1>4, <1>5, <1>6, RecTypes DEF RecursionTypeOK, RecOthers
<1>8. Stamps(t, on[t])
  BY <1>1, <1>2, <1>3, <1>4, <1>5, <1>6 DEF Stamps, Stays, Owner, Depth
<1> QED
  BY <1>1, <1>2, <1>7, <1>8 DEF LocalsTyped, RecEffect

LEMMA UnlockFacts ==
  ASSUME TypeOK, PlaceInv, HoldersAgree, NEW t \in Threads, RecursiveUnlock(t)
  PROVE  /\ LocalsTyped(t) /\ WordTyped /\ Stay /\ RecursionTypeOK'
         /\ on[t] \in Recursives /\ RecEffect(t, on[t]) /\ RecOthers(t, on[t])
<1>1. /\ on[t] \in Recursives /\ on[t] \in Addrs /\ Stay
      /\ UNCHANGED <<word, on, doing, v, saved>> /\ WordTyped
      /\ pc[t] = "inside" /\ doing[t] = "Recursive" /\ thread[on[t]] = t
  BY Kinds, WordIsTyped DEF PlaceInv, RecursiveUnlock, Stay, IsOwnedBy
<1>2. OnTyped(t) /\ DoingTyped(t) /\ SeenTyped(t)
  BY <1>1, OnIsTyped, DoingIsTyped, SeenIsTyped
<1>3. level[on[t]] + 1 = depth[t] /\ level[on[t]] \in Nat /\ depth[t] - 1 \in Nat
  BY <1>1, OwnerIs, RecTypes
<1>4. /\ depth' \in [Threads -> Nat] /\ depth'[t] = depth[t] - 1
      /\ \A u \in Threads \ {t} : depth'[u] = depth[u]
  <2>1. depth' = [depth EXCEPT ![t] = depth[t] - 1]
    BY DEF RecursiveUnlock
  <2> QED
    BY <2>1, <1>3, RecTypes
<1>5. CASE level[on[t]] > 0
  <2>1. level' = [level EXCEPT ![on[t]] = level[on[t]] - 1] /\ UNCHANGED <<thread, pc>>
    BY <1>5 DEF RecursiveUnlock
  <2>2. /\ level' \in [Addrs -> Nat] /\ level'[on[t]] = level[on[t]] - 1
        /\ \A b \in Addrs \ {on[t]} : level'[b] = level[b]
    BY <2>1, <1>1, <1>3, <1>5, RecTypes
  <2>3. PlaceTyped(t)
    BY <2>1, GotoTyped
  <2>4. RecursionTypeOK' /\ RecOthers(t, on[t])
    BY <1>1, <1>4, <2>1, <2>2, RecTypes DEF RecursionTypeOK, RecOthers
  <2>5. UnlocksOne(t, on[t])
    BY <1>1, <1>4, <1>5, <2>1, <2>2 DEF UnlocksOne, Stays, Owner, Depth
  <2> QED
    BY <1>1, <1>2, <2>3, <2>4, <2>5 DEF LocalsTyped, RecEffect
<1>6. CASE ~ (level[on[t]] > 0)
  <2>1. thread' = [thread EXCEPT ![on[t]] = NULL] /\ UNCHANGED level
    BY <1>6 DEF RecursiveUnlock
  <2>2. /\ thread' \in [Addrs -> Threads \union {NULL}] /\ thread'[on[t]] = NULL
        /\ \A b \in Addrs \ {on[t]} : thread'[b] = thread[b]
    BY <2>1, <1>1, RecTypes
  <2>3. PlaceTyped(t) /\ pc'[t] = "drop"
    BY <1>6, GotoTyped, InPlaces DEF RecursiveUnlock
  <2>4. RecursionTypeOK' /\ RecOthers(t, on[t])
    BY <1>1, <1>4, <2>1, <2>2, RecTypes DEF RecursionTypeOK, RecOthers
  <2>5. level[on[t]] = 0
    BY <1>3, <1>6
  <2>6. UnlocksLast(t, on[t])
    BY <1>1, <1>4, <2>1, <2>2, <2>3, <2>5 DEF UnlocksLast, Stays, Owner, Depth
  <2> QED
    BY <1>1, <1>2, <2>3, <2>4, <2>6 DEF LocalsTyped, RecEffect
<1> QED
  BY <1>5, <1>6

LEMMA SaveFacts ==
  ASSUME TypeOK, PlaceInv, HoldersAgree, NEW t \in Threads, ReleaseSave(t)
  PROVE  /\ LocalsTyped(t) /\ WordTyped /\ Stay /\ RecursionTypeOK'
         /\ on[t] \in Recursives /\ RecEffect(t, on[t]) /\ RecOthers(t, on[t])
<1>1. /\ on[t] \in Recursives /\ on[t] \in Addrs /\ Stay
      /\ UNCHANGED <<word, on, doing, v, depth>> /\ WordTyped
      /\ pc[t] = "inside" /\ doing[t] = "Recursive" /\ thread[on[t]] = t
  BY Kinds, WordIsTyped DEF PlaceInv, ReleaseSave, Stay, IsOwnedBy
<1>2. OnTyped(t) /\ DoingTyped(t) /\ SeenTyped(t) /\ PlaceTyped(t) /\ pc'[t] = "drop"
  BY <1>1, OnIsTyped, DoingIsTyped, SeenIsTyped, GotoTyped, InPlaces DEF ReleaseSave
<1>3. /\ thread' \in [Addrs -> Threads \union {NULL}] /\ thread'[on[t]] = NULL
      /\ \A b \in Addrs \ {on[t]} : thread'[b] = thread[b]
  BY <1>1, RecTypes DEF ReleaseSave
<1>4. /\ level' \in [Addrs -> Nat] /\ level'[on[t]] = 0
      /\ \A b \in Addrs \ {on[t]} : level'[b] = level[b]
  BY <1>1, RecTypes DEF ReleaseSave
<1>5. level[on[t]] + 1 \in Nat
  BY <1>1, RecTypes
<1>6. /\ saved' \in [Threads -> Nat] /\ saved'[t] = level[on[t]] + 1
      /\ \A u \in Threads \ {t} : saved'[u] = saved[u]
  BY <1>1, <1>5, RecTypes DEF ReleaseSave
<1>7. RecursionTypeOK' /\ RecOthers(t, on[t])
  BY <1>1, <1>3, <1>4, <1>6, RecTypes DEF RecursionTypeOK, RecOthers
<1>8. UnlocksAll(t, on[t])
  BY <1>1, <1>2, <1>3, <1>4, <1>6 DEF UnlocksAll, Stays, Owner, Depth
<1> QED
  BY <1>1, <1>2, <1>7, <1>8 DEF LocalsTyped, RecEffect

LEMMA DropFacts ==
  ASSUME TypeOK, PlaceInv, HoldersAgree, NEW t \in Threads, DropMutex(t)
  PROVE  /\ LocalsTyped(t) /\ WordTyped /\ Stay /\ RecursionTypeOK'
         /\ on[t] \in Recursives /\ RecEffect(t, on[t]) /\ RecOthers(t, on[t])
<1>1. /\ on[t] \in Recursives /\ on[t] \in Addrs /\ Stay
      /\ UNCHANGED <<thread, level, saved, depth>> /\ pc[t] = "drop"
  BY Kinds DEF PlaceInv, DropMutex, Stay, recVars
<1>2. WordTyped /\ word'[on[t]] = Zero /\ OtherWords(on[t])
  BY <1>1, WordIsTyped, Words DEF DropMutex, Set, OtherWords
<1>3. RecursionTypeOK' /\ RecOthers(t, on[t])
  BY <1>1, RecTypes DEF RecursionTypeOK, RecOthers
<1>4. /\ LocalsTyped(t)
      /\ IF saved[t] = 0 THEN pc'[t] = "idle" /\ on'[t] = NULL /\ doing'[t] = "none"
         ELSE pc'[t] = "mutex" /\ Stays(t)
  <2>1. CASE saved[t] = 0
    BY <2>1, ReturnFacts DEF DropMutex
  <2>2. CASE saved[t] # 0
    BY <2>2, GotoTyped, OnIsTyped, DoingIsTyped, SeenIsTyped, InPlaces
    DEF DropMutex, LocalsTyped, Stays
  <2> QED
    BY <2>1, <2>2
<1>5. Drops(t, on[t])
  BY <1>1, <1>2, <1>4 DEF Drops, Owner, Depth, Zero
<1> QED
  BY <1>1, <1>2, <1>3, <1>4, <1>5 DEF RecEffect

LEMMA RecFacts ==
  ASSUME TypeOK, PlaceInv, HoldersAgree, NEW t \in Threads, RecMove(t)
  PROVE  /\ LocalsTyped(t) /\ WordTyped /\ Stay /\ RecursionTypeOK'
         /\ \E a \in Recursives : RecEffect(t, a) /\ RecOthers(t, a)
BY LockFacts, TakeFacts, StampFacts, UnlockFacts, SaveFacts, DropFacts DEF RecMove

-----------------------------------------------------------------------------
(* Recursive mutexes have one holder, whose depth they count.              *)

LEMMA OneHolder ==
  ASSUME HoldersAgree, NEW a \in Recursives, NEW t \in HoldsMutex(a), NEW u \in HoldsMutex(a)
  PROVE  t = u /\ word[a].locked
<1>1. Cardinality(HoldsMutex(a)) = IF word[a].locked THEN 1 ELSE 0
  BY DEF HoldersAgree, RecursionCounts
<1>2. IsFiniteSet(HoldsMutex(a)) /\ Cardinality(HoldsMutex(a)) # 0
  BY HoldersFinite, FS_EmptySet
<1>3. Cardinality(HoldsMutex(a)) = 1
  BY <1>1, <1>2
<1>4. PICK x : HoldsMutex(a) = {x}
  BY <1>2, <1>3, FS_Singleton
<1> QED
  BY <1>1, <1>2, <1>4

(* What a step on mutex a does to its holders, and to those of others.     *)
LEMMA RecMutexes ==
  ASSUME TypeOK, PlaceInv, HoldersAgree, NEW t \in Threads, NEW a \in Recursives,
         LocalsTyped(t), RecEffect(t, a)
  PROVE  /\ \A b \in Recursives \ {a} : HoldsMutex(b)' = HoldsMutex(b) /\ word'[b] = word[b]
         /\ \A b \in Addrs \ {a} : word'[b] = word[b]
         /\ Cardinality(HoldsMutex(a)') = IF word'[a].locked THEN 1 ELSE 0
<1> USE DEF Owner, Depth
<1>1. \A b : HoldsMutex(b)' \subseteq Threads /\ HoldsMutex(b) \subseteq Threads
  BY DEF HoldsMutex, Inside
<1>2. \A b \in Addrs \ {a} : word'[b] = word[b]
  BY DEF RecEffect, LocksAgain, Requests, Takes, Stamps, UnlocksOne, UnlocksLast, UnlocksAll, Drops, OtherWords
<1>3. on[t] \in {a, NULL} \/ pc[t] = "idle"
  BY DEF RecEffect, LocksAgain, Requests, Takes, Stamps, UnlocksOne, UnlocksLast, UnlocksAll, Drops
<1>4. on'[t] \in {a, NULL}
  BY DEF RecEffect, LocksAgain, Requests, Takes, Stamps, UnlocksOne, UnlocksLast, UnlocksAll, Drops, Stays
<1>5. ASSUME NEW b \in Recursives \ {a} PROVE HoldsMutex(b)' = HoldsMutex(b)
  <2>1. b # NULL
    BY Kinds, ParkingLotAssumption
  <2>2. t \notin HoldsMutex(b) /\ t \notin HoldsMutex(b)'
    BY <1>3, <1>4, <2>1 DEF HoldsMutex, Inside
  <2> QED
    BY <1>1, <2>2, OthersHold
<1>6. Cardinality(HoldsMutex(a)) = IF word[a].locked THEN 1 ELSE 0
  BY DEF HoldersAgree, RecursionCounts
<1>10. \A b \in Recursives \ {a} : word'[b] = word[b]
  BY <1>2, Kinds
<1>7. CASE Takes(t, a)
  <2>1. t \notin HoldsMutex(a) /\ t \in HoldsMutex(a)'
    BY <1>7 DEF Takes, Stays, HoldsMutex, Inside
  <2>2. \A u : u # t => (u \in HoldsMutex(a)' <=> u \in HoldsMutex(a))
    BY <1>1, OthersHold
  <2>3. Cardinality(HoldsMutex(a)') = Cardinality(HoldsMutex(a)) + 1
    BY <2>1, <2>2, CountMore, HoldersFinite
  <2>4. ~ word[a].locked /\ word'[a].locked
    BY <1>7 DEF Takes
  <2>5. Cardinality(HoldsMutex(a)') = IF word'[a].locked THEN 1 ELSE 0
    <3>1. Cardinality(HoldsMutex(a)) = 0
      BY <1>6, <2>4
    <3> QED
      BY <2>3, <2>4, <3>1
  <2> QED
    BY <1>2, <1>5, <1>10, <2>5
<1>8. CASE Drops(t, a)
  <2>1. t \in HoldsMutex(a) /\ t \notin HoldsMutex(a)'
    BY <1>8 DEF Drops, HoldsMutex, Inside
  <2>2. \A u : u # t => (u \in HoldsMutex(a)' <=> u \in HoldsMutex(a))
    BY <1>1, OthersHold
  <2>3. Cardinality(HoldsMutex(a)') = Cardinality(HoldsMutex(a)) - 1
    BY <2>1, <2>2, CountLess, HoldersFinite
  <2>4. word[a].locked
    BY <2>1, OneHolder
  <2>5. ~ word'[a].locked
    BY <1>8 DEF Drops
  <2>6. Cardinality(HoldsMutex(a)') = IF word'[a].locked THEN 1 ELSE 0
    <3>1. Cardinality(HoldsMutex(a)) = 1
      BY <1>6, <2>4
    <3> QED
      BY <2>3, <2>5, <3>1
  <2> QED
    BY <1>2, <1>5, <1>10, <2>6
<1>9. CASE ~ Takes(t, a) /\ ~ Drops(t, a)
  <2>1. UNCHANGED word
    BY <1>9 DEF RecEffect, LocksAgain, Requests, Stamps, UnlocksOne, UnlocksLast, UnlocksAll
  <2>2. t \in HoldsMutex(a)' <=> t \in HoldsMutex(a)
    BY <1>9 DEF RecEffect, LocksAgain, Requests, Stamps, UnlocksOne, UnlocksLast, UnlocksAll, Stays, HoldsMutex, Inside, PlaceInv
  <2>3. HoldsMutex(a)' = HoldsMutex(a)
    BY <1>1, <2>2, OthersHold
  <2> QED
    BY <1>2, <1>5, <1>6, <1>10, <2>1, <2>3
<1> QED
  BY <1>7, <1>8, <1>9

(* Nobody owns a mutex that a thread is about to stamp.                    *)
LEMMA StampUnowned ==
  ASSUME TypeOK, PlaceInv, HoldersAgree, NEW t \in Threads, NEW a \in Recursives,
         pc[t] = "stamp", on[t] = a
  PROVE  thread[a] = NULL
<1> SUFFICES ASSUME NEW u \in Threads, thread[a] = u PROVE FALSE
  BY RecTypes, Kinds
<1>1. on[u] = a /\ pc[u] = "inside" /\ doing[u] = "Recursive"
  BY OwnerIs
<1>2. t \in HoldsMutex(a) /\ u \in HoldsMutex(a)
  BY <1>1 DEF HoldsMutex, Inside
<1> QED
  BY <1>1, <1>2, OneHolder

LEMMA RecOwners ==
  ASSUME TypeOK, PlaceInv, HoldersAgree, DepthInv, NEW t \in Threads, NEW a \in Recursives,
         LocalsTyped(t), RecEffect(t, a), RecOthers(t, a)
  PROVE  \A b \in Recursives, u \in Threads :
           /\ thread'[b] = u <=> on'[u] = b /\ pc'[u] = "inside" /\ doing'[u] = "Recursive"
           /\ thread'[b] = u => level'[b] + 1 = depth'[u]
<1> USE DEF Owner, Depth
<1>1. \A b \in Recursives, u \in Threads :
        /\ thread[b] = u <=> on[u] = b /\ pc[u] = "inside" /\ doing[u] = "Recursive"
        /\ thread[b] = u => level[b] + 1 = depth[u]
  BY OwnerIs
<1>2. \A u \in Threads \ {t} : pc'[u] = pc[u] /\ on'[u] = on[u] /\ doing'[u] = doing[u]
  BY DEF LocalsTyped, PlaceTyped, OnTyped, DoingTyped
<1>3. /\ \A b \in Recursives \ {a} : thread'[b] = thread[b] /\ level'[b] = level[b]
      /\ \A u \in Threads \ {t} : depth'[u] = depth[u]
  BY Kinds DEF RecOthers
<1>4. NULL \notin Threads /\ a # NULL /\ a \in Addrs
  BY Kinds, ParkingLotAssumption
<1>5. /\ saved[t] \in Nat /\ depth[t] \in Nat /\ level[a] \in Nat
  BY <1>4, RecTypes
<1>6. ASSUME NEW b \in Recursives \ {a}, NEW u \in Threads
      PROVE  /\ thread'[b] = u <=> on'[u] = b /\ pc'[u] = "inside" /\ doing'[u] = "Recursive"
             /\ thread'[b] = u => level'[b] + 1 = depth'[u]
  <2>1. CASE u # t
    BY <2>1, <1>1, <1>2, <1>3
  <2>2. CASE u = t
    <3>1. on[t] # b \/ pc[t] # "inside"
      BY DEF RecEffect, LocksAgain, Requests, Takes, Stamps, UnlocksOne, UnlocksLast, UnlocksAll, Drops
    <3>2. on'[t] # b \/ pc'[t] # "inside"
      BY DEF RecEffect, LocksAgain, Requests, Takes, Stamps, UnlocksOne, UnlocksLast, UnlocksAll, Drops, Stays
    <3> QED
      BY <2>2, <3>1, <3>2, <1>1, <1>3
  <2> QED
    BY <2>1, <2>2
<1>7. ASSUME NEW u \in Threads
      PROVE  /\ thread'[a] = u <=> on'[u] = a /\ pc'[u] = "inside" /\ doing'[u] = "Recursive"
             /\ thread'[a] = u => level'[a] + 1 = depth'[u]
  <2>1. CASE LocksAgain(t, a)
    BY <2>1, <1>1, <1>2, <1>3, <1>5 DEF LocksAgain
  <2>2. CASE Requests(t, a) \/ Takes(t, a)
    BY <2>2, <1>1, <1>2, <1>3, <1>5 DEF Requests, Takes
  <2>3. CASE Stamps(t, a)
    <3>1. thread[a] = NULL /\ level[a] = 0 /\ doing[t] = "Recursive"
      BY <2>3, StampUnowned DEF Stamps, DepthInv, PlaceInv
    <3>2. depth[t] = IF saved[t] = 0 THEN 1 ELSE saved[t]
      BY <2>3 DEF Stamps, DepthInv
    <3> QED
      BY <2>3, <3>1, <3>2, <1>1, <1>2, <1>3, <1>4, <1>5 DEF Stamps, Stays
  <2>4. CASE UnlocksOne(t, a)
    BY <2>4, <1>1, <1>2, <1>3, <1>5 DEF UnlocksOne, Stays
  <2>5. CASE UnlocksLast(t, a) \/ UnlocksAll(t, a)
    BY <2>5, <1>1, <1>2, <1>3, <1>4 DEF UnlocksLast, UnlocksAll, Stays
  <2>6. CASE Drops(t, a)
    BY <2>6, <1>1, <1>2, <1>3, <1>4 DEF Drops, Stays
  <2> QED
    BY <2>1, <2>2, <2>3, <2>4, <2>5, <2>6 DEF RecEffect
<1> QED
  BY <1>6, <1>7

LEMMA RecHolders ==
  ASSUME TypeOK, PlaceInv, HoldersAgree, DepthInv, NEW t \in Threads, NEW a \in Recursives,
         LocalsTyped(t), RecEffect(t, a), RecOthers(t, a)
  PROVE  HoldersAgree'
<1>1. \A b, f : f \in {"Lock", "RLock", "CallOnce"} => Inside(b, f)' = Inside(b, f)
  <2> SUFFICES ASSUME NEW b, NEW f \in {"Lock", "RLock", "CallOnce"}
               PROVE  Inside(b, f)' = Inside(b, f)
    OBVIOUS
  <2>1. t \notin Inside(b, f)
    BY DEF RecEffect, LocksAgain, Requests, Takes, Stamps, UnlocksOne, UnlocksLast, UnlocksAll, Drops, Inside
  <2>2. t \notin Inside(b, f)'
    BY DEF RecEffect, LocksAgain, Requests, Takes, Stamps, UnlocksOne, UnlocksLast, UnlocksAll, Drops, Inside, Stays, PlaceInv
  <2> QED
    BY <2>1, <2>2, OthersHold DEF Inside
<1>2. \A b \in Onces \union RWs : word'[b] = word[b]
  BY RecMutexes, Kinds
<1>3. RecursionCounts'
  <2>1. \A b \in Recursives : Cardinality(HoldsMutex(b)') = IF word'[b].locked THEN 1 ELSE 0
    BY RecMutexes DEF HoldersAgree, RecursionCounts
  <2>2. \A b \in Recursives, u \in Threads :
          /\ IsOwnedBy(b, u)' <=> u \in Inside(b, "Recursive")'
          /\ IsOwnedBy(b, u)' => level'[b] + 1 = depth'[u]
    BY RecOwners DEF IsOwnedBy, Inside
  <2> QED
    BY <2>1, <2>2 DEF RecursionCounts
<1> QED
  BY <1>1, <1>2, <1>3 DEF HoldersAgree

(* Depths and saved counts.                                                *)
LEMMA RecDepth ==
  ASSUME TypeOK, PlaceInv, HoldersAgree, DepthInv, NEW t \in Threads, NEW a \in Recursives,
         LocalsTyped(t), RecEffect(t, a), RecOthers(t, a)
  PROVE  DepthInv'
<1> USE DEF Owner, Depth
<1>1. \A u \in Threads \ {t} :
        /\ pc'[u] = pc[u] /\ doing'[u] = doing[u]
        /\ saved'[u] = saved[u] /\ depth'[u] = depth[u]
  BY DEF LocalsTyped, PlaceTyped, DoingTyped, RecOthers
<1>2. \A b \in Recursives \ {a} : thread'[b] = thread[b] /\ level'[b] = level[b]
  BY Kinds DEF RecOthers
<1>3. a \in Addrs /\ saved[t] \in Nat /\ depth[t] \in Nat /\ level[a] \in Nat
  BY Kinds, RecTypes
<1>4. /\ doing[t] # "Recursive" => saved[t] = 0 /\ depth[t] = 0
      /\ pc[t] = "inside" => saved[t] = 0
      /\ pc[t] \in {"mutex", "stamp"} /\ saved[t] = 0 => depth[t] = 1
      /\ pc[t] = "drop" \/ saved[t] # 0 => depth[t] = saved[t]
      /\ thread[a] = NULL => level[a] = 0
      /\ doing[t] = "none" <=> pc[t] \in {"idle", "unpark", "wake"}
      /\ pc[t] \in {"mutex", "stamp", "drop"} => doing[t] = "Recursive"
  BY DEF DepthInv, PlaceInv
<1>5. thread[a] = t => level[a] + 1 = depth[t]
  BY OwnerIs
<1>6. t # NULL
  BY ParkingLotAssumption
<1>7. pc[t] = "inside" /\ on[t] = a /\ doing[t] = "Recursive" => thread[a] = t
  BY OwnerIs
<1>8. /\ doing'[t] # "Recursive" => saved'[t] = 0 /\ depth'[t] = 0
      /\ pc'[t] = "inside" => saved'[t] = 0
      /\ pc'[t] \in {"mutex", "stamp"} /\ saved'[t] = 0 => depth'[t] = 1
      /\ pc'[t] = "drop" \/ saved'[t] # 0 => depth'[t] = saved'[t]
      /\ thread'[a] = NULL => level'[a] = 0
  <2>1. CASE LocksAgain(t, a)
    BY <2>1, <1>3, <1>4, <1>6, <1>7 DEF LocksAgain
  <2>2. CASE Requests(t, a)
    BY <2>2, <1>3, <1>4 DEF Requests
  <2>3. CASE Takes(t, a)
    BY <2>3, <1>3, <1>4 DEF Takes, Stays
  <2>4. CASE Stamps(t, a)
    BY <2>4, <1>3, <1>4, <1>6 DEF Stamps, Stays
  <2>5. CASE UnlocksOne(t, a)
    BY <2>5, <1>3, <1>4, <1>6 DEF UnlocksOne, Stays
  <2>6. CASE UnlocksLast(t, a)
    BY <2>6, <1>3, <1>4, <1>5 DEF UnlocksLast, Stays
  <2>7. CASE UnlocksAll(t, a)
    BY <2>7, <1>3, <1>4, <1>5 DEF UnlocksAll, Stays
  <2>8. CASE Drops(t, a)
    BY <2>8, <1>3, <1>4 DEF Drops, Stays
  <2> QED
    BY <2>1, <2>2, <2>3, <2>4, <2>5, <2>6, <2>7, <2>8 DEF RecEffect
<1> QED
  BY <1>1, <1>2, <1>8 DEF DepthInv

-----------------------------------------------------------------------------
(* What the steps in the parking lot do, case by case.                     *)

OthersLot(t) ==
  \A u \in Threads \ {t} :
    /\ at'[u] = at[u] /\ unparking'[u] = unparking[u]
    /\ sema'[u] = sema[u] /\ park'[u] = park[u]

Out(t) == park'[t] = "out" /\ at'[t] = NULL /\ ~ unparking'[t] /\ sema'[t] = 0

(* A thread goes to sleep on the value it has seen.                        *)
Sleeps(t) ==
  /\ pc[t] = "park" /\ pc'[t] = "parked" /\ word[on[t]] = v[t] /\ UNCHANGED <<on, posts>>
  /\ park'[t] = "waiting" /\ at'[t] = on[t] /\ ~ unparking'[t] /\ sema'[t] = 0
  /\ OthersLot(t)

(* Its Park is over, if it has ever begun.                                 *)
Parks(t) ==
  /\ pc[t] \in {"park", "parked"} /\ UNCHANGED <<on, posts>>
  /\ pc'[t] = IF doing[t] \in Waits THEN "check" ELSE "load"
  /\ sema[t] > 0 \/ ~ unparking[t]
  /\ Out(t) /\ OthersLot(t)

(* It is interrupted, or waits for the post that is on its way.            *)
Turns(t) ==
  /\ pc[t] = "parked" /\ UNCHANGED <<pc, on, posts, at, unparking, sema>>
  /\ park'[t] # "out" /\ (Asleep(t)' <=> Asleep(t)) /\ OthersLot(t)

(* Everybody who sleeps on its word is dequeued.                           *)
Dequeues(t) ==
  /\ pc[t] = "unpark" /\ on'[t] = NULL /\ UNCHANGED <<at, sema, park>>
  /\ \A u \in Threads : unparking'[u] <=> unparking[u] \/ (Asleep(u) /\ at[u] = on[t])
  /\ \A u \in Threads \ {t} : posts'[u] = posts[u]
  /\ IsInjective(posts'[t])
  /\ \A u : u \in ToSet(posts'[t]) <=> u \in Threads /\ Asleep(u) /\ at[u] = on[t]
  /\ pc'[t] = IF posts'[t] = << >> THEN "idle" ELSE "wake"

(* One of them gets its semaphore.                                         *)
Posts(t) ==
  /\ pc[t] = "wake" /\ UNCHANGED <<on, queue, at, unparking, park>>
  /\ \A u \in Threads \ {t} : posts'[u] = posts[u]
  /\ IsInjective(posts'[t])
  /\ \E w \in ToSet(posts[t]) :
       /\ sema'[w] = 1 /\ \A u \in Threads \ {w} : sema'[u] = sema[u]
       /\ ToSet(posts'[t]) = ToSet(posts[t]) \ {w}
  /\ pc'[t] = IF posts'[t] = << >> THEN "idle" ELSE "wake"

LotEffect(t) == Sleeps(t) \/ Parks(t) \/ Turns(t) \/ Dequeues(t) \/ Posts(t)

LotTyped == LotTypeOK' /\ QueuesExact' /\ posts' \in [Threads -> Seq(Threads)]

LEMMA LotTypes ==
  ASSUME TypeOK
  PROVE  /\ LotTypeOK
         /\ at \in [Threads -> Addrs \union {NULL}] /\ unparking \in [Threads -> BOOLEAN]
         /\ sema \in [Threads -> 0 .. 1] /\ park \in [Threads -> {"out"} \union Parking]
         /\ queue \in [Buckets -> Seq(Threads)] /\ posts \in [Threads -> Seq(Threads)]
BY DEF TypeOK, WordsTypeOK, LotTypeOK

LEMMA EntryOutFacts ==
  ASSUME TypeOK, NEW t \in Threads, EntryOut(t)
  PROVE  Out(t) /\ OthersLot(t)
BY LotTypes DEF EntryOut, Out, OthersLot

(* The parking lot stays exact when Park returns with a wakeup.            *)
LEMMA ParkOKStep ==
  ASSUME TypeOK, QueuesExact, EntriesOK, NEW t \in Threads, ParkOK(t)
  PROVE  LotTypeOK' /\ QueuesExact' /\ Out(t) /\ OthersLot(t) /\ sema[t] > 0
<1>1. /\ queue' = queue /\ sema[t] > 0 /\ unparking[t] /\ EntryOut(t)
  BY DEF ParkOK, EntriesOK
<1>2. Out(t) /\ OthersLot(t)
  BY <1>1, EntryOutFacts
<1>3. LotTypeOK'
  <2>1. unparking' \in [Threads -> BOOLEAN]
    BY <1>1, LotTypes, Zenon DEF EntryOut
  <2> QED
    BY <1>1, <2>1, LotTypes DEF EntryOut, LotTypeOK
<1>4. \A u \in Threads : park'[u] # "out" => at'[u] = at[u] /\ park[u] # "out"
  BY <1>2 DEF Out, OthersLot
<1>5. \A u \in Threads :
        (park'[u] \in {"waiting"} \union Expired /\ ~ unparking'[u])
          <=> (park[u] \in {"waiting"} \union Expired /\ ~ unparking[u])
  BY <1>1, <1>2 DEF Out, OthersLot, Expired
<1> QED
  BY <1>1, <1>2, <1>3, <1>4, <1>5, LotTypes, QueuesSame

(* And when only the place of a thread in Park changes.                    *)
LEMMA TurnStep ==
  ASSUME TypeOK, QueuesExact, EntriesOK, NEW t \in Threads, NEW p \in Parking,
         park' = [park EXCEPT ![t] = p], UNCHANGED <<queue, at, unparking, sema>>,
         park[t] # "out",
         (p \in {"waiting"} \union Expired /\ ~ unparking[t])
           <=> (park[t] \in {"waiting"} \union Expired /\ ~ unparking[t])
  PROVE  /\ LotTypeOK' /\ QueuesExact' /\ OthersLot(t) /\ park'[t] # "out"
         /\ Asleep(t)' <=> Asleep(t)
<1>1. park'[t] = p /\ \A u \in Threads \ {t} : park'[u] = park[u]
  BY LotTypes
<1>2. LotTypeOK'
  BY LotTypes DEF LotTypeOK
<1>3. OthersLot(t)
  BY <1>1 DEF OthersLot
<1>4. /\ \A u \in Threads : park'[u] # "out" => at'[u] = at[u] /\ park[u] # "out"
      /\ \A u \in Threads :
           (park'[u] \in {"waiting"} \union Expired /\ ~ unparking'[u])
             <=> (park[u] \in {"waiting"} \union Expired /\ ~ unparking[u])
  BY <1>1
<1> QED
  BY <1>1, <1>2, <1>3, <1>4, LotTypes, QueuesSame DEF Asleep, Parking, Expired

LEMMA EntriesAre ==
  ASSUME TypeOK, PlaceInv, EntryInv
  PROVE  /\ EntriesOK
         /\ \A u \in Threads : pc[u] = "parked" => on[u] \in Addrs /\ at[u] = on[u]
         /\ \A u \in Threads : pc[u] # "parked" =>
              park[u] = "out" /\ at[u] = NULL /\ ~ unparking[u] /\ sema[u] = 0
<1>1. \A u \in Threads : pc[u] = "parked" => on[u] \in Addrs
  BY Kinds DEF PlaceInv, TypeOK, WordsTypeOK, Doing, Waits
<1>2. \A u \in Threads : sema[u] > 0 => unparking[u]
  BY LotTypes DEF EntryInv
<1> QED
  BY <1>1, <1>2, ParkingLotAssumption DEF EntryInv, EntriesOK

LEMMA AfterParkFacts ==
  ASSUME TypeOK, NEW t \in Threads, AfterPark(t)
  PROVE  PlaceTyped(t) /\ pc'[t] = IF doing[t] \in Waits THEN "check" ELSE "load"
BY GotoTyped, InPlaces DEF AfterPark

LEMMA ParkFacts ==
  ASSUME TypeOK, PlaceInv, EntryInv, QueuesExact, NEW t \in Threads, Park(t)
  PROVE  LocalsTyped(t) /\ LotTyped /\ UNCHANGED <<word, doing, v>> /\ LotEffect(t)
<1>1. pc[t] = "park" /\ UNCHANGED <<word, on, doing, v, posts>>
  BY DEF Park
<1>2. OnTyped(t) /\ DoingTyped(t) /\ SeenTyped(t)
  BY <1>1, OnIsTyped, DoingIsTyped, SeenIsTyped
<1>3. posts' \in [Threads -> Seq(Threads)]
  BY <1>1, LotTypes
<1>4. park[t] = "out" /\ at[t] = NULL /\ ~ unparking[t] /\ sema[t] = 0
  BY <1>1, EntriesAre
<1>5. on[t] \in Addrs
  BY <1>1, Kinds DEF PlaceInv, TypeOK, WordsTypeOK, Doing, Waits
<1>6. CASE ~ Changed(t) /\ Enqueue(t, on[t]) /\ Goto(t, "parked")
  <2>1. PlaceTyped(t) /\ pc'[t] = "parked"
    BY <1>6, GotoTyped, InPlaces
  <2>2. LotTypeOK' /\ QueuesExact'
    BY <1>4, <1>5, <1>6, EntriesAre, LotTypes, EnqueueStep DEF EntriesOK
  <2>3. /\ park'[t] = "waiting" /\ at'[t] = on[t] /\ ~ unparking'[t] /\ sema'[t] = 0
        /\ OthersLot(t)
    BY <1>6, LotTypes DEF Enqueue, EntryIn, OthersLot
  <2>4. Sleeps(t)
    BY <1>1, <1>6, <2>1, <2>3 DEF Sleeps, Changed
  <2> QED
    BY <1>1, <1>2, <1>3, <2>1, <2>2, <2>4 DEF LocalsTyped, LotTyped, LotEffect
<1>7. CASE AfterPark(t) /\ UNCHANGED lotVars
  <2>1. /\ PlaceTyped(t) /\ pc'[t] = IF doing[t] \in Waits THEN "check" ELSE "load"
    BY <1>7, AfterParkFacts
  <2>2. LotTypeOK' /\ QueuesExact'
    BY <1>7, LotTypes DEF LotTypeOK, lotVars, QueuesExact, Queued
  <2>3. Out(t) /\ OthersLot(t)
    BY <1>4, <1>7 DEF lotVars, Out, OthersLot
  <2>4. Parks(t)
    BY <1>1, <1>4, <2>1, <2>3 DEF Parks
  <2> QED
    BY <1>1, <1>2, <1>3, <2>1, <2>2, <2>4 DEF LocalsTyped, LotTyped, LotEffect
<1> QED
  BY <1>6, <1>7 DEF Park

LEMMA WokenFacts ==
  ASSUME TypeOK, PlaceInv, EntryInv, QueuesExact, NEW t \in Threads, Woken(t) \/ ParkFails(t)
  PROVE  LocalsTyped(t) /\ LotTyped /\ UNCHANGED <<word, doing, v>> /\ LotEffect(t)
<1>1. pc[t] = "parked" /\ UNCHANGED <<word, on, doing, v, posts>> /\ AfterPark(t)
  BY DEF Woken, ParkFails
<1>2. OnTyped(t) /\ DoingTyped(t) /\ SeenTyped(t)
  BY <1>1, OnIsTyped, DoingIsTyped, SeenIsTyped
<1>3. posts' \in [Threads -> Seq(Threads)]
  BY <1>1, LotTypes
<1>4. PlaceTyped(t) /\ pc'[t] = IF doing[t] \in Waits THEN "check" ELSE "load"
  BY <1>1, AfterParkFacts
<1>5. /\ LotTypeOK' /\ QueuesExact' /\ Out(t) /\ OthersLot(t)
      /\ sema[t] > 0 \/ ~ unparking[t]
  <2>1. CASE Woken(t)
    BY <2>1, EntriesAre, ParkOKStep DEF Woken
  <2>2. CASE ParkFails(t)
    BY <2>2, EntriesAre, LotTypes, WithdrawStep, EntryOutFacts DEF ParkFails, Withdraw
  <2> QED
    BY <2>1, <2>2
<1>6. Parks(t)
  BY <1>1, <1>4, <1>5 DEF Parks
<1> QED
  BY <1>1, <1>2, <1>3, <1>4, <1>5, <1>6 DEF LocalsTyped, LotTyped, LotEffect

LEMMA TurnFacts ==
  ASSUME TypeOK, PlaceInv, EntryInv, QueuesExact, NEW t \in Threads, Expire(t) \/ Drain(t)
  PROVE  LocalsTyped(t) /\ LotTyped /\ UNCHANGED <<word, doing, v>> /\ LotEffect(t)
<1>1. pc[t] = "parked" /\ UNCHANGED <<word, pc, on, doing, v, posts>>
  BY DEF Expire, Drain, wordVars
<1>2. LocalsTyped(t)
  BY <1>1, GotoTyped, OnIsTyped, DoingIsTyped, SeenIsTyped DEF LocalsTyped
<1>3. posts' \in [Threads -> Seq(Threads)]
  BY <1>1, LotTypes
<1>4. park[t] # "out"
  BY <1>1 DEF EntryInv
<1>5. /\ LotTypeOK' /\ QueuesExact' /\ OthersLot(t) /\ park'[t] # "out"
      /\ (Asleep(t)' <=> Asleep(t)) /\ UNCHANGED <<at, unparking, sema>>
  <2>1. CASE Expire(t)
    <3>1. PICK p \in Expired : WaitExpires(t, p)
      BY <2>1, LockWordsAssumption DEF Expire
    <3>2. /\ p \in Parking /\ p \in {"waiting"} \union Expired
          /\ park[t] \in {"waiting"} \union Expired
      BY <3>1 DEF WaitExpires, Expired, Parking
    <3> QED
      BY <3>1, <3>2, <1>4, EntriesAre, TurnStep DEF WaitExpires
  <2>2. CASE Drain(t)
    <3>1. unparking[t] /\ "drain" \in Parking
      BY <2>2 DEF Drain, MustDrain, Parking
    <3> QED
      BY <2>2, <3>1, <1>4, EntriesAre, TurnStep DEF Drain, MustDrain
  <2> QED
    BY <2>1, <2>2
<1>6. Turns(t)
  BY <1>1, <1>5 DEF Turns
<1> QED
  BY <1>1, <1>2, <1>3, <1>5, <1>6 DEF LotTyped, LotEffect

LEMMA UnparkFacts ==
  ASSUME TypeOK, PlaceInv, EntryInv, QueuesExact, NEW t \in Threads, UnparkAll(t)
  PROVE  LocalsTyped(t) /\ LotTyped /\ UNCHANGED <<word, doing, v>> /\ LotEffect(t)
<1>1. pc[t] = "unpark" /\ UNCHANGED <<word, doing, v>> /\ DequeueAll(on[t])
  BY DEF UnparkAll
<1>2. PICK a \in Addrs : a = on[t]
  BY <1>1 DEF PlaceInv
<1>3. OnTyped(t) /\ on'[t] = NULL /\ DoingTyped(t) /\ SeenTyped(t)
  BY <1>1, OnIsTyped, DoingIsTyped, SeenIsTyped DEF UnparkAll
<1>4. /\ LotTypeOK' /\ QueuesExact'
      /\ Waiters(a) \in Seq(Threads) /\ IsInjective(Waiters(a))
      /\ \A u : u \in ToSet(Waiters(a)) <=> u \in Threads /\ Asleep(u) /\ at[u] = a
      /\ \A u \in Threads : unparking'[u] <=> unparking[u] \/ (Asleep(u) /\ at[u] = a)
  BY <1>1, <1>2, EntriesAre, LotTypes, DequeueAllStep
<1>5. posts' = [posts EXCEPT ![t] = Waiters(a)]
  BY <1>2 DEF UnparkAll
<1>6. /\ posts' \in [Threads -> Seq(Threads)] /\ posts'[t] = Waiters(a)
      /\ \A u \in Threads \ {t} : posts'[u] = posts[u]
  BY <1>4, <1>5, LotTypes
<1>7. PlaceTyped(t) /\ pc'[t] = IF posts'[t] = << >> THEN "idle" ELSE "wake"
  BY GotoTyped, InPlaces DEF UnparkAll
<1>8. UNCHANGED <<at, sema, park>>
  BY <1>1 DEF DequeueAll
<1>9. Dequeues(t)
  BY <1>1, <1>2, <1>3, <1>4, <1>6, <1>7, <1>8 DEF Dequeues
<1> QED
  BY <1>1, <1>3, <1>4, <1>6, <1>7, <1>9 DEF LocalsTyped, LotTyped, LotEffect

(* Taking the head of a sequence without repetitions.                      *)
LEMMA TailFacts ==
  ASSUME NEW S, NEW q \in Seq(S), IsInjective(q), q # << >>
  PROVE  /\ Head(q) \in ToSet(q) /\ Head(q) \in S
         /\ Tail(q) \in Seq(S) /\ IsInjective(Tail(q))
         /\ ToSet(Tail(q)) = ToSet(q) \ {Head(q)}
<1> DEFINE r == Tail(q)
           n == Len(q)
<1>1. n \in Nat /\ n > 0 /\ DOMAIN q = 1 .. n /\ \A i \in 1 .. n : q[i] \in S
  BY EmptySeq
<1>2. r \in Seq(S) /\ Len(r) = n - 1 /\ \A i \in 1 .. n - 1 : r[i] = q[i + 1]
  BY <1>1, HeadTailProperties
<1>3. DOMAIN r = 1 .. n - 1
  BY <1>2
<1>4. Head(q) = q[1]
  OBVIOUS
<1> HIDE DEF r, n
<1>5. \A i, j \in 1 .. n : q[i] = q[j] => i = j
  BY <1>1 DEF IsInjective
<1>6. IsInjective(r)
  <2> SUFFICES ASSUME NEW i \in 1 .. n - 1, NEW j \in 1 .. n - 1, r[i] = r[j] PROVE i = j
    BY <1>3 DEF IsInjective
  <2>1. i + 1 \in 1 .. n /\ j + 1 \in 1 .. n /\ q[i + 1] = q[j + 1]
    BY <1>1, <1>2
  <2> QED
    BY <1>5, <2>1
<1>7. \A u : u \in ToSet(r) <=> \E i \in 1 .. n - 1 : r[i] = u
  BY <1>3 DEF ToSet
<1>8. \A u : u \in ToSet(q) <=> \E i \in 1 .. n : q[i] = u
  BY <1>1 DEF ToSet
<1>9. ASSUME NEW u PROVE u \in ToSet(r) <=> u \in ToSet(q) /\ u # q[1]
  <2>1. ASSUME u \in ToSet(r) PROVE u \in ToSet(q) /\ u # q[1]
    <3>1. PICK i \in 1 .. n - 1 : r[i] = u
      BY <1>7, <2>1
    <3>2. i + 1 \in 1 .. n /\ q[i + 1] = u /\ 1 \in 1 .. n /\ i + 1 # 1
      BY <1>1, <1>2, <3>1
    <3> QED
      BY <1>5, <1>8, <3>2
  <2>2. ASSUME u \in ToSet(q), u # q[1] PROVE u \in ToSet(r)
    <3>1. PICK i \in 1 .. n : q[i] = u
      BY <1>8, <2>2
    <3>2. i # 1
      BY <2>2, <3>1
    <3>3. i - 1 \in 1 .. n - 1 /\ r[i - 1] = q[(i - 1) + 1] /\ (i - 1) + 1 = i
      BY <1>1, <1>2, <3>2
    <3> QED
      BY <1>7, <3>1, <3>3
  <2> QED
    BY <2>1, <2>2
<1>10. q[1] \in ToSet(q) /\ q[1] \in S
  BY <1>1, <1>8
<1>11. ToSet(r) = ToSet(q) \ {q[1]}
  BY <1>9
<1> QED
  BY <1>2, <1>4, <1>6, <1>10, <1>11 DEF r

LEMMA PostFacts ==
  ASSUME TypeOK, PlaceInv, EntryInv, QueuesExact, PostsAlive, NEW t \in Threads, Post(t)
  PROVE  LocalsTyped(t) /\ LotTyped /\ UNCHANGED <<word, doing, v>> /\ LotEffect(t)
<1>1. pc[t] = "wake" /\ UNCHANGED <<word, on, doing, v>> /\ UNCHANGED <<queue, at, unparking, park>>
  BY DEF Post, Wakeup
<1>2. OnTyped(t) /\ DoingTyped(t) /\ SeenTyped(t)
  BY <1>1, OnIsTyped, DoingIsTyped, SeenIsTyped
<1>3. posts[t] \in Seq(Threads) /\ posts[t] # << >> /\ IsInjective(posts[t])
  BY <1>1, LotTypes DEF EntryInv, PostsAlive
<1>4. PICK w : w = Head(posts[t])
  OBVIOUS
<1>5. /\ w \in ToSet(posts[t]) /\ w \in Threads
      /\ Tail(posts[t]) \in Seq(Threads) /\ IsInjective(Tail(posts[t]))
      /\ ToSet(Tail(posts[t])) = ToSet(posts[t]) \ {w}
  BY <1>3, <1>4, TailFacts
<1>6. /\ posts' \in [Threads -> Seq(Threads)] /\ posts'[t] = Tail(posts[t])
      /\ \A u \in Threads \ {t} : posts'[u] = posts[u]
  BY <1>5, LotTypes DEF Post
<1>7. sema[w] = 0
  BY <1>5 DEF PostsAlive
<1>8. sema' = [sema EXCEPT ![w] = 1]
  BY <1>4, <1>7 DEF Post, Wakeup
<1>9. /\ sema' \in [Threads -> 0 .. 1] /\ sema'[w] = 1
      /\ \A u \in Threads \ {w} : sema'[u] = sema[u]
  BY <1>5, <1>8, LotTypes
<1>10. LotTypeOK' /\ QueuesExact'
  <2>1. LotTypeOK'
    BY <1>1, <1>9, LotTypes DEF LotTypeOK
  <2>2. \A u \in Threads : Queued(u)' <=> Queued(u)
    BY <1>1 DEF Queued
  <2>3. QueuesExact'
    BY <1>1, <2>2 DEF QueuesExact
  <2> QED
    BY <2>1, <2>3
<1>11. PlaceTyped(t) /\ pc'[t] = IF posts'[t] = << >> THEN "idle" ELSE "wake"
  BY GotoTyped, InPlaces DEF Post
<1>12. Posts(t)
  BY <1>1, <1>5, <1>6, <1>9, <1>11 DEF Posts
<1> QED
  BY <1>1, <1>2, <1>6, <1>10, <1>11, <1>12 DEF LocalsTyped, LotTyped, LotEffect

LEMMA LotFacts ==
  ASSUME TypeOK, PlaceInv, EntryInv, QueuesExact, PostsAlive, NEW t \in Threads, LotMove(t)
  PROVE  LocalsTyped(t) /\ LotTyped /\ UNCHANGED <<word, doing, v>> /\ LotEffect(t)
BY ParkFacts, WokenFacts, TurnFacts, UnparkFacts, PostFacts DEF LotMove

-----------------------------------------------------------------------------
(* The rest of the invariant, part by part.                                *)

(* PlaceInv, EntryInv and ReasonInv speak of one thread at a time.         *)
Placed(t) ==
  /\ doing[t] = "none" <=> pc[t] \in {"idle", "unpark", "wake"}
  /\ doing[t] = "Recursive" => on[t] \in Recursives /\ pc[t] \in {"mutex", "stamp", "inside", "drop"}
  /\ pc[t] \in {"mutex", "stamp", "drop"} => doing[t] = "Recursive"
  /\ doing[t] \in Waits => on[t] \in Events /\ pc[t] # "inside"
  /\ pc[t] = "check" => doing[t] \in Waits
  /\ doing[t] = "CallOnce" => on[t] \in Onces
  /\ doing[t] \in {"RLock", "Lock"} => on[t] \in RWs
  /\ pc[t] = "unpark" => on[t] \in Addrs \ Recursives

Reasoned(t) ==
  pc[t] = "park" =>
    /\ v[t].parked
    /\ doing[t] \in Waits => ~ v[t].locked
    /\ doing[t] = "CallOnce" => v[t].locked
    /\ doing[t] = "Lock" => v[t].locked \/ v[t].count > 0

LEMMA PlacedNext ==
  ASSUME PlaceInv, NEW t \in Threads, LocalsTyped(t), Placed(t)'
  PROVE  PlaceInv'
<1>1. \A u \in Threads \ {t} : Placed(u) /\ pc'[u] = pc[u] /\ on'[u] = on[u] /\ doing'[u] = doing[u]
  BY DEF PlaceInv, Placed, LocalsTyped, PlaceTyped, OnTyped, DoingTyped
<1>2. \A u \in Threads \ {t} : Placed(u)'
  BY <1>1 DEF Placed
<1> QED
  BY <1>2 DEF PlaceInv, Placed

LEMMA ReasonedNext ==
  ASSUME ReasonInv, NEW t \in Threads, LocalsTyped(t), Reasoned(t)'
  PROVE  ReasonInv'
<1>1. \A u \in Threads \ {t} : Reasoned(u) /\ pc'[u] = pc[u] /\ v'[u] = v[u] /\ doing'[u] = doing[u]
  BY DEF ReasonInv, Reasoned, LocalsTyped, PlaceTyped, SeenTyped, DoingTyped
<1>2. \A u \in Threads \ {t} : Reasoned(u)'
  BY <1>1 DEF Reasoned
<1> QED
  BY <1>2 DEF ReasonInv, Reasoned

(* What the steps on words leave alone.                                    *)
LEMMA StayTyped ==
  ASSUME TypeOK, NEW t \in Threads, LocalsTyped(t), WordTyped, Stay, RecursionTypeOK', UNCHANGED uses
  PROVE  TypeOK'
<1>1. LotTypeOK'
  BY LotTypes DEF Stay, lotVars, LotTypeOK
<1>2. posts' \in [Threads -> Seq(Threads)]
  BY LotTypes DEF Stay
<1> QED
  BY <1>1, <1>2 DEF TypeOK, WordsTypeOK, LocalsTyped, PlaceTyped, OnTyped, DoingTyped, SeenTyped, WordTyped, Places

LEMMA StayEntries ==
  ASSUME TypeOK, EntryInv, QueuesExact, PostsAlive, NEW t \in Threads, LocalsTyped(t), Stay,
         pc[t] \notin {"parked", "wake"}, pc'[t] \notin {"parked", "wake"}
  PROVE  EntryInv' /\ QueuesExact' /\ PostsAlive' /\ \A u : Queued(u)' <=> Queued(u)
<1>1. UNCHANGED <<queue, at, unparking, sema, park, posts>>
  BY DEF Stay, lotVars
<1>2. \A u : Queued(u)' <=> Queued(u)
  BY <1>1 DEF Queued
<1>3. QueuesExact'
  BY <1>1, <1>2 DEF QueuesExact
<1>4. PostsAlive'
  BY <1>1 DEF PostsAlive
<1>5. EntryInv'
  BY <1>1 DEF EntryInv, LocalsTyped, PlaceTyped, OnTyped
<1> QED
  BY <1>2, <1>3, <1>4, <1>5

LEMMA RecStays ==
  ASSUME TypeOK, UNCHANGED recVars
  PROVE  RecursionTypeOK'
BY DEF TypeOK, RecursionTypeOK, recVars

(* The steps on words.                                                     *)
LEMMA EffectPlaces ==
  ASSUME TypeOK, PlaceInv, EntryInv, NEW t \in Threads, Effect(t)
  PROVE  /\ Placed(t)' /\ (ReasonInv => Reasoned(t)')
         /\ pc[t] \in {"idle", "load", "loop", "check", "inside"} /\ doing[t] # "Recursive"
         /\ pc'[t] \notin {"parked", "wake", "mutex", "stamp", "drop"} /\ doing'[t] # "Recursive"
<1> USE DEF Waits
<1>1. Placed(t)
  BY DEF PlaceInv, Placed
<1>2. CASE Asks(t)
  BY <1>1, <1>2, Kinds DEF Asks, Placed, Reasoned
<1>3. CASE Notifies(t)
  BY <1>1, <1>3, Kinds DEF Notifies, Placed, Reasoned
<1>4. CASE Looks(t)
  BY <1>1, <1>4 DEF Looks, Stays, Placed, Reasoned
<1>5. CASE Announces(t)
  BY <1>1, <1>5 DEF Announces, Stays, Placed, Reasoned
<1>6. CASE Quits(t)
  BY <1>1, <1>6 DEF Quits, Placed, Reasoned
<1>7. CASE Enters(t)
  BY <1>1, <1>7 DEF Enters, Stays, Placed, Reasoned
<1>8. CASE Leaves(t)
  BY <1>1, <1>8, Kinds DEF Leaves, Placed, Reasoned
<1> QED
  BY <1>2, <1>3, <1>4, <1>5, <1>6, <1>7, <1>8 DEF Effect

LEMMA EffectDepth ==
  ASSUME DepthInv, NEW t \in Threads, LocalsTyped(t), UNCHANGED recVars, doing[t] # "Recursive",
         pc'[t] \notin {"mutex", "stamp", "drop"}
  PROVE  DepthInv'
<1>1. UNCHANGED <<thread, level, saved, depth>>
  BY DEF recVars
<1>2. saved[t] = 0 /\ depth[t] = 0
  BY DEF DepthInv
<1>3. \A u \in Threads \ {t} : pc'[u] = pc[u] /\ doing'[u] = doing[u]
  BY DEF LocalsTyped, PlaceTyped, DoingTyped
<1> QED
  BY <1>1, <1>2, <1>3 DEF DepthInv

(* Writers that are about, and somebody about to unpark.                   *)
Writes(u, a) == on[u] = a /\ doing[u] = "Lock" /\ pc[u] # "inside"
Wakes(u, a) == on[u] = a /\ pc[u] = "unpark"
Cares(u, a) == Writes(u, a) /\ ~ Queued(u)

LEMMA WriterForm ==
  /\ \A a : AwakeWriter(a) <=> \E u \in Threads : Cares(u, a)
  /\ \A a : Unparking(a) <=> \E u \in Threads : Wakes(u, a)
  /\ WriterInv <=>
       \A a \in RWs : word[a].parked /\ ~ word[a].locked =>
         /\ \E u \in Threads : Writes(u, a)
         /\ word[a].count = 0 => \E u \in Threads : Wakes(u, a) \/ Cares(u, a)
BY DEF AwakeWriter, Unparking, WriterInv, Writes, Wakes, Cares

LEMMA WriterFormNext ==
  /\ \A a : AwakeWriter(a)' <=> \E u \in Threads : Cares(u, a)'
  /\ \A a : Unparking(a)' <=> \E u \in Threads : Wakes(u, a)'
  /\ WriterInv' <=>
       \A a \in RWs : word'[a].parked /\ ~ word'[a].locked =>
         /\ \E u \in Threads : Writes(u, a)'
         /\ word'[a].count = 0 => \E u \in Threads : Wakes(u, a)' \/ Cares(u, a)'
BY DEF AwakeWriter, Unparking, WriterInv, Writes, Wakes, Cares

(* What is known of the word on which a thread sleeps.                     *)
CaredFor(a) ==
  \/ \E u \in Threads : Wakes(u, a)
  \/ /\ word[a].parked
     /\ \/ a \in Events /\ ~ word[a].locked
        \/ a \in Onces /\ word[a].locked
        \/ a \in RWs /\ (word[a].locked \/ word[a].count > 0 \/ \E u \in Threads : Cares(u, a))

LEMMA CareForm ==
  /\ SleepersCared <=> \A u \in Threads : Queued(u) => CaredFor(at[u])
  /\ SleepersCared' <=> \A u \in Threads : Queued(u)' => CaredFor(at[u])'
BY DEF SleepersCared, CaredFor, AwakeWriter, Unparking, Wakes, Cares, Writes

LEMMA OthersCare ==
  ASSUME NEW t \in Threads, LocalsTyped(t), NEW u \in Threads \ {t}
  PROVE  \A a : /\ Writes(u, a)' <=> Writes(u, a)
                /\ Wakes(u, a)' <=> Wakes(u, a)
                /\ (Queued(u)' => Queued(u)) => (Cares(u, a) => Cares(u, a)')
BY DEF LocalsTyped, PlaceTyped, OnTyped, DoingTyped, Writes, Wakes, Cares

(* A step on a word keeps the announcements and their writers.             *)
LEMMA EffectWriter ==
  ASSUME TypeOK, PlaceInv, EntryInv, HoldersAgree, WriterInv, NEW t \in Threads,
         LocalsTyped(t), WordTyped, Effect(t), \A u : Queued(u)' <=> Queued(u)
  PROVE  WriterInv'
<1>1. \A a \in RWs : word[a].parked /\ ~ word[a].locked =>
        /\ \E u \in Threads : Writes(u, a)
        /\ word[a].count = 0 => \E u \in Threads : Wakes(u, a) \/ Cares(u, a)
  BY WriterForm
<1> SUFFICES ASSUME NEW a \in RWs, word'[a].parked, ~ word'[a].locked
             PROVE  /\ \E u \in Threads : Writes(u, a)'
                    /\ word'[a].count = 0 => \E u \in Threads : Wakes(u, a)' \/ Cares(u, a)'
  BY WriterFormNext
<1>2. \A u \in Threads \ {t} :
        /\ Writes(u, a) => Writes(u, a)'
        /\ Wakes(u, a) => Wakes(u, a)'
        /\ Cares(u, a) => Cares(u, a)'
  BY OthersCare
<1>3. /\ a \in Addrs /\ a \notin Events /\ a \notin Onces
      /\ doing[t] = "none" <=> pc[t] \in {"idle", "unpark", "wake"}
      /\ doing[t] \in Waits => on[t] \in Events
      /\ doing[t] = "CallOnce" => on[t] \in Onces
  BY Kinds DEF PlaceInv
<1>4. ASSUME UNCHANGED word, ~ Writes(t, a), ~ Wakes(t, a)
      PROVE  /\ \E u \in Threads : Writes(u, a)'
             /\ word'[a].count = 0 => \E u \in Threads : Wakes(u, a)' \/ Cares(u, a)'
  <2>1. ~ Cares(t, a) /\ word'[a] = word[a]
    BY <1>4 DEF Cares
  <2> QED
    BY <1>1, <1>2, <1>4, <2>1
<1>5. CASE Asks(t) \/ Quits(t)
  BY <1>3, <1>4, <1>5 DEF Asks, Quits, Writes, Wakes, Waits
<1>6. CASE Notifies(t)
  <2>1. word'[a] = word[a] /\ ~ Writes(t, a) /\ ~ Wakes(t, a)
    BY <1>3, <1>6 DEF Notifies, OtherWords, Writes, Wakes
  <2>2. ~ Cares(t, a)
    BY <2>1 DEF Cares
  <2> QED
    BY <1>1, <1>2, <2>1, <2>2
<1>7. CASE Looks(t)
  <2>1. word'[a] = word[a] /\ ~ Wakes(t, a)
    BY <1>7 DEF Looks, Wakes
  <2>2. (Writes(t, a) => Writes(t, a)') /\ (Cares(t, a) => Cares(t, a)')
    BY <1>7 DEF Looks, Stays, Writes, Cares
  <2> QED
    BY <1>1, <1>2, <2>1, <2>2
<1>8. CASE Announces(t)
  <2>1. ~ Wakes(t, a) /\ ~ Queued(t)
    BY <1>8, EntriesAre DEF Announces, Wakes, Queued
  <2>2. (Writes(t, a) => Writes(t, a)') /\ (Cares(t, a) => Cares(t, a)')
    BY <1>8 DEF Announces, Stays, Writes, Cares
  <2>3. CASE word'[a] = word[a]
    BY <1>1, <1>2, <2>1, <2>2, <2>3
  <2>4. CASE word'[a] # word[a]
    <3>1. on[t] = a /\ word'[a].locked = word[a].locked /\ (doing[t] = "RLock" => word[a].locked)
      BY <1>3, <1>8, <2>4 DEF Announces, OtherWords
    <3>2. doing[t] = "Lock"
      <4>1. doing[t] \in Doing /\ pc[t] = "loop"
        BY <1>8 DEF TypeOK, WordsTypeOK, Announces
      <4>2. doing[t] # "Recursive"
        BY <4>1 DEF PlaceInv
      <4> QED
        BY <1>3, <3>1, <4>1, <4>2 DEF Doing, Waits
    <3>3. Writes(t, a)' /\ Cares(t, a)'
      BY <1>8, <2>1, <3>1, <3>2 DEF Announces, Stays, Writes, Cares
    <3> QED
      BY <3>3
  <2> QED
    BY <2>3, <2>4
<1>9. CASE Enters(t)
  <2>1. on[t] # a
    BY <1>3, <1>9 DEF Enters
  <2>2. word'[a] = word[a] /\ ~ Writes(t, a) /\ ~ Wakes(t, a) /\ ~ Cares(t, a)
    BY <1>3, <1>9, <2>1 DEF Enters, OtherWords, Writes, Wakes, Cares
  <2> QED
    BY <1>1, <1>2, <2>2
<1>10. CASE Leaves(t)
  <2>1. ~ Writes(t, a) /\ ~ Wakes(t, a) /\ ~ Cares(t, a)
    BY <1>10 DEF Leaves, Writes, Wakes, Cares
  <2>2. CASE on[t] # a
    <3>1. word'[a] = word[a]
      BY <1>3, <1>10, <2>2 DEF Leaves, OtherWords
    <3> QED
      BY <1>1, <1>2, <2>1, <3>1
  <2>3. CASE on[t] = a
    <3>1. /\ pc[t] = "inside" /\ doing[t] = "RLock" /\ word'[a].parked = word[a].parked
          /\ word[a].parked /\ word'[a].count = 0 => pc'[t] = "unpark" /\ on'[t] = a
      BY <1>3, <1>10, <2>3 DEF Leaves
    <3>2. ~ word[a].locked
      BY <2>3, <3>1, InsideFacts
    <3>3. word'[a].count = 0 => Wakes(t, a)'
      BY <3>1 DEF Wakes
    <3> QED
      BY <1>1, <1>2, <2>1, <3>1, <3>2, <3>3
  <2> QED
    BY <2>2, <2>3
<1> QED
  BY <1>5, <1>6, <1>7, <1>8, <1>9, <1>10 DEF Effect

(* And who sleeps stays cared for.                                         *)
LEMMA EffectCare ==
  ASSUME TypeOK, PlaceInv, EntryInv, HoldersAgree, SleepersCared, NEW t \in Threads,
         LocalsTyped(t), WordTyped, Effect(t), \A u : Queued(u)' <=> Queued(u), UNCHANGED at
  PROVE  SleepersCared'
<1> SUFFICES ASSUME NEW a \in Addrs, CaredFor(a) PROVE CaredFor(a)'
  <2> SUFFICES ASSUME NEW u \in Threads, Queued(u)' PROVE CaredFor(at[u])'
    BY CareForm
  <2>1. PICK a : a = at[u]
    OBVIOUS
  <2>2. Queued(u) /\ a \in Addrs /\ a = at'[u]
    <3>1. Queued(u)
      OBVIOUS
    <3>2. at[u] # NULL
      BY <3>1 DEF Queued
    <3> QED
      BY <2>1, <3>1, <3>2, LotTypes
  <2>3. CaredFor(a)
    BY <2>1, <2>2, CareForm
  <2>4. CaredFor(a)'
    BY <2>2, <2>3
  <2> QED
    BY <2>2, <2>4
<1>2. \A u \in Threads \ {t} :
        /\ Wakes(u, a) => Wakes(u, a)'
        /\ Cares(u, a) => Cares(u, a)'
  BY OthersCare
<1>3. /\ doing[t] = "none" <=> pc[t] \in {"idle", "unpark", "wake"}
      /\ doing[t] \in Waits => on[t] \in Events
      /\ doing[t] = "CallOnce" => on[t] \in Onces
      /\ doing[t] \in {"RLock", "Lock"} => on[t] \in RWs
  BY Kinds DEF PlaceInv
<1>4. ~ Wakes(t, a)
  BY DEF Effect, Asks, Notifies, Looks, Announces, Quits, Enters, Leaves, Wakes
<1>5. ASSUME word'[a] = word[a], Cares(t, a) => Cares(t, a)' PROVE CaredFor(a)'
  BY <1>2, <1>4, <1>5 DEF CaredFor
<1>6. CASE Asks(t) \/ Quits(t)
  BY <1>3, <1>5, <1>6 DEF Asks, Quits, Cares, Writes, Waits
<1>7. CASE Notifies(t)
  <2>1. PICK b \in Events :
          /\ OtherWords(b)
          /\ IF word[b].parked THEN pc'[t] = "unpark" /\ on'[t] = b
             ELSE pc'[t] = pc[t] /\ on'[t] = on[t]
    BY <1>7 DEF Notifies
  <2>2. ~ Cares(t, a)
    BY <1>3, <1>7 DEF Notifies, Cares, Writes
  <2>3. CASE a # b
    BY <1>5, <2>1, <2>2, <2>3 DEF OtherWords
  <2>4. CASE a = b
    <3>1. word[b].parked => Wakes(t, a)'
      BY <2>1, <2>4 DEF Wakes
    <3> QED
      BY <1>2, <1>4, <2>4, <3>1 DEF CaredFor
  <2> QED
    BY <2>3, <2>4
<1>8. CASE Looks(t)
  BY <1>5, <1>8 DEF Looks, Stays, Cares, Writes
<1>9. CASE Announces(t)
  <2>1. Cares(t, a) => Cares(t, a)'
    BY <1>9 DEF Announces, Stays, Cares, Writes
  <2>2. CASE word'[a] = word[a]
    BY <1>5, <2>1, <2>2
  <2>3. CASE word'[a] # word[a]
    <3>1. /\ word'[a].parked /\ word'[a].locked = word[a].locked
          /\ word'[a].count = word[a].count
      BY <1>9, <2>3 DEF Announces, OtherWords
    <3> QED
      BY <1>2, <1>4, <2>1, <3>1 DEF CaredFor
  <2> QED
    BY <2>2, <2>3
<1>10. CASE Enters(t)
  <2>1. CASE on[t] # a
    BY <1>5, <1>10, <2>1 DEF Enters, OtherWords, Cares, Writes
  <2>2. CASE on[t] = a
    <3>1. CASE ~ word[a].parked
      BY <1>2, <1>4, <3>1 DEF CaredFor
    <3>2. CASE word[a].parked
      <4>1. doing[t] = "Lock" /\ word'[a].locked /\ word'[a].parked /\ a \in RWs
        BY <1>3, <1>10, <2>2, <3>2 DEF Enters
      <4> QED
        BY <4>1 DEF CaredFor
    <3> QED
      BY <3>1, <3>2
  <2> QED
    BY <2>1, <2>2
<1>11. CASE Leaves(t)
  <2>1. ~ Cares(t, a)
    BY <1>11 DEF Leaves, Cares, Writes
  <2>2. CASE on[t] # a
    <3>1. word'[a] = word[a]
      BY <1>11, <2>2 DEF Leaves, OtherWords
    <3> QED
      BY <1>5, <2>1, <3>1
  <2>3. CASE on[t] = a
    <3>1. CASE ~ word[a].parked
      BY <1>2, <1>4, <3>1 DEF CaredFor
    <3>2. CASE word[a].parked /\ pc'[t] = "unpark" /\ on'[t] = a
      BY <3>2 DEF CaredFor, Wakes
    <3>3. CASE word[a].parked /\ ~ (pc'[t] = "unpark" /\ on'[t] = a)
      <4>1. /\ doing[t] = "RLock" /\ a \in RWs /\ word'[a].parked = word[a].parked
            /\ word'[a].count # 0
        BY <1>3, <1>11, <2>3, <3>3 DEF Leaves
      <4>2. word'[a].count > 0
        <5>1. word'[a] \in Word
          BY DEF WordTyped
        <5>2. word'[a].count \in Nat
          BY <5>1, Words
        <5> QED
          BY <4>1, <5>2
      <4> QED
        BY <3>3, <4>1, <4>2 DEF CaredFor
    <3> QED
      BY <3>1, <3>2, <3>3
  <2> QED
    BY <2>2, <2>3
<1> QED
  BY <1>6, <1>7, <1>8, <1>9, <1>10, <1>11 DEF Effect

-----------------------------------------------------------------------------
(* The steps on recursive mutexes.                                         *)

LEMMA RecPlaces ==
  ASSUME TypeOK, PlaceInv, EntryInv, NEW t \in Threads, NEW a \in Recursives, RecEffect(t, a)
  PROVE  /\ Placed(t)' /\ Reasoned(t)'
         /\ pc[t] \in {"idle", "inside", "mutex", "stamp", "drop"} /\ doing[t] \in {"none", "Recursive"}
         /\ pc'[t] \notin {"parked", "wake"}
<1> USE DEF Waits, Stays
<1>1. Placed(t)
  BY DEF PlaceInv, Placed
<1>2. CASE LocksAgain(t, a) \/ Requests(t, a)
  BY <1>1, <1>2 DEF LocksAgain, Requests, Placed, Reasoned
<1>3. CASE Takes(t, a) \/ Stamps(t, a)
  BY <1>1, <1>3 DEF Takes, Stamps, Placed, Reasoned
<1>4. CASE UnlocksOne(t, a) \/ UnlocksLast(t, a) \/ UnlocksAll(t, a)
  BY <1>1, <1>4 DEF UnlocksOne, UnlocksLast, UnlocksAll, Placed, Reasoned
<1>5. CASE Drops(t, a)
  BY <1>1, <1>5 DEF Drops, Placed, Reasoned
<1> QED
  BY <1>2, <1>3, <1>4, <1>5 DEF RecEffect

LEMMA RecCare ==
  ASSUME TypeOK, PlaceInv, EntryInv, HoldersAgree, WriterInv, SleepersCared, NEW t \in Threads,
         NEW a \in Recursives, LocalsTyped(t), WordTyped, RecEffect(t, a),
         \A u : Queued(u)' <=> Queued(u), UNCHANGED at
  PROVE  WriterInv' /\ SleepersCared'
<1>1. \A b \in Events \union Onces \union RWs : word'[b] = word[b]
  BY RecMutexes, Kinds
<1>2. \A b : ~ Writes(t, b) /\ ~ Wakes(t, b) /\ ~ Cares(t, b)
  BY RecPlaces DEF Writes, Wakes, Cares
<1>3. \A b : \A u \in Threads \ {t} :
        /\ Writes(u, b) => Writes(u, b)'
        /\ Wakes(u, b) => Wakes(u, b)'
        /\ Cares(u, b) => Cares(u, b)'
  BY OthersCare
<1>4. WriterInv'
  <2>1. \A b \in RWs : word[b].parked /\ ~ word[b].locked =>
          /\ \E u \in Threads : Writes(u, b)
          /\ word[b].count = 0 => \E u \in Threads : Wakes(u, b) \/ Cares(u, b)
    BY WriterForm
  <2>2. \A b \in RWs : word'[b].parked /\ ~ word'[b].locked =>
          /\ \E u \in Threads : Writes(u, b)'
          /\ word'[b].count = 0 => \E u \in Threads : Wakes(u, b)' \/ Cares(u, b)'
    BY <1>1, <1>2, <1>3, <2>1
  <2> QED
    BY <2>2, WriterFormNext
<1>5. ASSUME NEW u \in Threads, Queued(u)' PROVE CaredFor(at[u])'
  <2>1. PICK b : b = at[u]
    OBVIOUS
  <2>2. Queued(u) /\ b = at'[u]
    BY <1>5, <2>1
  <2>3. CaredFor(b)
    BY <2>1, <2>2, CareForm
  <2>4. CaredFor(b)'
    BY <1>1, <1>2, <1>3, <2>3 DEF CaredFor
  <2> QED
    BY <2>2, <2>4
<1> QED
  BY <1>4, <1>5, CareForm

-----------------------------------------------------------------------------
(* The steps in the parking lot.                                           *)

LEMMA LotPlaces ==
  ASSUME TypeOK, PlaceInv, NEW t \in Threads, UNCHANGED <<word, doing, v>>, LotEffect(t)
  PROVE  /\ Placed(t)' /\ Reasoned(t)'
         /\ pc[t] \in {"park", "parked", "unpark", "wake"} /\ doing[t] # "Recursive"
         /\ pc'[t] \in {"parked", "check", "load", "idle", "wake"}
<1> USE DEF Waits
<1>1. Placed(t)
  BY DEF PlaceInv, Placed
<1>2. CASE Sleeps(t)
  BY <1>1, <1>2 DEF Sleeps, Placed, Reasoned
<1>3. CASE Parks(t)
  BY <1>1, <1>3 DEF Parks, Placed, Reasoned
<1>4. CASE Turns(t)
  BY <1>1, <1>4 DEF Turns, Placed, Reasoned
<1>5. CASE Dequeues(t)
  BY <1>1, <1>5 DEF Dequeues, Placed, Reasoned
<1>6. CASE Posts(t)
  BY <1>1, <1>6 DEF Posts, Placed, Reasoned
<1> QED
  BY <1>2, <1>3, <1>4, <1>5, <1>6 DEF LotEffect

LEMMA LotTypesNext ==
  ASSUME TypeOK, NEW t \in Threads, LocalsTyped(t), LotTyped, UNCHANGED <<word, doing, v, uses>>,
         UNCHANGED recVars
  PROVE  TypeOK'
<1>1. RecursionTypeOK'
  BY RecStays
<1> QED
  BY <1>1 DEF TypeOK, WordsTypeOK, LocalsTyped, PlaceTyped, OnTyped, DoingTyped, SeenTyped, LotTyped, Places

(* Entries live in Park, and posts go to living entries.                   *)
Entry(t) ==
  /\ park[t] # "out" <=> pc[t] = "parked"
  /\ at[t] = IF pc[t] = "parked" THEN on[t] ELSE NULL
  /\ unparking[t] => pc[t] = "parked"
  /\ sema[t] # 0 => unparking[t]
  /\ posts[t] # << >> <=> pc[t] = "wake"

Alive(t) ==
  /\ IsInjective(posts[t])
  /\ \A w \in ToSet(posts[t]) :
       /\ park[w] # "out" /\ unparking[w] /\ sema[w] = 0
       /\ \A u \in Threads \ {t} : w \notin ToSet(posts[u])

LEMMA EntryForm ==
  /\ EntryInv <=> \A u \in Threads : Entry(u)
  /\ EntryInv' <=> \A u \in Threads : Entry(u)'
  /\ PostsAlive <=> \A u \in Threads : Alive(u)
  /\ PostsAlive' <=> \A u \in Threads : Alive(u)'
BY DEF EntryInv, PostsAlive, Entry, Alive

(* A post goes to a thread, and an empty list to none.                     *)
LEMMA PostsOf ==
  ASSUME TypeOK
  PROVE  \A u \in Threads : /\ ToSet(posts[u]) \subseteq Threads
                            /\ posts[u] = << >> => ToSet(posts[u]) = {}
<1> SUFFICES ASSUME NEW u \in Threads
             PROVE  ToSet(posts[u]) \subseteq Threads /\ (posts[u] = << >> => ToSet(posts[u]) = {})
  OBVIOUS
<1>1. posts[u] \in Seq(Threads)
  BY LotTypes
<1> QED
  BY <1>1 DEF ToSet

LEMMA LotEntries ==
  ASSUME TypeOK, PlaceInv, EntryInv, QueuesExact, PostsAlive, NEW t \in Threads,
         LocalsTyped(t), LotTyped, LotEffect(t)
  PROVE  EntryInv' /\ PostsAlive'
<1>1. \A u \in Threads : Entry(u) /\ Alive(u)
  BY EntryForm
<1>2. \A u \in Threads \ {t} : pc'[u] = pc[u] /\ on'[u] = on[u]
  BY DEF LocalsTyped, PlaceTyped, OnTyped
<1>3. \A u \in Threads : /\ ToSet(posts[u]) \subseteq Threads
                         /\ posts[u] = << >> => ToSet(posts[u]) = {}
  BY PostsOf
<1>4. \A u \in Threads : unparking[u] \in BOOLEAN /\ sema[u] \in 0 .. 1
  BY LotTypes
<1>5. CASE Sleeps(t) \/ Parks(t) \/ Turns(t)
  <2>1. UNCHANGED <<on, posts>>
    BY <1>5 DEF Sleeps, Parks, Turns
  <2>2. /\ OthersLot(t)
        /\ pc[t] \in {"park", "parked"} /\ pc'[t] \notin {"wake", "unpark"}
    BY <1>5 DEF Sleeps, Parks, Turns, Waits
  <2>3. \A u \in Threads \ {t} : Entry(u)'
    BY <1>1, <1>2, <2>1, <2>2 DEF Entry, OthersLot
  <2>4. Entry(t)'
    BY <1>1, <1>5 DEF Entry, Sleeps, Parks, Turns, Out, Asleep
  <2>5. \/ \A u \in Threads : t \notin ToSet(posts[u])
        \/ park'[t] # "out" /\ unparking'[t] = unparking[t] /\ sema'[t] = sema[t]
    <3>1. CASE Sleeps(t)
      BY <1>1, <3>1 DEF Entry, Alive, Sleeps
    <3>2. CASE Parks(t)
      BY <1>1, <3>2 DEF Alive, Parks
    <3>3. CASE Turns(t)
      BY <3>3 DEF Turns
    <3> QED
      BY <1>5, <3>1, <3>2, <3>3
  <2>6. \A u \in Threads : Alive(u)'
    BY <1>1, <1>3, <2>1, <2>2, <2>5 DEF Alive, OthersLot
  <2> QED
    BY <2>3, <2>4, <2>6, EntryForm
<1>6. CASE Dequeues(t)
  <2>1. /\ pc[t] = "unpark" /\ pc'[t] \notin {"parked"} /\ UNCHANGED <<at, sema, park>>
        /\ \A u \in Threads : unparking'[u] <=> unparking[u] \/ (Asleep(u) /\ at[u] = on[t])
        /\ \A u \in Threads \ {t} : posts'[u] = posts[u]
        /\ IsInjective(posts'[t])
        /\ \A u : u \in ToSet(posts'[t]) <=> u \in Threads /\ Asleep(u) /\ at[u] = on[t]
        /\ posts'[t] # << >> <=> pc'[t] = "wake"
    BY <1>6 DEF Dequeues
  <2>2. posts[t] = << >>
    BY <1>1, <2>1 DEF Entry
  <2>3. \A u \in Threads : Asleep(u) => park[u] # "out" /\ ~ unparking[u] /\ sema[u] = 0 /\ pc[u] = "parked"
    BY <1>1 DEF Asleep, Expired, Entry
  <2>4. \A u \in Threads \ {t} : Entry(u)'
    BY <1>1, <1>2, <2>1, <2>3 DEF Entry
  <2>5. Entry(t)'
    BY <1>1, <2>1, <2>3 DEF Entry
  <2>6. \A u \in Threads \ {t} : Alive(u)'
    <3> SUFFICES ASSUME NEW u \in Threads \ {t}, NEW w \in ToSet(posts[u])
                 PROVE  /\ park[w] # "out" /\ unparking'[w] /\ sema[w] = 0
                        /\ \A x \in Threads \ {u} : w \notin ToSet(posts'[x])
      BY <1>1, <2>1 DEF Alive
    <3>1. /\ w \in Threads /\ park[w] # "out" /\ unparking[w] /\ sema[w] = 0
          /\ \A x \in Threads \ {u} : w \notin ToSet(posts[x])
      BY <1>1, <1>3 DEF Alive
    <3>2. w \notin ToSet(posts'[t])
      BY <2>1, <2>3, <3>1
    <3> QED
      BY <2>1, <3>1, <3>2
  <2>7. Alive(t)'
    <3> SUFFICES ASSUME NEW w \in ToSet(posts'[t])
                 PROVE  /\ park[w] # "out" /\ unparking'[w] /\ sema[w] = 0
                        /\ \A x \in Threads \ {t} : w \notin ToSet(posts'[x])
      BY <2>1 DEF Alive
    <3>1. w \in Threads /\ Asleep(w) /\ at[w] = on[t]
      BY <2>1
    <3>2. \A x \in Threads : w \notin ToSet(posts[x])
      BY <1>1, <2>3, <3>1 DEF Alive
    <3> QED
      BY <2>1, <2>3, <3>1, <3>2
  <2> QED
    BY <2>4, <2>5, <2>6, <2>7, EntryForm
<1>7. CASE Posts(t)
  <2>1. PICK w \in ToSet(posts[t]) :
          /\ sema'[w] = 1 /\ \A u \in Threads \ {w} : sema'[u] = sema[u]
          /\ ToSet(posts'[t]) = ToSet(posts[t]) \ {w}
    BY <1>7 DEF Posts
  <2>2. /\ pc[t] = "wake" /\ pc'[t] # "parked" /\ UNCHANGED <<on, at, unparking, park>>
        /\ \A u \in Threads \ {t} : posts'[u] = posts[u]
        /\ IsInjective(posts'[t])
        /\ posts'[t] # << >> <=> pc'[t] = "wake"
    BY <1>7 DEF Posts
  <2>3. w \in Threads /\ unparking[w] /\ \A u \in Threads \ {t} : w \notin ToSet(posts[u])
    BY <1>1, <1>3 DEF Alive
  <2>4. \A u \in Threads \ {t} : Entry(u)'
    BY <1>1, <1>2, <2>1, <2>2, <2>3 DEF Entry
  <2>5. Entry(t)'
    BY <1>1, <2>1, <2>2, <2>3 DEF Entry
  <2>6. ASSUME NEW u \in Threads, NEW x \in ToSet(posts'[u])
        PROVE  /\ park[x] # "out" /\ unparking[x] /\ sema'[x] = 0
               /\ \A y \in Threads \ {u} : x \notin ToSet(posts'[y])
    <3>1. x \in ToSet(posts[u]) /\ x # w
      BY <2>1, <2>2, <2>3, <2>6
    <3>2. /\ x \in Threads /\ park[x] # "out" /\ unparking[x] /\ sema[x] = 0
          /\ \A y \in Threads \ {u} : x \notin ToSet(posts[y])
      BY <1>1, <1>3, <3>1 DEF Alive
    <3> QED
      BY <2>1, <2>2, <3>1, <3>2
  <2>7. \A u \in Threads : IsInjective(posts'[u])
    BY <1>1, <2>2 DEF Alive
  <2>8. \A u \in Threads : Alive(u)'
    BY <2>2, <2>6, <2>7 DEF Alive
  <2> QED
    BY <2>4, <2>5, <2>8, EntryForm
<1> QED
  BY <1>5, <1>6, <1>7 DEF LotEffect

(* Who is queued, before and after a step.                                 *)
LEMMA QueuedForms ==
  ASSUME QueuesExact, LotTyped
  PROVE  /\ \A u \in Threads : Queued(u) <=> Asleep(u)
         /\ \A u \in Threads : Queued(u)' <=> Asleep(u)'
BY DEF QueuesExact, LotTyped, Asleep

(* A step that puts nobody to sleep and takes nobody who cares away.       *)
LEMMA Quieter ==
  ASSUME TypeOK, EntryInv, WriterInv, SleepersCared, NEW t \in Threads, LocalsTyped(t),
         UNCHANGED <<word, on, doing>>, pc[t] \notin {"unpark", "inside"}, pc'[t] # "inside",
         \A u \in Threads : Queued(u)' => Queued(u) /\ at'[u] = at[u]
  PROVE  WriterInv' /\ SleepersCared'
<1>1. \A b : ~ Wakes(t, b)
  BY DEF Wakes
<1>2. \A b : (Writes(t, b) => Writes(t, b)') /\ (Cares(t, b) => Cares(t, b)')
  BY DEF Writes, Cares
<1>3. \A b : \A u \in Threads \ {t} :
        /\ Writes(u, b) => Writes(u, b)'
        /\ Wakes(u, b) => Wakes(u, b)'
        /\ Cares(u, b) => Cares(u, b)'
  BY OthersCare
<1>4. WriterInv'
  <2>1. \A b \in RWs : word[b].parked /\ ~ word[b].locked =>
          /\ \E u \in Threads : Writes(u, b)
          /\ word[b].count = 0 => \E u \in Threads : Wakes(u, b) \/ Cares(u, b)
    BY WriterForm
  <2>2. \A b \in RWs : word'[b].parked /\ ~ word'[b].locked =>
          /\ \E u \in Threads : Writes(u, b)'
          /\ word'[b].count = 0 => \E u \in Threads : Wakes(u, b)' \/ Cares(u, b)'
    BY <1>1, <1>2, <1>3, <2>1
  <2> QED
    BY <2>2, WriterFormNext
<1>5. ASSUME NEW u \in Threads, Queued(u)' PROVE CaredFor(at[u])'
  <2>1. PICK b : b = at[u]
    OBVIOUS
  <2>2. Queued(u) /\ b = at'[u]
    BY <1>5, <2>1
  <2>3. CaredFor(b)
    BY <2>1, <2>2, CareForm
  <2>4. CaredFor(b)'
    BY <1>1, <1>2, <1>3, <2>3 DEF CaredFor
  <2> QED
    BY <2>2, <2>4
<1> QED
  BY <1>4, <1>5, CareForm

(* A thread goes to sleep only where its wakeup is taken care of.          *)
LEMMA SleepCare ==
  ASSUME TypeOK, PlaceInv, EntryInv, QueuesExact, ReasonInv, WriterInv, SleepersCared,
         NEW t \in Threads, LocalsTyped(t), LotTyped, UNCHANGED <<word, doing, v>>, Sleeps(t)
  PROVE  WriterInv' /\ SleepersCared'
<1>1. PICK a, w, f : a = on[t] /\ w = word[on[t]] /\ f = doing[t]
  OBVIOUS
<1>2. /\ pc[t] = "park" /\ pc'[t] = "parked" /\ w = v[t] /\ on' = on /\ at'[t] = a
      /\ OthersLot(t)
  BY <1>1 DEF Sleeps
<1>3. /\ w.parked
      /\ f \in Waits => ~ w.locked
      /\ f = "CallOnce" => w.locked
      /\ f = "Lock" => w.locked \/ w.count > 0
  BY <1>1, <1>2 DEF ReasonInv
<1>4. \/ f \in Waits /\ a \in Events
      \/ f = "CallOnce" /\ a \in Onces
      \/ f \in {"RLock", "Lock"} /\ a \in RWs
  <2>1. f \in Doing
    BY <1>1 DEF TypeOK, WordsTypeOK
  <2> QED
    BY <1>1, <1>2, <2>1 DEF PlaceInv, Doing, Waits
<1>5. a \in Addrs /\ w = word[a] /\ w.count \in Nat
  BY <1>1, <1>4, Kinds, Words DEF TypeOK, WordsTypeOK
<1>6. \A u \in Threads \ {t} : Queued(u)' <=> Queued(u)
  BY <1>2, QueuedForms DEF OthersLot, Asleep
<1>7. \A b : \A u \in Threads \ {t} :
        /\ Writes(u, b) => Writes(u, b)'
        /\ Wakes(u, b) => Wakes(u, b)'
        /\ Cares(u, b) => Cares(u, b)'
  BY <1>6, OthersCare
<1>8. \A b : ~ Wakes(t, b) /\ (Writes(t, b) => Writes(t, b)')
  BY <1>2 DEF Wakes, Writes
<1>9. \A b : Cares(t, b) => b = a /\ (w.locked \/ w.count > 0)
  BY <1>1, <1>3 DEF Cares, Writes
<1>10. WriterInv'
  <2>1. \A b \in RWs : word[b].parked /\ ~ word[b].locked =>
          /\ \E u \in Threads : Writes(u, b)
          /\ word[b].count = 0 => \E u \in Threads : Wakes(u, b) \/ Cares(u, b)
    BY WriterForm
  <2>2. ASSUME NEW b \in RWs, word'[b].parked, ~ word'[b].locked
        PROVE  /\ \E u \in Threads : Writes(u, b)'
               /\ word'[b].count = 0 => \E u \in Threads : Wakes(u, b)' \/ Cares(u, b)'
    <3>1. word'[b] = word[b]
      OBVIOUS
    <3>2. word[b].count = 0 => ~ Cares(t, b)
      BY <1>5, <1>9, <2>2, <3>1
    <3> QED
      BY <1>7, <1>8, <2>1, <2>2, <3>1, <3>2
  <2> QED
    BY <2>2, WriterFormNext
<1>11. \A b : CaredFor(b) => CaredFor(b)'
  <2> SUFFICES ASSUME NEW b, CaredFor(b) PROVE CaredFor(b)'
    OBVIOUS
  <2>1. CASE ~ Cares(t, b)
    BY <1>7, <1>8, <2>1 DEF CaredFor
  <2>2. CASE Cares(t, b)
    <3>1. b = a /\ f = "Lock" /\ (w.locked \/ w.count > 0)
      BY <1>1, <1>9, <2>2 DEF Cares, Writes
    <3>2. a \in RWs
      BY <1>4, <3>1 DEF Waits
    <3> QED
      BY <1>3, <1>5, <3>1, <3>2 DEF CaredFor
  <2> QED
    BY <2>1, <2>2
<1>12. CaredFor(a)'
  <2>1. CASE a \in Events \/ a \in Onces
    BY <1>3, <1>4, <1>5, <2>1, Kinds DEF CaredFor, Waits
  <2>2. CASE a \in RWs /\ (w.locked \/ w.count > 0)
    BY <1>3, <1>5, <2>2 DEF CaredFor
  <2>3. CASE a \in RWs /\ ~ (w.locked \/ w.count > 0)
    <3>1. word[a].parked /\ ~ word[a].locked /\ word[a].count = 0
      BY <1>3, <1>5, <2>3
    <3>2. \E u \in Threads : Wakes(u, a) \/ Cares(u, a)
      BY <2>3, <3>1, WriterForm
    <3>3. CaredFor(a)
      BY <2>3, <3>1, <3>2 DEF CaredFor
    <3> QED
      BY <1>11, <3>3
  <2> QED
    BY <1>4, <2>1, <2>2, <2>3
<1>13. ASSUME NEW u \in Threads, Queued(u)' PROVE CaredFor(at[u])'
  <2>1. CASE u = t
    BY <1>2, <1>12, <2>1
  <2>2. CASE u # t
    <3>1. PICK b : b = at[u]
      OBVIOUS
    <3>2. Queued(u) /\ b = at'[u]
      BY <1>2, <1>6, <1>13, <2>2, <3>1 DEF OthersLot
    <3>3. CaredFor(b)'
      BY <1>11, <3>1, <3>2, CareForm
    <3> QED
      BY <3>2, <3>3
  <2> QED
    BY <2>1, <2>2
<1> QED
  BY <1>10, <1>13, CareForm

(* Everybody on the word is awake after the unpark.                        *)
LEMMA DequeueCare ==
  ASSUME TypeOK, PlaceInv, EntryInv, QueuesExact, WriterInv, SleepersCared,
         NEW t \in Threads, LocalsTyped(t), LotTyped, UNCHANGED <<word, doing, v>>, Dequeues(t)
  PROVE  WriterInv' /\ SleepersCared'
<1>1. PICK a : a = on[t]
  OBVIOUS
<1>2. /\ pc[t] = "unpark" /\ doing[t] = "none" /\ UNCHANGED <<at, sema, park>>
      /\ \A u \in Threads : unparking'[u] <=> unparking[u] \/ (Asleep(u) /\ at[u] = a)
  BY <1>1 DEF Dequeues, PlaceInv
<1>3. \A u \in Threads : Queued(u)' <=> Queued(u) /\ at[u] # a
  BY <1>2, QueuedForms DEF Asleep
<1>4. \A b : /\ Wakes(t, b) => b = a
             /\ ~ Writes(t, b) /\ ~ Cares(t, b)
  BY <1>1, <1>2 DEF Wakes, Writes, Cares
<1>5. \A b : \A u \in Threads \ {t} :
        /\ Writes(u, b) => Writes(u, b)'
        /\ Wakes(u, b) => Wakes(u, b)'
        /\ Cares(u, b) => Cares(u, b)'
  BY <1>3, OthersCare
<1>6. \A u \in Threads : Writes(u, a) => Cares(u, a)'
  <2> SUFFICES ASSUME NEW u \in Threads, Writes(u, a) PROVE Cares(u, a)'
    OBVIOUS
  <2>1. u # t
    BY <1>4
  <2>2. ~ Queued(u)'
    <3>1. CASE pc[u] = "parked"
      BY <1>3, <3>1, EntriesAre DEF Writes
    <3>2. CASE pc[u] # "parked"
      BY <1>3, <3>2, EntriesAre, QueuedForms DEF Asleep, Expired
    <3> QED
      BY <3>1, <3>2
  <2> QED
    BY <1>5, <2>1, <2>2 DEF Cares
<1>7. WriterInv'
  <2>1. \A b \in RWs : word[b].parked /\ ~ word[b].locked =>
          /\ \E u \in Threads : Writes(u, b)
          /\ word[b].count = 0 => \E u \in Threads : Wakes(u, b) \/ Cares(u, b)
    BY WriterForm
  <2>2. \A b \in RWs : word'[b].parked /\ ~ word'[b].locked =>
          /\ \E u \in Threads : Writes(u, b)'
          /\ word'[b].count = 0 => \E u \in Threads : Wakes(u, b)' \/ Cares(u, b)'
    BY <1>4, <1>5, <1>6, <2>1
  <2> QED
    BY <2>2, WriterFormNext
<1>8. ASSUME NEW u \in Threads, Queued(u)' PROVE CaredFor(at[u])'
  <2>1. PICK b : b = at[u]
    OBVIOUS
  <2>2. Queued(u) /\ b = at'[u] /\ b # a
    BY <1>2, <1>3, <1>8, <2>1
  <2>3. CaredFor(b)
    BY <2>1, <2>2, CareForm
  <2>4. CaredFor(b)'
    BY <1>4, <1>5, <2>2, <2>3 DEF CaredFor
  <2> QED
    BY <2>2, <2>4
<1> QED
  BY <1>7, <1>8, CareForm

LEMMA LotCare ==
  ASSUME TypeOK, PlaceInv, EntryInv, QueuesExact, ReasonInv, WriterInv, SleepersCared,
         NEW t \in Threads, LocalsTyped(t), LotTyped, UNCHANGED <<word, doing, v>>, LotEffect(t)
  PROVE  WriterInv' /\ SleepersCared'
<1>1. CASE Parks(t) \/ Turns(t)
  <2>1. /\ UNCHANGED on /\ pc[t] \notin {"unpark", "inside"} /\ pc'[t] # "inside" /\ OthersLot(t)
    BY <1>1 DEF Parks, Turns
  <2>2. Asleep(t)' => Asleep(t) /\ at'[t] = at[t]
    BY <1>1 DEF Parks, Turns, Out, Asleep, Expired
  <2>3. \A u \in Threads : Queued(u)' => Queued(u) /\ at'[u] = at[u]
    BY <2>1, <2>2, QueuedForms DEF OthersLot, Asleep
  <2> QED
    BY <2>1, <2>3, Quieter
<1>2. CASE Posts(t)
  <2>1. /\ UNCHANGED <<on, queue, at>> /\ pc[t] \notin {"unpark", "inside"} /\ pc'[t] # "inside"
    BY <1>2 DEF Posts
  <2>2. \A u \in Threads : Queued(u)' => Queued(u) /\ at'[u] = at[u]
    BY <2>1 DEF Queued
  <2> QED
    BY <2>1, <2>2, Quieter
<1> QED
  BY <1>1, <1>2, SleepCare, DequeueCare DEF LotEffect

-----------------------------------------------------------------------------
(* The inductive invariant.                                                *)

LEMMA InitInv == Init => Inv
<1> SUFFICES ASSUME Init PROVE Inv
  OBVIOUS
<1> USE DEF Init, WordsInit, LotInit, RecInit
<1>1. NULL \notin Threads /\ NULL \notin Addrs
  BY ParkingLotAssumption
<1>2. LotTypeOK
  <2>1. << >> \in Seq(Threads)
    OBVIOUS
  <2> QED
    BY <2>1 DEF LotTypeOK
<1>3. WordsTypeOK
  <2>1. "idle" \in Busy \union {"idle", "inside", "drop", "unpark", "wake"} /\ "none" \in Doing
    BY DEF Doing
  <2>2. << >> \in Seq(Threads)
    OBVIOUS
  <2> QED
    BY <1>2, <2>1, <2>2, Words DEF WordsTypeOK
<1>4. TypeOK
  <2>1. uses \in [Threads -> SUBSET Addrs]
    BY LockPrimitivesAssumption
  <2> QED
    BY <1>3, <2>1 DEF TypeOK, RecursionTypeOK
<1>5. PlaceInv
  BY DEF PlaceInv, Waits
<1>6. DepthInv
  BY Kinds DEF DepthInv
<1>7. EntryInv
  BY DEF EntryInv
<1>8. ReasonInv /\ WriterInv
  BY Kinds DEF ReasonInv, WriterInv, Zero
<1>9. \A u \in Threads : ~ Queued(u)
  BY DEF Queued
<1>10. QueuesExact
  <2>1. \A b \in Buckets : DOMAIN queue[b] = {}
    OBVIOUS
  <2>2. \A b \in Buckets : IsInjective(queue[b])
    BY <2>1 DEF IsInjective
  <2> QED
    BY <1>9, <2>1, <2>2 DEF QueuesExact, Expired
<1>11. SleepersCared
  BY <1>9 DEF SleepersCared
<1>12. PostsAlive
  <2>1. \A u \in Threads : DOMAIN posts[u] = {}
    OBVIOUS
  <2> QED
    BY <2>1 DEF PostsAlive, IsInjective, ToSet
<1>13. HoldersAgree
  <2>1. \A a, f : Inside(a, f) = {} /\ HoldsMutex(a) = {}
    BY DEF Inside, HoldsMutex
  <2>2. Cardinality({}) = 0
    BY FS_EmptySet
  <2>3. \A a \in RWs \union Onces \union Recursives : ~ word[a].locked /\ word[a].count = 0
    BY Kinds DEF Zero
  <2>4. RecursionCounts
    BY <1>1, <2>1, <2>2, <2>3, Kinds DEF RecursionCounts, IsOwnedBy
  <2> QED
    BY <2>1, <2>2, <2>3, <2>4 DEF HoldersAgree
<1> QED
  BY <1>4, <1>5, <1>6, <1>7, <1>8, <1>10, <1>11, <1>12, <1>13 DEF Inv

LEMMA LotMoveInv ==
  ASSUME Inv, NEW t \in Threads, LotMove(t), UNCHANGED recVars, UNCHANGED uses
  PROVE  Inv'
<1> USE DEF Inv
<1>1. LocalsTyped(t) /\ LotTyped /\ UNCHANGED <<word, doing, v>> /\ LotEffect(t)
  BY LotFacts
<1>2. /\ Placed(t)' /\ Reasoned(t)'
      /\ pc[t] \in {"park", "parked", "unpark", "wake"} /\ doing[t] # "Recursive"
      /\ pc'[t] \in {"parked", "check", "load", "idle", "wake"}
  BY <1>1, LotPlaces
<1>3. TypeOK'
  BY <1>1, LotTypesNext
<1>4. PlaceInv' /\ ReasonInv'
  BY <1>1, <1>2, PlacedNext, ReasonedNext
<1>5. DepthInv'
  BY <1>1, <1>2, EffectDepth
<1>6. EntryInv' /\ PostsAlive' /\ QueuesExact'
  BY <1>1, LotEntries DEF LotTyped
<1>7. WriterInv' /\ SleepersCared'
  BY <1>1, LotCare
<1>8. HoldersAgree'
  BY <1>1, <1>2, AwayHolders DEF Holding
<1> QED
  BY <1>3, <1>4, <1>5, <1>6, <1>7, <1>8

LEMMA WordMoveInv ==
  ASSUME Inv, NEW t \in Threads, WordMove(t), UNCHANGED recVars, UNCHANGED uses
  PROVE  Inv'
<1> USE DEF Inv
<1>1. LocalsTyped(t) /\ WordTyped /\ Stay /\ Effect(t)
  BY WordFacts
<1>2. /\ Placed(t)' /\ Reasoned(t)'
      /\ pc[t] \in {"idle", "load", "loop", "check", "inside"} /\ doing[t] # "Recursive"
      /\ pc'[t] \notin {"parked", "wake", "mutex", "stamp", "drop"} /\ doing'[t] # "Recursive"
  BY <1>1, EffectPlaces
<1>3. TypeOK'
  BY <1>1, RecStays, StayTyped
<1>4. PlaceInv' /\ ReasonInv'
  BY <1>1, <1>2, PlacedNext, ReasonedNext
<1>5. DepthInv'
  BY <1>1, <1>2, EffectDepth
<1>6. EntryInv' /\ QueuesExact' /\ PostsAlive' /\ \A u : Queued(u)' <=> Queued(u)
  BY <1>1, <1>2, StayEntries
<1>7. WriterInv'
  BY <1>1, <1>6, EffectWriter
<1>8. SleepersCared'
  BY <1>1, <1>6, EffectCare DEF Stay, lotVars
<1>9. HoldersAgree'
  BY <1>1, WordHolders
<1> QED
  BY <1>3, <1>4, <1>5, <1>6, <1>7, <1>8, <1>9

LEMMA RecMoveInv ==
  ASSUME Inv, NEW t \in Threads, RecMove(t), UNCHANGED uses
  PROVE  Inv'
<1> USE DEF Inv
<1>1. PICK a \in Recursives : RecEffect(t, a) /\ RecOthers(t, a)
  BY RecFacts
<1>2. LocalsTyped(t) /\ WordTyped /\ Stay /\ RecursionTypeOK'
  BY RecFacts
<1>3. /\ Placed(t)' /\ Reasoned(t)'
      /\ pc[t] \in {"idle", "inside", "mutex", "stamp", "drop"} /\ doing[t] \in {"none", "Recursive"}
      /\ pc'[t] \notin {"parked", "wake"}
  BY <1>1, RecPlaces
<1>4. TypeOK'
  BY <1>2, StayTyped
<1>5. PlaceInv' /\ ReasonInv'
  BY <1>2, <1>3, PlacedNext, ReasonedNext
<1>6. DepthInv'
  BY <1>1, <1>2, RecDepth
<1>7. EntryInv' /\ QueuesExact' /\ PostsAlive' /\ \A u : Queued(u)' <=> Queued(u)
  BY <1>2, <1>3, StayEntries
<1>8. WriterInv' /\ SleepersCared'
  BY <1>1, <1>2, <1>7, RecCare DEF Stay, lotVars
<1>9. HoldersAgree'
  BY <1>1, <1>2, RecHolders
<1> QED
  BY <1>4, <1>5, <1>6, <1>7, <1>8, <1>9

LEMMA StutterInv ==
  ASSUME Inv, UNCHANGED vars
  PROVE  Inv'
<1> USE DEF vars, lotVars, wordVars, recVars
<1>1. TypeOK' /\ PlaceInv' /\ DepthInv'
  BY DEF Inv, TypeOK, WordsTypeOK, LotTypeOK, RecursionTypeOK, PlaceInv, DepthInv
<1>2. EntryInv' /\ ReasonInv'
  BY DEF Inv, EntryInv, ReasonInv
<1>3. \A u : Queued(u)' <=> Queued(u)
  BY DEF Queued
<1>4. QueuesExact'
  BY <1>3 DEF Inv, QueuesExact
<1>5. WriterInv'
  BY <1>3 DEF Inv, WriterInv, AwakeWriter, Unparking
<1>6. SleepersCared'
  BY <1>3 DEF Inv, SleepersCared, AwakeWriter, Unparking
<1>7. PostsAlive'
  BY DEF Inv, PostsAlive
<1>8. HoldersAgree'
  <2>1. \A a, f : Inside(a, f)' = Inside(a, f) /\ HoldsMutex(a)' = HoldsMutex(a)
    BY DEF Inside, HoldsMutex
  <2>2. RecursionCounts'
    BY <2>1 DEF Inv, HoldersAgree, RecursionCounts, IsOwnedBy
  <2> QED
    BY <2>1, <2>2 DEF Inv, HoldersAgree
<1> QED
  BY <1>1, <1>2, <1>4, <1>5, <1>6, <1>7, <1>8 DEF Inv

LEMMA NextInv ==
  ASSUME Inv, [Next]_vars
  PROVE  Inv'
<1>1. CASE Next
  BY <1>1, NextMoves, LotMoveInv, WordMoveInv, RecMoveInv
<1>2. CASE UNCHANGED vars
  BY <1>2, StutterInv
<1> QED
  BY <1>1, <1>2

(* The invariant holds for any number of threads and primitives, whatever  *)
(* buckets they share: the wait lists of the parking lot hold exactly who  *)
(* sleeps, and the parts that the three properties below take from it.     *)
THEOREM Invariance == Spec => []Inv
<1>1. Init => Inv
  BY InitInv
<1>2. Inv /\ [Next]_vars => Inv'
  BY NextInv
<1> QED
  BY <1>1, <1>2, PTL DEF Spec

(* The words of RW mutexes and once flags tell who is inside, so readers   *)
(* exclude writers and writers each other, and a recursive mutex knows its *)
(* owner and its depth (_PyRWMutex, _PyOnceFlag, _PyRecursiveMutex).       *)
THEOREM HoldersAgreeHolds == Spec => []HoldersAgree
<1>1. Inv => HoldersAgree
  BY DEF Inv
<1> QED
  BY <1>1, Invariance, PTL

(* No wakeup is lost: whoever sleeps in the parking lot is announced in    *)
(* the word, which another thread will release, or is about to be woken.   *)
THEOREM SleepersCaredHolds == Spec => []SleepersCared
<1>1. Inv => SleepersCared
  BY DEF Inv
<1> QED
  BY <1>1, Invariance, PTL

(* The walk of _PyParkingLot_UnparkAll posts only semaphores of threads    *)
(* that are still in _PyParkingLot_Park, each one once.                    *)
THEOREM PostsAliveHolds == Spec => []PostsAlive
<1>1. Inv => PostsAlive
  BY DEF Inv
<1> QED
  BY <1>1, Invariance, PTL
-----------------------------------------------------------------------------
(* The refinement: what is settled stays settled, and who has seen it so   *)
(* may go by what it has seen.                                             *)

SeenSettled(t) ==
  pc[t] = "loop" =>
    /\ doing[t] \in Waits /\ v[t].locked => word[on[t]].locked
    /\ doing[t] = "CallOnce" /\ v[t].count # 0 => word[on[t]].count # 0

SettledInv ==
  /\ \A a \in Onces : word[a].count # 0 => ~ word[a].locked /\ ~ word[a].parked
  /\ \A t \in Threads : SeenSettled(t)

(* The events and flags that are settled remain so; a flag is settled by   *)
(* the thread that leaves it, an event by one that notifies it.            *)
Lasts(t) ==
  /\ \A a \in Events : word[a].locked => word'[a].locked
  /\ \A a \in Onces : word[a].count # 0 => word'[a].count # 0

LEMMA SettledInit == Init => SettledInv
<1> SUFFICES ASSUME Init PROVE SettledInv
  OBVIOUS
<1>1. \A a \in Onces : word[a] = Zero
  BY Kinds DEF Init, WordsInit
<1>2. \A t \in Threads : pc[t] = "idle"
  BY DEF Init, WordsInit
<1> QED
  BY <1>1, <1>2 DEF SettledInv, SeenSettled, Zero

(* The thread that moves, if it still has its word to look at.             *)
LEMMA SettledNext ==
  ASSUME PlaceInv, SettledInv, NEW t \in Threads, LocalsTyped(t), Lasts(t), SeenSettled(t)',
         \A a \in Onces : word'[a].count # 0 => ~ word'[a].locked /\ ~ word'[a].parked
  PROVE  SettledInv'
<1>1. \A u \in Threads \ {t} : /\ SeenSettled(u)
                               /\ pc'[u] = pc[u] /\ on'[u] = on[u] /\ doing'[u] = doing[u] /\ v'[u] = v[u]
                               /\ doing[u] \in Waits => on[u] \in Events
                               /\ doing[u] = "CallOnce" => on[u] \in Onces
  BY DEF PlaceInv, SettledInv, LocalsTyped, PlaceTyped, OnTyped, DoingTyped, SeenTyped
<1>2. \A u \in Threads \ {t} : SeenSettled(u)'
  BY <1>1 DEF SeenSettled, Lasts
<1> QED
  BY <1>2 DEF SettledInv

LEMMA EffectSettles ==
  ASSUME TypeOK, PlaceInv, HoldersAgree, SettledInv, NEW t \in Threads, LocalsTyped(t), WordTyped, Effect(t)
  PROVE  Lasts(t) /\ SettledInv'
<1>1. /\ doing[t] \in Waits => on[t] \in Events /\ pc[t] # "inside"
      /\ doing[t] = "CallOnce" => on[t] \in Onces
      /\ doing[t] \in {"RLock", "Lock"} => on[t] \in RWs
      /\ pc[t] \in {"loop", "load", "inside", "check"} => doing[t] # "none"
      /\ pc[t] \in {"loop", "load", "check"} => doing[t] # "Recursive"
      /\ pc[t] = "loop" => on[t] \in Addrs
  BY Kinds DEF PlaceInv, TypeOK, WordsTypeOK, Doing
<1>2. \A a \in Onces : word[a].count # 0 => ~ word[a].locked /\ ~ word[a].parked
  BY DEF SettledInv
<1>3. SeenSettled(t)
  BY DEF SettledInv
<1> DEFINE Fine == /\ Lasts(t) /\ SeenSettled(t)'
                   /\ \A a \in Onces : word'[a].count # 0 => ~ word'[a].locked /\ ~ word'[a].parked
<1> SUFFICES Fine
  BY SettledNext
<1>4. ASSUME UNCHANGED word, pc'[t] # "loop" PROVE Fine
  BY <1>2, <1>4 DEF Lasts, SeenSettled
<1>5. CASE Asks(t)
  BY <1>4, <1>5 DEF Asks
<1>6. CASE Notifies(t)
  <2>1. PICK a \in Events : word'[a].locked /\ OtherWords(a) /\ pc'[t] # "loop"
    BY <1>6 DEF Notifies
  <2> QED
    BY <1>2, <2>1, Kinds DEF OtherWords, Lasts, SeenSettled
<1>7. CASE Looks(t)
  <2>1. CASE pc'[t] = "loop"
    BY <1>2, <1>7, <2>1 DEF Looks, Stays, Lasts, SeenSettled
  <2> QED
    BY <1>4, <1>7, <2>1 DEF Looks
<1>8. CASE Announces(t)
  <2>1. pc'[t] # "loop" /\ pc[t] = "loop"
    BY <1>8 DEF Announces
  <2>2. CASE ~ UNCHANGED word
    <3>1. /\ word'[on[t]].locked = word[on[t]].locked /\ word'[on[t]].count = word[on[t]].count
          /\ OtherWords(on[t]) /\ (doing[t] = "CallOnce" => word[on[t]].locked)
      BY <1>8, <2>2 DEF Announces
    <3>2. on[t] \in Onces => doing[t] = "CallOnce"
      BY <1>1, <2>1, Kinds DEF TypeOK, WordsTypeOK, Doing
    <3> QED
      BY <1>1, <1>2, <2>1, <3>1, <3>2, Kinds DEF OtherWords, Lasts, SeenSettled
  <2> QED
    BY <1>4, <2>1, <2>2
<1>9. CASE Quits(t)
  BY <1>4, <1>9 DEF Quits
<1>10. CASE Enters(t)
  <2>1. pc'[t] # "loop" /\ OtherWords(on[t])
    BY <1>10 DEF Enters
  <2>2. CASE doing[t] = "CallOnce"
    <3>1. word[on[t]].count = 0 /\ word'[on[t]].count = 0
      BY <1>10, <2>2 DEF Enters
    <3> QED
      BY <1>1, <1>2, <2>1, <2>2, <3>1, Kinds DEF OtherWords, Lasts, SeenSettled
  <2>3. CASE doing[t] # "CallOnce"
    <3>1. on[t] \in RWs
      BY <1>1, <1>10, <2>3 DEF Enters
    <3> QED
      BY <1>2, <2>1, <3>1, Kinds DEF OtherWords, Lasts, SeenSettled
  <2> QED
    BY <2>2, <2>3
<1>11. CASE Leaves(t)
  <2>1. pc'[t] # "loop" /\ OtherWords(on[t]) /\ pc[t] = "inside"
    BY <1>11 DEF Leaves
  <2>2. CASE doing[t] = "CallOnce"
    <3>1. ~ word'[on[t]].locked /\ ~ word'[on[t]].parked
      BY <1>11, <2>2 DEF Leaves
    <3>2. word[on[t]].locked
      BY <1>1, <2>1, <2>2, InsideFacts
    <3> QED
      BY <1>1, <1>2, <2>1, <2>2, <3>1, <3>2, Kinds DEF OtherWords, Lasts, SeenSettled
  <2>3. CASE doing[t] # "CallOnce"
    <3>1. on[t] \in RWs
      BY <1>1, <1>11, <2>3 DEF Leaves
    <3> QED
      BY <1>2, <2>1, <3>1, Kinds DEF OtherWords, Lasts, SeenSettled
  <2> QED
    BY <2>2, <2>3
<1> QED
  BY <1>5, <1>6, <1>7, <1>8, <1>9, <1>10, <1>11 DEF Effect

LEMMA RecSettles ==
  ASSUME PlaceInv, SettledInv, NEW t \in Threads, LocalsTyped(t), NEW a \in Recursives, RecEffect(t, a)
  PROVE  Lasts(t) /\ SettledInv'
<1>1. OtherWords(a) /\ pc'[t] # "loop"
  BY DEF RecEffect, LocksAgain, Requests, Takes, Stamps, UnlocksOne, UnlocksLast, UnlocksAll, Drops, OtherWords
<1>2. /\ \A b \in Events \union Onces : word'[b] = word[b]
      /\ \A b \in Onces : word[b].count # 0 => ~ word[b].locked /\ ~ word[b].parked
  BY <1>1, Kinds DEF OtherWords, SettledInv
<1>3. Lasts(t) /\ SeenSettled(t)'
  BY <1>1, <1>2 DEF Lasts, SeenSettled
<1> QED
  BY <1>2, <1>3, SettledNext
(* A step as the callers see it.                                           *)
CallOf(t) == IF InCall(t) THEN [at |-> on[t], function |-> doing[t]] ELSE NULL

LEMMA ViewNext ==
  ASSUME NEW t \in Threads, LocalsTyped(t), \A u \in Threads \ {t} : saved'[u] = saved[u]
  PROVE  /\ calls' = [calls EXCEPT ![t] = CallOf(t)']
         /\ \A u \in Threads \ {t} : u \in entered' <=> u \in entered
         /\ t \in entered' <=> pc'[t] \in {"inside", "stamp"}
         /\ t \in entered <=> pc[t] \in {"inside", "stamp"}
         /\ entered \subseteq Threads /\ entered' \subseteq Threads
         /\ calls[t] = CallOf(t) /\ calls \in [Threads -> {calls[u] : u \in Threads}]
<1>1. /\ calls = [u \in Threads |-> CallOf(u)] /\ calls' = [u \in Threads |-> CallOf(u)']
      /\ \A u \in Threads \ {t} : pc'[u] = pc[u] /\ on'[u] = on[u] /\ doing'[u] = doing[u]
  BY DEF calls, CallOf, LocalsTyped, PlaceTyped, OnTyped, DoingTyped
<1>2. \A u \in Threads \ {t} : CallOf(u)' = CallOf(u)
  BY <1>1 DEF CallOf, InCall
<1>3. calls' = [calls EXCEPT ![t] = CallOf(t)']
  BY <1>1, <1>2
<1>4. calls[t] = CallOf(t) /\ calls \in [Threads -> {calls[u] : u \in Threads}]
  BY <1>1
<1> QED
  BY <1>1, <1>3, <1>4 DEF entered

(* A thread that is in a call, or that has entered what it called.         *)
LEMMA CallsAre ==
  ASSUME PlaceInv, TypeOK
  PROVE  /\ \A u \in Threads : InCall(u) =>
              calls[u].at = on[u] /\ calls[u].function = doing[u] /\ calls[u] \in Primitives!Calls
         /\ \A u \in Threads : ~ InCall(u) => calls[u] = NULL
         /\ \A u \in entered : u \in Threads /\ InCall(u) /\ pc[u] \in {"inside", "stamp"}
<1>1. ASSUME NEW u \in Threads, InCall(u)
      PROVE  [at |-> on[u], function |-> doing[u]] \in Primitives!Calls
  <2>1. /\ doing[u] \in Doing /\ doing[u] # "none"
        /\ doing[u] \in Waits => on[u] \in Events
        /\ doing[u] = "CallOnce" => on[u] \in Onces
        /\ doing[u] \in {"RLock", "Lock"} => on[u] \in RWs
        /\ doing[u] = "Recursive" => on[u] \in Recursives
    BY <1>1 DEF PlaceInv, TypeOK, WordsTypeOK, InCall
  <2> QED
    BY <2>1 DEF Primitives!Calls, Doing, Waits
<1>2. \A u \in Threads : calls[u] = IF InCall(u) THEN [at |-> on[u], function |-> doing[u]] ELSE NULL
  BY DEF calls
<1>3. \A u \in entered : u \in Threads /\ InCall(u) /\ pc[u] \in {"inside", "stamp"}
  BY DEF entered, InCall, PlaceInv
<1>4. ASSUME NEW u \in Threads, InCall(u)
      PROVE  calls[u].at = on[u] /\ calls[u].function = doing[u] /\ calls[u] \in Primitives!Calls
  <2>1. calls[u] = [at |-> on[u], function |-> doing[u]]
    BY <1>2, <1>4
  <2>2. calls[u] \in Primitives!Calls
    BY <1>1, <1>4, <2>1
  <2> QED
    BY <2>1, <2>2
<1>5. \A u \in Threads : ~ InCall(u) => calls[u] = NULL
  BY <1>2
<1> QED
  BY <1>3, <1>4, <1>5

LEMMA SettledIs ==
  /\ \A a : a \in settled <=> (a \in Events /\ word[a].locked) \/ (a \in Onces /\ word[a].count # 0)
  /\ \A a : a \in settled' <=> (a \in Events /\ word'[a].locked) \/ (a \in Onces /\ word'[a].count # 0)
BY DEF settled, IsSet

(* Nobody who must not be there is there when a call gets its lock.        *)
LEMMA EntersAlone ==
  ASSUME TypeOK, PlaceInv, HoldersAgree, NEW t \in Threads, Enters(t)
  PROVE  \A u \in entered : on[u] = on[t] => u # t /\ doing[t] = "RLock" /\ doing[u] = "RLock"
<1> SUFFICES ASSUME NEW u \in entered, on[u] = on[t]
             PROVE  u # t /\ doing[t] = "RLock" /\ doing[u] = "RLock"
  OBVIOUS
<1>1. u \in Threads /\ pc[u] \in {"inside", "stamp"} /\ pc[t] = "loop"
  BY CallsAre DEF Enters
<1>2. PICK a : a = on[t] /\ a = on[u]
  OBVIOUS
<1>3. /\ doing[t] = "CallOnce" => a \in Onces
      /\ doing[t] \in {"RLock", "Lock"} => a \in RWs
      /\ pc[u] # "inside" => doing[u] = "Recursive"
      /\ doing[u] \in Doing \ (Waits \union {"none"})
      /\ doing[u] = "CallOnce" => a \in Onces
      /\ doing[u] \in {"RLock", "Lock"} => a \in RWs
      /\ doing[u] = "Recursive" => a \in Recursives
  BY <1>1, <1>2 DEF PlaceInv, TypeOK, WordsTypeOK, Waits
<1>4. \A f : u \in Inside(a, f) => Cardinality(Inside(a, f)) # 0
  BY HoldersFinite, FS_EmptySet
<1>5. doing[u] # "Recursive" => u \in Inside(a, doing[u])
  BY <1>1, <1>2, <1>3 DEF Inside
<1>6. CASE doing[t] = "CallOnce"
  <2>1. ~ word[a].locked /\ a \in Onces /\ doing[u] = "CallOnce"
    BY <1>2, <1>3, <1>6, Kinds DEF Enters, Doing
  <2> QED
    BY <1>4, <1>5, <2>1 DEF HoldersAgree
<1>7. CASE doing[t] = "RLock"
  <2>1. ~ word[a].locked /\ a \in RWs /\ doing[u] \in {"RLock", "Lock"}
    BY <1>2, <1>3, <1>7, Kinds DEF Enters, Doing
  <2> QED
    BY <1>1, <1>4, <1>5, <1>7, <2>1 DEF HoldersAgree
<1>8. CASE doing[t] = "Lock"
  <2>1. ~ word[a].locked /\ word[a].count = 0 /\ a \in RWs /\ doing[u] \in {"RLock", "Lock"}
    BY <1>2, <1>3, <1>8, Kinds DEF Enters, Doing
  <2> QED
    BY <1>4, <1>5, <2>1 DEF HoldersAgree
<1> QED
  BY <1>6, <1>7, <1>8 DEF Enters

LEMMA TakesAlone ==
  ASSUME TypeOK, PlaceInv, HoldersAgree, NEW t \in Threads, NEW a \in Recursives, Takes(t, a)
  PROVE  \A u \in entered : on[u] # a
<1> SUFFICES ASSUME NEW u \in entered, on[u] = a PROVE FALSE
  OBVIOUS
<1>1. u \in Threads /\ pc[u] \in {"inside", "stamp"} /\ ~ word[a].locked
  BY CallsAre DEF Takes
<1>2. doing[u] = "Recursive"
  BY <1>1, Kinds DEF PlaceInv, TypeOK, WordsTypeOK, Doing
<1>3. u \in HoldsMutex(a)
  BY <1>1, <1>2 DEF HoldsMutex, Inside
<1> QED
  BY <1>1, <1>3, HoldersFinite, FS_EmptySet DEF HoldersAgree, RecursionCounts

View == <<calls, entered, depth, settled>>

LEMMA WordSimulates ==
  ASSUME Inv, SettledInv, NEW t \in Threads, LocalsTyped(t), WordTyped, Effect(t), UNCHANGED recVars
  PROVE  [Primitives!Next]_View
<1> USE DEF Inv
<1>0. UNCHANGED <<saved, depth>> /\ depth \in [Threads -> Nat]
  BY RecTypes DEF recVars
<1>1. /\ calls' = [calls EXCEPT ![t] = CallOf(t)']
      /\ \A u \in Threads \ {t} : u \in entered' <=> u \in entered
      /\ t \in entered' <=> pc'[t] \in {"inside", "stamp"}
      /\ t \in entered <=> pc[t] \in {"inside", "stamp"}
      /\ entered \subseteq Threads /\ entered' \subseteq Threads
      /\ calls[t] = CallOf(t) /\ calls \in [Threads -> {calls[u] : u \in Threads}]
  BY <1>0, ViewNext
<1>2. /\ doing[t] \in Waits => on[t] \in Events /\ pc[t] # "inside"
      /\ doing[t] = "CallOnce" => on[t] \in Onces
      /\ doing[t] \in {"RLock", "Lock"} => on[t] \in RWs
      /\ pc[t] = "idle" <=> doing[t] = "none"
      /\ doing[t] # "Recursive" /\ doing'[t] # "Recursive"
      /\ pc[t] \in {"idle", "load", "loop", "check", "inside"}
      /\ pc'[t] \notin {"parked", "wake", "mutex", "stamp", "drop"}
      /\ doing[t] = "none" \/ on[t] \in Addrs
      /\ doing[t] \in Doing
      /\ depth[t] = 0
  BY EffectPlaces, Kinds DEF PlaceInv, TypeOK, WordsTypeOK, Doing, DepthInv
<1>3. InCall(t) <=> doing[t] # "none"
  BY <1>2 DEF InCall
<1>4. InCall(t)' <=> doing'[t] # "none"
  BY <1>2 DEF InCall
<1>5. Stays(t) => CallOf(t)' = calls[t]
  BY <1>1, <1>3, <1>4 DEF Stays, CallOf
<1>6. CallOf(t)' = calls[t] => calls' = calls
  BY <1>1
<1>7. UNCHANGED word => settled' = settled
  BY DEF settled
<1>8. InCall(t) => calls[t].at = on[t] /\ calls[t].function = doing[t] /\ calls[t] \in Primitives!Calls
  BY CallsAre
<1>9. CASE Asks(t)
  <2>1. InCall(t)' /\ ~ InCall(t) /\ entered' = entered /\ settled' = settled
    BY <1>1, <1>2, <1>3, <1>4, <1>7, <1>9 DEF Asks, Waits
  <2>2. PICK c : c = [at |-> on'[t], function |-> doing'[t]]
    OBVIOUS
  <2>3. c \in Primitives!Calls /\ c.function # "Recursive"
    BY <1>9, <2>2 DEF Asks, Primitives!Calls, Waits
  <2>4. CallOf(t)' = c /\ calls[t] = NULL
    BY <1>1, <2>1, <2>2 DEF CallOf
  <2>5. depth' = [depth EXCEPT ![t] = 0]
    BY <1>0, <1>2
  <2>6. Primitives!Begin(t, c)
    BY <1>1, <2>1, <2>3, <2>4, <2>5 DEF Primitives!Begin
  <2> QED
    BY <2>3, <2>6 DEF Primitives!Next
<1>10. CASE Notifies(t)
  <2>1. PICK e \in Events : word'[e].locked /\ OtherWords(e)
    BY <1>10 DEF Notifies
  <2>2. entered' = entered /\ calls' = calls
    <3>1. pc[t] = "idle" /\ doing'[t] = "none" /\ doing[t] = "none" /\ pc'[t] \notin {"inside", "stamp"}
      BY <1>2, <1>10 DEF Notifies
    <3>2. CallOf(t)' = calls[t]
      BY <1>1, <1>3, <1>4, <3>1 DEF CallOf
    <3>3. calls' = calls
      BY <1>6, <3>2
    <3>4. \A u \in Threads : u \in entered' <=> u \in entered
      BY <1>1, <3>1
    <3>5. entered \subseteq Threads /\ entered' \subseteq Threads
      BY <1>1
    <3> HIDE DEF Inv
    <3> QED
      BY ONLY <3>3, <3>4, <3>5
  <2>3. settled' = settled \union {e}
    <3>1. \A a : a \in settled' <=> a \in settled \/ a = e
      BY <2>1, SettledIs, Kinds DEF OtherWords
    <3> QED
      BY <3>1
  <2> QED
    BY <1>0, <2>2, <2>3 DEF Primitives!Next, Primitives!Notify
<1>11. CASE Looks(t)
  <2>1. calls' = calls /\ settled' = settled /\ entered' = entered
    BY <1>1, <1>5, <1>6, <1>7, <1>11 DEF Looks
  <2> QED
    BY <1>0, <2>1 DEF View
<1>12. CASE Announces(t)
  <2>1. calls' = calls /\ entered' = entered
    BY <1>1, <1>5, <1>6, <1>12 DEF Announces
  <2>2. settled' = settled
    <3>1. CASE ~ UNCHANGED word
      <4>1. /\ word'[on[t]].locked = word[on[t]].locked /\ word'[on[t]].count = word[on[t]].count
            /\ OtherWords(on[t])
        BY <1>12, <3>1 DEF Announces
      <4>2. \A a : a \in settled' <=> a \in settled
        BY <4>1, SettledIs, Kinds DEF OtherWords
      <4> QED
        BY <4>2
    <3> QED
      BY <1>7, <3>1
  <2> QED
    BY <1>0, <2>1, <2>2 DEF View
<1>13. CASE Quits(t)
  <2>0. /\ doing[t] # "none" /\ doing'[t] = "none" /\ UNCHANGED word
        /\ pc[t] \notin {"inside", "stamp"} /\ pc'[t] \notin {"inside", "stamp"}
    BY <1>13 DEF Quits, Waits
  <2>1. InCall(t) /\ ~ InCall(t)' /\ entered' = entered /\ settled' = settled /\ CallOf(t)' = NULL
    BY <1>1, <1>3, <1>4, <1>7, <2>0 DEF CallOf
  <2>2. on[t] \in settled \/ doing[t] = "PyEvent_WaitTimed"
    <3>1. SeenSettled(t) /\ (pc[t] = "check" => doing[t] \in Waits)
      BY DEF SettledInv, PlaceInv
    <3> QED
      BY <1>2, <1>13, <3>1, SettledIs DEF Quits, SeenSettled
  <2>3. Primitives!Return(t)
    BY <1>0, <1>1, <1>8, <2>1, <2>2 DEF Primitives!Return
  <2> QED
    BY <2>3 DEF Primitives!Next
<1>14. CASE Enters(t)
  <2>1. /\ calls' = calls /\ InCall(t) /\ doing[t] \in {"CallOnce", "RLock", "Lock"}
        /\ t \notin entered /\ t \in entered' /\ OtherWords(on[t])
    BY <1>1, <1>3, <1>5, <1>6, <1>14 DEF Enters
  <2>2. entered' = entered \union {t}
    BY <1>1, <2>1
  <2>3. on[t] \notin Events \union settled
    BY <1>2, <1>14, <2>1, SettledIs, Kinds DEF Enters
  <2>4. settled' = settled
    <3>1. doing[t] = "CallOnce" => word[on[t]].count = 0 /\ word'[on[t]].count = 0
      BY <1>14 DEF Enters
    <3>2. \A a : a \in settled' <=> a \in settled
      BY <1>2, <2>1, <3>1, SettledIs, Kinds DEF OtherWords
    <3> QED
      BY <3>2
  <2>5. \A u \in entered : on[u] = on[t] => u # t /\ doing[t] = "RLock" /\ doing[u] = "RLock"
    BY <1>14, EntersAlone
  <2>6. \A u \in entered : calls[u].at = on[u] /\ calls[u].function = doing[u]
    BY CallsAre
  <2>7. \A u \in entered : calls[u].at = calls[t].at => u # t /\ Primitives!Compatible(t, u)
    BY <1>8, <2>1, <2>5, <2>6 DEF Primitives!Compatible
  <2>8. Primitives!Enter(t)
    BY <1>0, <1>8, <2>1, <2>2, <2>3, <2>4, <2>7 DEF Primitives!Enter
  <2> QED
    BY <2>8 DEF Primitives!Next
<1>15. CASE Leaves(t)
  <2>1. /\ InCall(t) /\ ~ InCall(t)' /\ t \in entered /\ t \notin entered' /\ CallOf(t)' = NULL
        /\ OtherWords(on[t]) /\ doing[t] \in {"CallOnce", "RLock", "Lock"}
    BY <1>1, <1>3, <1>4, <1>15 DEF Leaves, CallOf
  <2>2. entered' = entered \ {t}
    BY <1>1, <2>1
  <2>3. depth' = [depth EXCEPT ![t] = 0] /\ depth[t] < 2
    BY <1>0, <1>2
  <2>4. settled' = settled \/ (doing[t] = "CallOnce" /\ settled' = settled \union {on[t]})
    <3>1. CASE doing[t] = "CallOnce"
      <4>1. \A a : a # on[t] => (a \in settled' <=> a \in settled)
        BY <1>2, <2>1, <3>1, SettledIs, Kinds DEF OtherWords
      <4>2. on[t] \in settled => on[t] \in settled'
        <5>1. on[t] \in Onces /\ word[on[t]].locked
          BY <1>2, <1>15, <3>1, InsideFacts DEF Leaves
        <5> QED
          BY <5>1, SettledIs, Kinds DEF SettledInv
      <4>3. CASE on[t] \in settled'
        <5>1. settled' = settled \union {on[t]}
          BY <4>1, <4>3
        <5> QED
          BY <3>1, <5>1
      <4>4. CASE on[t] \notin settled'
        <5>1. settled' = settled
          BY <4>1, <4>2, <4>4
        <5> QED
          BY <5>1
      <4> QED
        BY <4>3, <4>4
    <3>2. CASE doing[t] # "CallOnce"
      <4>1. \A a : a \in settled' <=> a \in settled
        BY <1>2, <2>1, <3>2, SettledIs, Kinds DEF OtherWords
      <4> QED
        BY <4>1
    <3> QED
      BY <3>1, <3>2
  <2>5. Primitives!Leave(t)
    BY <1>1, <1>8, <2>1, <2>2, <2>3, <2>4 DEF Primitives!Leave
  <2> QED
    BY <2>5 DEF Primitives!Next
<1> QED
  BY <1>9, <1>10, <1>11, <1>12, <1>13, <1>14, <1>15 DEF Effect
LEMMA RecSimulates ==
  ASSUME Inv, NEW t \in Threads, LocalsTyped(t), WordTyped, RecursionTypeOK',
         NEW a \in Recursives, RecEffect(t, a), RecOthers(t, a)
  PROVE  [Primitives!Next]_View
<1> USE DEF Inv
<1>1. /\ calls' = [calls EXCEPT ![t] = CallOf(t)']
      /\ \A u \in Threads \ {t} : u \in entered' <=> u \in entered
      /\ t \in entered' <=> pc'[t] \in {"inside", "stamp"}
      /\ t \in entered <=> pc[t] \in {"inside", "stamp"}
      /\ entered \subseteq Threads /\ entered' \subseteq Threads
      /\ calls[t] = CallOf(t) /\ calls \in [Threads -> {calls[u] : u \in Threads}]
  BY ViewNext DEF RecOthers
<1>2. /\ depth \in [Threads -> Nat] /\ depth' \in [Threads -> Nat]
      /\ \A u \in Threads \ {t} : depth'[u] = depth[u]
      /\ depth[t] \in Nat /\ saved[t] \in Nat /\ level[a] \in Nat
  BY RecTypes, Kinds DEF RecursionTypeOK, RecOthers
<1>3. /\ depth' = [depth EXCEPT ![t] = depth'[t]]
      /\ depth'[t] = depth[t] => depth' = depth
  BY <1>2
<1>4. /\ pc[t] = "idle" <=> doing[t] = "none" /\ pc[t] \notin {"unpark", "wake"}
      /\ pc[t] \in {"mutex", "stamp", "drop"} => doing[t] = "Recursive"
      /\ doing[t] # "Recursive" => saved[t] = 0 /\ depth[t] = 0
      /\ pc[t] = "inside" => saved[t] = 0
      /\ thread[a] = t => level[a] + 1 = depth[t]
  BY OwnerIs DEF PlaceInv, DepthInv
<1>5. settled' = settled
  <2>1. OtherWords(a)
    BY DEF RecEffect, LocksAgain, Requests, Takes, Stamps, UnlocksOne, UnlocksLast, UnlocksAll, Drops, OtherWords
  <2>2. \A b : b \in settled' <=> b \in settled
    BY <2>1, SettledIs, Kinds DEF OtherWords
  <2> QED
    BY <2>2
<1>6. CallOf(t)' = calls[t] => calls' = calls
  BY <1>1
<1>7. InCall(t) => calls[t].at = on[t] /\ calls[t].function = doing[t] /\ calls[t] \in Primitives!Calls
  BY CallsAre
<1>8. Stays(t) /\ InCall(t) /\ InCall(t)' => calls' = calls
  BY <1>1, <1>6 DEF Stays, CallOf
<1>9. (t \in entered' <=> t \in entered) => entered' = entered
  BY <1>1
<1>10. CASE LocksAgain(t, a)
  <2>1. /\ pc[t] = "inside" /\ doing[t] = "Recursive" /\ pc'[t] = "inside" /\ Stays(t)
        /\ depth'[t] = depth[t] + 1
    BY <1>10 DEF LocksAgain, Stays, Depth
  <2>2. InCall(t) /\ InCall(t)' /\ t \in entered /\ t \in entered'
    BY <1>1, <2>1 DEF InCall, Stays
  <2>3. Primitives!Nest(t)
    BY <1>3, <1>5, <1>7, <1>8, <1>9, <2>1, <2>2 DEF Primitives!Nest
  <2> QED
    BY <2>3 DEF Primitives!Next
<1>11. CASE Requests(t, a)
  <2>1. /\ pc[t] = "idle" /\ pc'[t] = "mutex" /\ on'[t] = a /\ doing'[t] = "Recursive"
        /\ depth'[t] = depth[t] + 1
    BY <1>11 DEF Requests, Depth
  <2>2. ~ InCall(t) /\ InCall(t)' /\ t \notin entered /\ t \notin entered'
    BY <1>1, <1>4, <2>1 DEF InCall
  <2>3. PICK c : c = [at |-> a, function |-> "Recursive"]
    OBVIOUS
  <2>4. c \in Primitives!Calls /\ c.function = "Recursive"
    BY <2>3 DEF Primitives!Calls
  <2>5. CallOf(t)' = c /\ calls[t] = NULL
    BY <1>1, <2>1, <2>2, <2>3 DEF CallOf
  <2>6. depth' = [depth EXCEPT ![t] = 1]
    <3>1. depth'[t] = 1
      BY <1>4, <2>1
    <3> QED
      BY <1>3, <3>1
  <2>7. Primitives!Begin(t, c)
    BY <1>1, <1>5, <1>9, <2>2, <2>4, <2>5, <2>6 DEF Primitives!Begin
  <2> QED
    BY <2>4, <2>7 DEF Primitives!Next
<1>12. CASE Takes(t, a)
  <2>1. /\ pc[t] = "mutex" /\ pc'[t] = "stamp" /\ Stays(t) /\ on[t] = a /\ depth'[t] = depth[t]
    BY <1>12 DEF Takes, Depth
  <2>2. doing[t] = "Recursive" /\ InCall(t) /\ InCall(t)' /\ t \notin entered /\ t \in entered'
    BY <1>1, <1>4, <2>1 DEF InCall, Stays
  <2>3. entered' = entered \union {t}
    BY <1>1, <2>2
  <2>4. \A u \in entered : calls[u].at # calls[t].at
    BY <1>7, <1>12, <2>1, <2>2, TakesAlone, CallsAre
  <2>5. a \notin Events \union settled
    BY SettledIs, Kinds
  <2>6. Primitives!Enter(t)
    BY <1>3, <1>5, <1>7, <1>8, <2>1, <2>2, <2>3, <2>4, <2>5 DEF Primitives!Enter
  <2> QED
    BY <2>6 DEF Primitives!Next
<1>13. CASE Stamps(t, a)
  <2>1. pc[t] = "stamp" /\ pc'[t] = "inside" /\ Stays(t) /\ depth'[t] = depth[t]
    BY <1>13 DEF Stamps, Depth
  <2>2. InCall(t) /\ InCall(t)' /\ t \in entered /\ t \in entered'
    BY <1>1, <1>4, <2>1 DEF InCall, Stays
  <2> QED
    BY <1>3, <1>5, <1>8, <1>9, <2>1, <2>2 DEF View
<1>14. CASE UnlocksOne(t, a)
  <2>1. /\ pc[t] = "inside" /\ doing[t] = "Recursive" /\ pc'[t] = "inside" /\ Stays(t)
        /\ thread[a] = t /\ level[a] > 0 /\ depth'[t] = depth[t] - 1
    BY <1>14 DEF UnlocksOne, Depth
  <2>2. InCall(t) /\ InCall(t)' /\ t \in entered /\ t \in entered' /\ depth[t] > 1
    BY <1>1, <1>2, <1>4, <2>1 DEF InCall, Stays
  <2>3. Primitives!Nest(t)
    BY <1>3, <1>5, <1>7, <1>8, <1>9, <2>1, <2>2 DEF Primitives!Nest
  <2> QED
    BY <2>3 DEF Primitives!Next
<1>15. CASE UnlocksLast(t, a)
  <2>1. /\ pc[t] = "inside" /\ doing[t] = "Recursive" /\ pc'[t] = "drop" /\ Stays(t)
        /\ thread[a] = t /\ level[a] = 0 /\ saved'[t] = saved[t] /\ depth'[t] = depth[t] - 1
    BY <1>15 DEF UnlocksLast, Depth
  <2>2. ~ InCall(t)' /\ t \in entered /\ t \notin entered' /\ depth[t] = 1 /\ depth'[t] = 0
    BY <1>1, <1>2, <1>4, <2>1 DEF InCall
  <2>3. entered' = entered \ {t} /\ CallOf(t)' = NULL
    BY <1>1, <2>2 DEF CallOf
  <2>4. Primitives!Leave(t)
    BY <1>1, <1>3, <1>5, <2>2, <2>3 DEF Primitives!Leave
  <2> QED
    BY <2>4 DEF Primitives!Next
<1>16. CASE UnlocksAll(t, a)
  <2>1. /\ pc[t] = "inside" /\ doing[t] = "Recursive" /\ pc'[t] = "drop" /\ Stays(t)
        /\ saved'[t] = level[a] + 1 /\ depth'[t] = depth[t]
    BY <1>16 DEF UnlocksAll, Depth
  <2>2. InCall(t) /\ InCall(t)' /\ t \in entered /\ t \notin entered'
    BY <1>1, <1>2, <2>1 DEF InCall, Stays
  <2>3. entered' = entered \ {t}
    BY <1>1, <2>2
  <2>4. Primitives!GiveUpAll(t)
    BY <1>3, <1>5, <1>7, <1>8, <2>1, <2>2, <2>3 DEF Primitives!GiveUpAll
  <2> QED
    BY <2>4 DEF Primitives!Next
<1>17. CASE Drops(t, a)
  <2>1. /\ pc[t] = "drop" /\ depth'[t] = depth[t] /\ saved'[t] = saved[t]
        /\ IF saved[t] = 0 THEN pc'[t] = "idle" /\ doing'[t] = "none" ELSE pc'[t] = "mutex" /\ Stays(t)
    BY <1>17 DEF Drops, Depth
  <2>2. entered' = entered
    BY <1>1, <1>9, <2>1
  <2>3. calls' = calls
    <3>1. CASE saved[t] = 0
      BY <1>1, <1>6, <2>1, <3>1 DEF CallOf, InCall
    <3>2. CASE saved[t] # 0
      BY <1>4, <1>8, <2>1, <3>2 DEF InCall, Stays
    <3> QED
      BY <3>1, <3>2
  <2> QED
    BY <1>3, <1>5, <2>1, <2>2, <2>3 DEF View
<1> QED
  BY <1>10, <1>11, <1>12, <1>13, <1>14, <1>15, <1>16, <1>17 DEF RecEffect

LEMMA LotSimulates ==
  ASSUME Inv, NEW t \in Threads, LocalsTyped(t), UNCHANGED <<word, doing, v>>, LotEffect(t),
         UNCHANGED recVars
  PROVE  UNCHANGED View
<1> USE DEF Inv
<1>1. UNCHANGED <<saved, depth>>
  BY DEF recVars
<1>2. /\ pc[t] \in {"park", "parked", "unpark", "wake"} /\ doing[t] # "Recursive"
      /\ pc'[t] \in {"parked", "check", "load", "idle", "wake"}
  BY LotPlaces
<1>3. doing'[t] = doing[t] /\ (on'[t] = on[t] \/ doing[t] = "none")
  BY DEF LotEffect, Sleeps, Parks, Turns, Dequeues, Posts, PlaceInv
<1>4. CallOf(t)' = CallOf(t)
  BY <1>2, <1>3 DEF CallOf, InCall
<1>5. calls' = calls /\ entered' = entered
  BY <1>1, <1>2, <1>4, ViewNext
<1>6. settled' = settled
  BY DEF settled
<1> QED
  BY <1>1, <1>5, <1>6 DEF View

LEMMA InitView == Init => Primitives!Init
<1> SUFFICES ASSUME Init PROVE Primitives!Init
  OBVIOUS
<1>1. \A t \in Threads : pc[t] = "idle" /\ doing[t] = "none"
  BY DEF Init, WordsInit
<1>2. calls = [t \in Threads |-> NULL] /\ entered = {}
  BY <1>1 DEF calls, entered, InCall
<1>3. \A a \in Addrs : ~ word[a].locked /\ word[a].count = 0
  BY DEF Init, WordsInit, Zero
<1>4. \A a : a \notin settled
  BY <1>3, SettledIs, Kinds
<1> QED
  BY <1>2, <1>4 DEF Init, RecInit, Primitives!Init

LEMMA StepView ==
  ASSUME Inv, SettledInv, [Next]_vars
  PROVE  SettledInv' /\ [Primitives!Next]_View
<1> USE DEF Inv
<1>1. ASSUME NEW t \in Threads, LotMove(t), UNCHANGED recVars
      PROVE  SettledInv' /\ [Primitives!Next]_View
  <2>1. LocalsTyped(t) /\ UNCHANGED <<word, doing, v>> /\ LotEffect(t)
    BY <1>1, LotFacts
  <2>2. pc'[t] # "loop"
    BY <2>1, LotPlaces
  <2>3. Lasts(t) /\ SeenSettled(t)'
    BY <2>1, <2>2 DEF Lasts, SeenSettled
  <2>4. \A a \in Onces : word'[a].count # 0 => ~ word'[a].locked /\ ~ word'[a].parked
    BY <2>1 DEF SettledInv
  <2>5. SettledInv'
    BY <2>1, <2>3, <2>4, SettledNext
  <2>6. UNCHANGED View
    BY <1>1, <2>1, LotSimulates
  <2> QED
    BY <2>5, <2>6
<1>2. ASSUME NEW t \in Threads, WordMove(t), UNCHANGED recVars
      PROVE  SettledInv' /\ [Primitives!Next]_View
  BY <1>2, WordFacts, EffectSettles, WordSimulates
<1>3. ASSUME NEW t \in Threads, RecMove(t)
      PROVE  SettledInv' /\ [Primitives!Next]_View
  <2>1. LocalsTyped(t) /\ WordTyped /\ RecursionTypeOK'
    BY <1>3, RecFacts
  <2>2. PICK a \in Recursives : RecEffect(t, a) /\ RecOthers(t, a)
    BY <1>3, RecFacts
  <2> QED
    BY <2>1, <2>2, RecSettles, RecSimulates
<1>4. CASE UNCHANGED vars
  <2>1. UNCHANGED <<word, pc, on, doing, v, saved, depth>>
    BY <1>4 DEF vars, wordVars, recVars
  <2>2. SettledInv'
    BY <2>1 DEF SettledInv, SeenSettled
  <2>3. UNCHANGED View
    BY <2>1 DEF View, calls, entered, settled, InCall
  <2> QED
    BY <2>2, <2>3
<1> QED
  BY <1>1, <1>2, <1>3, <1>4, NextMoves

(* Events, once flags, RW mutexes and recursive mutexes keep what they     *)
(* promise to their callers (PyEvent_Wait, _PyOnceFlag_CallOnceSlow,       *)
(* _PyRWMutex_RLock and _Lock, _PyRecursiveMutex_Lock and _release_save):  *)
(* nobody returns from an event before it is set or from a once flag       *)
(* before its function has succeeded, nor runs the function after; and     *)
(* who gives all levels of a lock up gets all of them back.                *)
THEOREM Implementation == Spec => ImplementsPrimitives
<1>1. Init => SettledInv /\ Primitives!Init
  BY SettledInit, InitView
<1>2. Inv /\ SettledInv /\ [Next]_vars => SettledInv'
  BY StepView
<1>3. Inv /\ SettledInv /\ [Next]_vars => [Primitives!Next]_Primitives!vars
  BY StepView DEF View, Primitives!vars
<1> QED
  BY <1>1, <1>2, <1>3, Invariance, PTL DEF Spec, ImplementsPrimitives, Primitives!Spec
=============================================================================
