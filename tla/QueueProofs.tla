---------------------------- MODULE QueueProofs ------------------------------
(***************************************************************************)
(* The safety properties of queue.Queue over conditions, for every finite  *)
(* set of threads and every size of the queue.                             *)
(***************************************************************************)
EXTENDS Queue, SequenceTheorems, FiniteSetTheorems, TLAPS

(* Appending a new element keeps a sequence free of repetitions.           *)
LEMMA AppendFacts ==
  ASSUME NEW S, NEW q \in Seq(S), NEW e \in S, IsInjective(q),
         \A i \in DOMAIN q : q[i] # e
  PROVE  /\ Append(q, e) \in Seq(S)
         /\ IsInjective(Append(q, e))
         /\ ToSet(Append(q, e)) = ToSet(q) \union {e}
<1> DEFINE r == Append(q, e)
<1>1. r \in Seq(S) /\ Len(r) = Len(q) + 1 /\ Len(q) \in Nat
  OBVIOUS
<1>2. DOMAIN r = 1 .. Len(q) + 1 /\ DOMAIN q = 1 .. Len(q)
  BY <1>1
<1>3. \A i \in 1 .. Len(q) : r[i] = q[i]
  OBVIOUS
<1>4. r[Len(q) + 1] = e
  OBVIOUS
<1> HIDE DEF r
<1>5. IsInjective(r)
  BY <1>1, <1>2, <1>3, <1>4 DEF IsInjective
<1>6. ToSet(r) = ToSet(q) \union {e}
  <2>1. \A u : (\E i \in DOMAIN r : r[i] = u) <=> (\E i \in DOMAIN q : q[i] = u) \/ u = e
    BY <1>1, <1>2, <1>3, <1>4
  <2> QED
    BY <2>1 DEF ToSet
<1> QED
  BY <1>1, <1>5, <1>6 DEF r

(* So does removing one, which then is gone and the others are left.       *)
LEMMA RemoveFacts ==
  ASSUME NEW S, NEW q \in Seq(S), NEW k \in DOMAIN q, IsInjective(q)
  PROVE  /\ RemoveAt(q, k) \in Seq(S)
         /\ IsInjective(RemoveAt(q, k))
         /\ ToSet(RemoveAt(q, k)) = ToSet(q) \ {q[k]}
<1> DEFINE r == RemoveAt(q, k)
           n == Len(q)
<1>1. n \in Nat /\ k \in 1 .. n /\ DOMAIN q = 1 .. n
  OBVIOUS
<1>2. /\ SubSeq(q, 1, k - 1) \in Seq(S) /\ Len(SubSeq(q, 1, k - 1)) = k - 1
      /\ \A i \in 1 .. k - 1 : SubSeq(q, 1, k - 1)[i] = q[i]
  BY <1>1
<1>3. /\ SubSeq(q, k + 1, n) \in Seq(S) /\ Len(SubSeq(q, k + 1, n)) = n - k
      /\ \A i \in 1 .. n - k : SubSeq(q, k + 1, n)[i] = q[i + k]
  BY <1>1
<1> DEFINE front == SubSeq(q, 1, k - 1)
           back  == SubSeq(q, k + 1, n)
<1>a. r = front \o back
  BY DEF RemoveAt
<1>4. r \in Seq(S) /\ Len(r) = n - 1
  <2>1. front \in Seq(S) /\ back \in Seq(S) /\ Len(front) = k - 1 /\ Len(back) = n - k
    BY <1>2, <1>3
  <2> HIDE DEF front, back, r
  <2>2. r \in Seq(S) /\ Len(r) = Len(front) + Len(back)
    BY <2>1, <1>a, ConcatProperties
  <2> QED
    BY <2>1, <2>2, <1>1
<1>5. \A i \in 1 .. n - 1 : r[i] = IF i < k THEN q[i] ELSE q[i + 1]
  <2> SUFFICES ASSUME NEW i \in 1 .. n - 1
               PROVE  r[i] = IF i < k THEN q[i] ELSE q[i + 1]
    OBVIOUS
  <2>1. /\ front \in Seq(S) /\ back \in Seq(S) /\ Len(front) = k - 1 /\ Len(back) = n - k
        /\ \A j \in 1 .. k - 1 : front[j] = q[j]
        /\ \A j \in 1 .. n - k : back[j] = q[j + k]
    BY <1>2, <1>3
  <2> HIDE DEF front, back, r
  <2>2. CASE i < k
    BY <2>1, <2>2, <1>1, <1>a
  <2>3. CASE ~ (i < k)
    <3>3. i \in 1 .. Len(front) + Len(back) /\ ~ (i <= Len(front))
      BY <2>1, <2>3, <1>1
    <3>1. r[i] = back[i - (k - 1)]
      BY <2>1, <3>3, <1>a, ConcatProperties, SMTT(30)
    <3>2. i - (k - 1) \in 1 .. n - k /\ i - (k - 1) + k = i + 1
      BY <2>3, <1>1
    <3> QED
      BY <3>1, <3>2, <2>1, <2>3
  <2> QED
    BY <2>2, <2>3
<1>6. DOMAIN r = 1 .. n - 1
  BY <1>4
<1> HIDE DEF r
<1>7. IsInjective(r)
  <2> SUFFICES ASSUME NEW i \in 1 .. n - 1, NEW j \in 1 .. n - 1, r[i] = r[j]
               PROVE  i = j
    BY <1>6 DEF IsInjective
  <2> DEFINE old(x) == IF x < k THEN x ELSE x + 1
  <2>1. old(i) \in 1 .. n /\ old(j) \in 1 .. n /\ q[old(i)] = q[old(j)]
    BY <1>1, <1>5
  <2>2. old(i) = old(j)
    BY <2>1, <1>1 DEF IsInjective
  <2> QED
    BY <2>2, <1>1
<1>8. ASSUME NEW u PROVE (\E i \in DOMAIN r : r[i] = u) => (\E i \in DOMAIN q : q[i] = u) /\ u # q[k]
  <2> SUFFICES ASSUME NEW i \in 1 .. n - 1, r[i] = u
               PROVE  (\E j \in 1 .. n : q[j] = u) /\ u # q[k]
    BY <1>1, <1>6
  <2>1. CASE i < k
    BY <2>1, <1>1, <1>5 DEF IsInjective
  <2>2. CASE ~ (i < k)
    <3>1. i + 1 \in 1 .. n /\ i + 1 # k /\ r[i] = q[i + 1]
      BY <2>2, <1>1, <1>5
    <3> QED
      BY <3>1, <1>1 DEF IsInjective
  <2> QED
    BY <2>1, <2>2
<1>9. ASSUME NEW j \in DOMAIN q, q[j] # q[k] PROVE \E i \in DOMAIN r : r[i] = q[j]
  <2>1. CASE j < k
    <3>1. j \in 1 .. n - 1 /\ r[j] = q[j]
      BY <2>1, <1>1, <1>5
    <3> QED
      BY <3>1, <1>6
  <2>2. CASE j > k
    <3>1. j - 1 \in 1 .. n - 1 /\ r[j - 1] = q[j - 1 + 1]
      BY <2>2, <1>1, <1>5
    <3>2. j - 1 + 1 = j
      BY <1>1
    <3> QED
      BY <3>1, <3>2, <1>6
  <2> QED
    BY <2>1, <2>2, <1>1, <1>9
<1>10. ToSet(r) = ToSet(q) \ {q[k]}
  <2>1. ASSUME NEW u \in ToSet(r) PROVE u \in ToSet(q) \ {q[k]}
    <3>1. \E i \in DOMAIN r : r[i] = u
      BY DEF ToSet
    <3>2. (\E i \in DOMAIN q : q[i] = u) /\ u # q[k]
      BY <3>1, <1>8
    <3> QED
      BY <3>2 DEF ToSet
  <2>2. ASSUME NEW u \in ToSet(q) \ {q[k]} PROVE u \in ToSet(r)
    <3>1. PICK j \in DOMAIN q : q[j] = u
      BY DEF ToSet
    <3>2. \E i \in DOMAIN r : r[i] = u
      BY <3>1, <1>9
    <3> QED
      BY <3>2 DEF ToSet
  <2> QED
    BY <2>1, <2>2
<1> QED
  BY <1>4, <1>7, <1>10 DEF r

(* Removing the first occurrence, if there is one.                         *)
LEMMA RemoveFirstFacts ==
  ASSUME NEW S, NEW q \in Seq(S), NEW e, IsInjective(q)
  PROVE  /\ RemoveFirst(q, e) \in Seq(S)
         /\ IsInjective(RemoveFirst(q, e))
         /\ ToSet(RemoveFirst(q, e)) = ToSet(q) \ {e}
<1>1. CASE \E i \in 1 .. Len(q) : q[i] = e
  <2>1. PICK i \in 1 .. Len(q) : q[i] = e
    BY <1>1
  <2> DEFINE I == {j \in 1 .. Len(q) : q[j] = e}
  <2>2. I = {i}
    BY <2>1 DEF IsInjective
  <2>3. SelectInSeq(q, LAMBDA v : v = e) = Min(I)
    BY <2>2 DEF SelectInSeq
  <2>4. Min(I) = i
    BY <2>1, <2>2 DEF Min
  <2>5. RemoveFirst(q, e) = RemoveAt(q, i)
    BY <1>1, <2>3, <2>4 DEF RemoveFirst
  <2>6. i \in DOMAIN q
    BY <2>1
  <2> QED
    BY <2>1, <2>5, <2>6, RemoveFacts
<1>2. CASE ~ \E i \in 1 .. Len(q) : q[i] = e
  <2>1. RemoveFirst(q, e) = q
    BY <1>2 DEF RemoveFirst
  <2>2. e \notin ToSet(q)
    BY <1>2 DEF ToSet
  <2> QED
    BY <2>1, <2>2
<1> QED
  BY <1>1, <1>2

(* The first n elements of a sequence.                                     *)
Heads(q, n) == {q[i] : i \in {i \in DOMAIN q : i <= n}}

(* What is left without them.                                              *)
LEMMA BackFacts ==
  ASSUME NEW S, NEW q \in Seq(S), NEW n \in Nat, IsInjective(q)
  PROVE  /\ SubSeq(q, n + 1, Len(q)) \in Seq(S)
         /\ IsInjective(SubSeq(q, n + 1, Len(q)))
         /\ ToSet(SubSeq(q, n + 1, Len(q))) = ToSet(q) \ Heads(q, n)
<1> DEFINE r == SubSeq(q, n + 1, Len(q))
           m == IF n <= Len(q) THEN Len(q) - n ELSE 0
<1>1. Len(q) \in Nat /\ DOMAIN q = 1 .. Len(q) /\ m \in Nat
  OBVIOUS
<1>2. r \in Seq(S) /\ Len(r) = m /\ \A i \in 1 .. m : r[i] = q[n + i]
  BY <1>1, SMTT(30)
<1> HIDE DEF r
<1>3. DOMAIN r = 1 .. m
  BY <1>2
<1>a. ASSUME NEW i \in 1 .. m PROVE n + i \in 1 .. Len(q) /\ i > 0
  BY <1>1
<1> HIDE DEF m
<1>4. IsInjective(r)
  <2> SUFFICES ASSUME NEW i \in 1 .. m, NEW j \in 1 .. m, r[i] = r[j] PROVE i = j
    BY <1>3 DEF IsInjective
  <2>1. n + i = n + j
    BY <1>1, <1>2, <1>a DEF IsInjective
  <2> QED
    BY <2>1, <1>1
<1>5. ASSUME NEW u \in ToSet(r) PROVE u \in ToSet(q) \ Heads(q, n)
  <2>1. PICK i \in 1 .. m : r[i] = u
    BY <1>3 DEF ToSet
  <2>2. n + i \in DOMAIN q /\ q[n + i] = u
    BY <1>1, <1>2, <1>a, <2>1
  <2>3. ~ (n + i <= n)
    BY <1>1, <2>1
  <2> QED
    BY <2>2, <2>3 DEF ToSet, Heads, IsInjective
<1>6. ASSUME NEW u \in ToSet(q) \ Heads(q, n) PROVE u \in ToSet(r)
  <2>1. PICK j \in DOMAIN q : q[j] = u
    BY DEF ToSet
  <2>2. j > n
    BY <1>1, <2>1 DEF Heads
  <2>3. j - n \in 1 .. m /\ n + (j - n) = j
    BY <1>1, <2>1, <2>2 DEF m
  <2>4. r[j - n] = u
    BY <1>2, <2>1, <2>3
  <2> QED
    BY <1>3, <2>3, <2>4 DEF ToSet
<1> QED
  BY <1>2, <1>4, <1>5, <1>6 DEF r

(* Nobody, one or all of those in a list.                                  *)
LEMMA HeadsFacts ==
  ASSUME NEW S, NEW q \in Seq(S)
  PROVE  /\ \A n \in Nat : Heads(q, n) \subseteq ToSet(q)
         /\ Heads(q, 0) = {}
         /\ ToSet(q) # {} => \E v \in ToSet(q) : Heads(q, 1) = {v}
         /\ Heads(q, Len(q)) = ToSet(q)
<1>1. Len(q) \in Nat /\ DOMAIN q = 1 .. Len(q)
  OBVIOUS
<1>2. \A n \in Nat : Heads(q, n) \subseteq ToSet(q)
  BY DEF Heads, ToSet
<1>3. Heads(q, 0) = {}
  BY <1>1 DEF Heads
<1>4. ASSUME ToSet(q) # {} PROVE \E v \in ToSet(q) : Heads(q, 1) = {v}
  <2>1. 1 \in DOMAIN q
    BY <1>1, <1>4 DEF ToSet
  <2>2. {i \in DOMAIN q : i <= 1} = {1}
    BY <1>1, <2>1
  <2>3. Heads(q, 1) = {q[1]}
    BY <2>2 DEF Heads
  <2> QED
    BY <2>1, <2>3 DEF ToSet
<1>5. Heads(q, Len(q)) = ToSet(q)
  BY <1>1 DEF Heads, ToSet
<1> QED
  BY <1>2, <1>3, <1>4, <1>5

-----------------------------------------------------------------------------
(* Conditions.                                                             *)

(* The lists once a thread has the lock again: its own waiter is out.      *)
LEMMA WaitersFacts ==
  ASSUME ConditionInv, NEW t \in Threads, pc[t] # "asleep"
  PROVE  /\ Waiters(t) \in [Conditions -> Seq(Threads)]
         /\ \A c \in Conditions : /\ IsInjective(Waiters(t)[c])
                                  /\ ToSet(Waiters(t)[c]) = Untold(c) \ {t}
<1>1. waiters \in [Conditions -> Seq(Threads)]
  BY DEF ConditionInv, ConditionTypeOK
<1>2. \A c \in Conditions : IsInjective(waiters[c]) /\ ToSet(waiters[c]) = Untold(c)
  BY DEF ConditionInv, ListInv
<1>3. CASE pc[t] = "awake" /\ ~ gotit[t]
  <2>1. on[t] \in Conditions
    BY <1>3 DEF ConditionInv, ConditionTypeOK, PlaceInv
  <2>2. Waiters(t) = [waiters EXCEPT ![on[t]] = RemoveFirst(waiters[on[t]], t)]
    BY <1>3 DEF Waiters
  <2>3. /\ RemoveFirst(waiters[on[t]], t) \in Seq(Threads)
        /\ IsInjective(RemoveFirst(waiters[on[t]], t))
        /\ ToSet(RemoveFirst(waiters[on[t]], t)) = Untold(on[t]) \ {t}
    <3> DEFINE q == waiters[on[t]]
    <3>1. q \in Seq(Threads) /\ IsInjective(q) /\ ToSet(q) = Untold(on[t])
      BY <1>1, <1>2, <2>1
    <3> HIDE DEF q
    <3>2. /\ RemoveFirst(q, t) \in Seq(Threads)
          /\ IsInjective(RemoveFirst(q, t))
          /\ ToSet(RemoveFirst(q, t)) = Untold(on[t]) \ {t}
      BY <3>1, RemoveFirstFacts
    <3> QED
      BY <3>2 DEF q
  <2>4. \A c \in Conditions : c # on[t] => t \notin Untold(c)
    BY DEF Untold
  <2> QED
    BY <1>1, <1>2, <2>1, <2>2, <2>3, <2>4
<1>4. CASE ~ (pc[t] = "awake" /\ ~ gotit[t])
  <2>1. Waiters(t) = waiters
    BY <1>4 DEF Waiters
  <2>2. \A c \in Conditions : t \notin Untold(c)
    BY <1>4, ConditionAssumption DEF ConditionInv, ConditionTypeOK, PlaceInv, Untold
  <2> QED
    BY <1>1, <1>2, <2>1, <2>2
<1> QED
  BY <1>3, <1>4

(* A wait: the thread is among those who have not been notified.           *)
LEMMA WaitFacts ==
  ASSUME ConditionInv, NEW t \in Threads, NEW c \in Conditions, pc[t] # "asleep", Wait(t, c)
  PROVE  /\ ConditionInv'
         /\ on' = [on EXCEPT ![t] = c]
         /\ \A d \in Conditions : Told(d)' = Told(d) \ {t}
         /\ Untold(c)' = (Untold(c) \ {t}) \union {t}
         /\ \A d \in Conditions \ {c} : Untold(d)' = Untold(d) \ {t}
<1>1. /\ pc' = [pc EXCEPT ![t] = "asleep"] /\ on' = [on EXCEPT ![t] = c]
      /\ gotit' = [gotit EXCEPT ![t] = FALSE] /\ notified' = notified \ {t}
      /\ waiters' = [Waiters(t) EXCEPT ![c] = Append(Waiters(t)[c], t)]
  BY DEF Wait
<1>2. ConditionTypeOK
  BY DEF ConditionInv
<1>3. on'[t] = c /\ \A u \in Threads \ {t} : on'[u] = on[u]
  BY <1>1, <1>2 DEF ConditionTypeOK
<1>4. /\ \A d \in Conditions : Told(d)' = Told(d) \ {t}
      /\ Untold(c)' = (Untold(c) \ {t}) \union {t}
      /\ \A d \in Conditions \ {c} : Untold(d)' = Untold(d) \ {t}
  BY <1>1, <1>3 DEF Told, Untold
<1>5. PlaceInv'
  BY <1>1, <1>2, ConditionAssumption DEF ConditionInv, ConditionTypeOK, PlaceInv
<1>6. /\ Waiters(t) \in [Conditions -> Seq(Threads)]
      /\ \A d \in Conditions : /\ IsInjective(Waiters(t)[d])
                               /\ ToSet(Waiters(t)[d]) = Untold(d) \ {t}
  BY WaitersFacts
<1>7. /\ Append(Waiters(t)[c], t) \in Seq(Threads)
      /\ IsInjective(Append(Waiters(t)[c], t))
      /\ ToSet(Append(Waiters(t)[c], t)) = (Untold(c) \ {t}) \union {t}
  <2> DEFINE q == Waiters(t)[c]
  <2>1. q \in Seq(Threads) /\ IsInjective(q) /\ ToSet(q) = Untold(c) \ {t}
    BY <1>6
  <2> HIDE DEF q
  <2>2. \A i \in DOMAIN q : q[i] # t
    BY <2>1 DEF ToSet
  <2>3. /\ Append(q, t) \in Seq(Threads)
        /\ IsInjective(Append(q, t))
        /\ ToSet(Append(q, t)) = (Untold(c) \ {t}) \union {t}
    BY <2>1, <2>2, AppendFacts
  <2> QED
    BY <2>3 DEF q
<1>8. /\ waiters' \in [Conditions -> Seq(Threads)]
      /\ waiters'[c] = Append(Waiters(t)[c], t)
      /\ \A d \in Conditions \ {c} : waiters'[d] = Waiters(t)[d]
  BY <1>1, <1>6, <1>7
<1>9. ListInv'
  BY <1>4, <1>6, <1>7, <1>8 DEF ListInv
<1>10. ConditionTypeOK'
  BY <1>1, <1>2, <1>8 DEF ConditionTypeOK
<1> QED
  BY <1>1, <1>4, <1>5, <1>9, <1>10 DEF ConditionInv

(* A thread that leaves notifies the first of each list.                   *)
LEMMA LeaveFacts ==
  ASSUME ConditionInv, NEW t \in Threads, NEW n \in [Conditions -> Nat], pc[t] # "asleep",
         LeaveNotifying(t, n)
  PROVE  /\ ConditionInv'
         /\ on' = [on EXCEPT ![t] = NULL]
         /\ \A d \in Conditions :
              /\ Heads(Waiters(t)[d], n[d]) \subseteq Untold(d) \ {t}
              /\ Told(d)' = (Told(d) \ {t}) \union Heads(Waiters(t)[d], n[d])
              /\ Untold(d)' = (Untold(d) \ {t}) \ Heads(Waiters(t)[d], n[d])
<1> DEFINE H(d) == Heads(Waiters(t)[d], n[d])
<1>1. /\ pc' = [pc EXCEPT ![t] = "idle"] /\ on' = [on EXCEPT ![t] = NULL]
      /\ gotit' = [gotit EXCEPT ![t] = FALSE]
      /\ waiters' = [c \in Conditions |-> SubSeq(Waiters(t)[c], n[c] + 1, Len(Waiters(t)[c]))]
  BY DEF LeaveNotifying
<1>2. ConditionTypeOK
  BY DEF ConditionInv
<1>3. /\ Waiters(t) \in [Conditions -> Seq(Threads)]
      /\ \A d \in Conditions : /\ IsInjective(Waiters(t)[d])
                               /\ ToSet(Waiters(t)[d]) = Untold(d) \ {t}
  BY WaitersFacts
<1>4. \A d \in Conditions : H(d) \subseteq Untold(d) \ {t}
  BY <1>3, HeadsFacts
<1>5. notified' = (notified \ {t}) \union UNION {H(d) : d \in Conditions}
  BY DEF LeaveNotifying, Notified, Heads
<1>6. on'[t] = NULL /\ \A u \in Threads \ {t} : on'[u] = on[u]
  BY <1>1, <1>2 DEF ConditionTypeOK
<1>7. ASSUME NEW d \in Conditions
      PROVE  Told(d)' = (Told(d) \ {t}) \union H(d) /\ Untold(d)' = (Untold(d) \ {t}) \ H(d)
  <2> HIDE DEF H
  <2>1. \A u \in Threads : on[u] = d => (u \in UNION {H(e) : e \in Conditions} <=> u \in H(d))
    BY <1>4 DEF Untold
  <2>2. t \notin H(d) /\ H(d) \subseteq Untold(d)
    BY <1>4
  <2> QED
    BY <1>5, <1>6, <2>1, <2>2, ConditionAssumption DEF Told, Untold
<1>8. \A u \in UNION {H(d) : d \in Conditions} : u \in Threads \ {t} /\ on[u] \in Conditions
  BY <1>4 DEF Untold
<1>9. PlaceInv' /\ notified' \subseteq Threads
  <2> HIDE DEF H
  <2> DEFINE U == UNION {H(d) : d \in Conditions}
  <2>1. notified' = (notified \ {t}) \union U /\ \A u \in U : u \in Threads \ {t} /\ on[u] # NULL
    BY <1>5, <1>8, ConditionAssumption
  <2> HIDE DEF U
  <2> QED
    BY <1>1, <1>2, <2>1 DEF ConditionInv, ConditionTypeOK, PlaceInv
<1>10. ASSUME NEW d \in Conditions
       PROVE  waiters'[d] \in Seq(Threads) /\ IsInjective(waiters'[d]) /\ ToSet(waiters'[d]) = Untold(d)'
  <2>1. waiters'[d] = SubSeq(Waiters(t)[d], n[d] + 1, Len(Waiters(t)[d]))
    BY <1>1
  <2>2. Waiters(t)[d] \in Seq(Threads) /\ n[d] \in Nat
    BY <1>3
  <2> DEFINE q == Waiters(t)[d]
  <2>4. q \in Seq(Threads) /\ IsInjective(q)
    BY <1>3
  <2>5. /\ SubSeq(q, n[d] + 1, Len(q)) \in Seq(Threads) /\ IsInjective(SubSeq(q, n[d] + 1, Len(q)))
        /\ ToSet(SubSeq(q, n[d] + 1, Len(q))) = ToSet(q) \ Heads(q, n[d])
    <3> HIDE DEF q
    <3> QED
      BY <2>2, <2>4, BackFacts
  <2>3. /\ waiters'[d] \in Seq(Threads) /\ IsInjective(waiters'[d])
        /\ ToSet(waiters'[d]) = ToSet(Waiters(t)[d]) \ H(d)
    BY <2>1, <2>5
  <2> QED
    BY <1>3, <1>7, <2>3
<1>11. ListInv'
  BY <1>10 DEF ListInv
<1>12. waiters' \in [Conditions -> Seq(Threads)]
  BY <1>1, <1>10
<1>13. ConditionTypeOK'
  BY <1>1, <1>2, <1>9, <1>12 DEF ConditionTypeOK
<1> QED
  BY <1>1, <1>4, <1>7, <1>9, <1>11, <1>13 DEF ConditionInv

-----------------------------------------------------------------------------
(* The queue.                                                              *)

LEMMA NoneAtInit == Init => Inv
<1> SUFFICES ASSUME Init PROVE Inv
  OBVIOUS
<1>1. TypeOK
  <2>1. \A c \in Conditions : waiters[c] \in Seq(Threads)
    BY DEF Init, ConditionInit
  <2>2. waiters \in [Conditions -> Seq(Threads)]
    BY <2>1 DEF Init, ConditionInit
  <2>3. call \in [Threads -> Calls \union {NoCall}]
    BY DEF Init
  <2>4. ConditionTypeOK
    BY <2>2 DEF Init, ConditionInit, ConditionTypeOK
  <2>5. qsize = 0 /\ unfinished_tasks = 0 /\ got = {} /\ is_shutdown \in BOOLEAN
    BY Zenon DEF Init
  <2>6. 0 \in 0 .. maxsize
    BY QueueAssumption
  <2> QED
    BY <2>3, <2>4, <2>5, <2>6 DEF TypeOK
<1>2. \A c \in Conditions : Untold(c) = {} /\ Told(c) = {}
  BY ConditionAssumption DEF Init, ConditionInit, Untold, Told
<1>3. \A c \in Conditions : IsInjective(waiters[c]) /\ ToSet(waiters[c]) = {}
  BY DEF Init, ConditionInit, IsInjective, ToSet
<1>4. ConditionInv
  BY <1>1, <1>2, <1>3 DEF ConditionInv, TypeOK, PlaceInv, ListInv, Init, ConditionInit
<1>5. UnfinishedExact
  BY FS_EmptySet DEF Init, UnfinishedExact
<1>6. CallInv
  BY ConditionAssumption, QueueAssumption DEF Init, ConditionInit, CallInv
<1>7. DebtInv
  BY <1>2, QueueAssumption DEF DebtInv
<1> QED
  BY <1>1, <1>4, <1>5, <1>6, <1>7 DEF Inv

LEMMA Counts ==
  ASSUME NEW c
  PROVE  IsFiniteSet(Told(c)) /\ Cardinality(Told(c)) \in Nat
<1>1. Told(c) \in SUBSET Threads
  BY DEF Told
<1> QED
  BY <1>1, FS_Subset, FS_CardinalityType, ConditionAssumption

LEMMA CountsNext ==
  ASSUME Inv, NEW c, NEW t \in Threads
  PROVE  /\ Cardinality(Told(c) \ {t}) \in Nat
         /\ Cardinality(Told(c) \ {t}) >= Cardinality(Told(c)) - 1
         /\ \A v \in Untold(c) \ {t} :
              /\ Cardinality((Told(c) \ {t}) \union {v}) \in Nat
              /\ Cardinality((Told(c) \ {t}) \union {v}) >= Cardinality(Told(c))
              /\ t \notin Told(c) => Cardinality((Told(c) \ {t}) \union {v}) >= Cardinality(Told(c)) + 1
<1>1. IsFiniteSet(Told(c)) /\ Cardinality(Told(c)) \in Nat
  BY Counts
<1> DEFINE T == Told(c) \ {t}
<1>2. /\ IsFiniteSet(T)
      /\ Cardinality(T) = IF t \in Told(c) THEN Cardinality(Told(c)) - 1 ELSE Cardinality(Told(c))
  BY <1>1, FS_RemoveElement
<1>3. Cardinality(T) \in Nat
  BY <1>2, FS_CardinalityType
<1>4. ASSUME NEW v \in Untold(c) \ {t} PROVE Cardinality(T \union {v}) = Cardinality(T) + 1
  <2>1. v \notin T
    BY DEF Untold, Told
  <2> QED
    BY <1>2, <2>1, FS_AddElement
<1> HIDE DEF T
<1>5. \A v \in Untold(c) \ {t} : /\ Cardinality(T \union {v}) \in Nat
                                 /\ Cardinality(T \union {v}) >= Cardinality(Told(c))
                                 /\ t \notin Told(c) => Cardinality(T \union {v}) >= Cardinality(Told(c)) + 1
  BY <1>1, <1>2, <1>3, <1>4
<1>6. Cardinality(T) >= Cardinality(Told(c)) - 1
  BY <1>1, <1>2
<1> QED
  BY <1>3, <1>5, <1>6 DEF T

(* What holds of the count of unfinished tasks.                            *)
LEMMA GotFacts ==
  ASSUME Inv, NEW t \in Threads
  PROVE  /\ unfinished_tasks = qsize + Cardinality(got) /\ Cardinality(got) \in Nat
         /\ t \notin got => Cardinality(got \union {t}) = Cardinality(got) + 1
         /\ t \in got => Cardinality(got \ {t}) = Cardinality(got) - 1
<1>1. IsFiniteSet(got)
  BY FS_Subset, ConditionAssumption DEF Inv, TypeOK
<1> QED
  BY <1>1, FS_CardinalityType, FS_AddElement, FS_RemoveElement DEF Inv, UnfinishedExact

(* A call gives up: the queue has nothing for it.                          *)
LEMMA QuitStep ==
  ASSUME Inv, NEW t \in Threads, pc[t] # "asleep", Quit(t),
         on[t] = "not_empty" => qsize = 0,
         on[t] = "not_full" => is_shutdown \/ qsize >= maxsize
  PROVE  Inv'
<1> DEFINE n == [c \in Conditions |-> 0]
<1>1. n \in [Conditions -> Nat] /\ \A c \in Conditions : n[c] = 0
  OBVIOUS
<1>2. /\ LeaveNotifying(t, n) /\ call' = [call EXCEPT ![t] = NoCall] /\ got' = got
      /\ qsize' = qsize /\ unfinished_tasks' = unfinished_tasks /\ is_shutdown' = is_shutdown
  BY DEF Quit, Leave, queueVars
<1>3. ConditionInv /\ TypeOK
  BY DEF Inv
<1> HIDE DEF n
<1>4. Waiters(t) \in [Conditions -> Seq(Threads)]
  BY <1>3, WaitersFacts
<1>5. /\ ConditionInv' /\ on' = [on EXCEPT ![t] = NULL]
      /\ \A d \in Conditions : Told(d)' = Told(d) \ {t} /\ Untold(d)' = Untold(d) \ {t}
  BY <1>1, <1>2, <1>3, <1>4, LeaveFacts, HeadsFacts
<1>6. on'[t] = NULL /\ \A u \in Threads \ {t} : on'[u] = on[u]
  BY <1>3, <1>5 DEF TypeOK, ConditionTypeOK
<1>7. CallInv'
  BY <1>2, <1>3, <1>6, ConditionAssumption, QueueAssumption DEF Inv, TypeOK, CallInv
<1>8. \A d \in Conditions : on[t] # d => Told(d)' = Told(d)
  BY <1>5 DEF Told
<1>9. \A d \in Conditions : Cardinality(Told(d)) \in Nat /\ Cardinality(Told(d)') \in Nat
  BY <1>5, Counts, CountsNext
<1>10. DebtInv'
  BY <1>2, <1>3, <1>5, <1>8, <1>9, QueueAssumption DEF Inv, TypeOK, DebtInv
<1>11. TypeOK'
  BY <1>2, <1>3, <1>5 DEF TypeOK, ConditionInv
<1> QED
  BY <1>2, <1>5, <1>7, <1>10, <1>11 DEF Inv, UnfinishedExact

(* A call waits: the queue has nothing for it.                             *)
LEMMA WaitStep ==
  ASSUME Inv, NEW t \in Threads, pc[t] # "asleep", NEW c \in Calls, NEW d \in Conditions,
         WaitFor(t, c, d),
         on[t] # NULL => on[t] = d,
         d = "not_empty" => c.method = "get" /\ qsize = 0,
         d = "not_full" => c.method = "put" /\ qsize >= maxsize /\ ~ is_shutdown,
         d = "all_tasks_done" => c.method = "join" /\ unfinished_tasks # 0,
         t \in got => c.method = "put"
  PROVE  Inv'
<1>1. /\ Wait(t, d) /\ call' = [call EXCEPT ![t] = c] /\ got' = got
      /\ qsize' = qsize /\ unfinished_tasks' = unfinished_tasks /\ is_shutdown' = is_shutdown
  BY DEF WaitFor, queueVars
<1>2. ConditionInv /\ TypeOK
  BY DEF Inv
<1>3. /\ ConditionInv' /\ on' = [on EXCEPT ![t] = d]
      /\ \A e \in Conditions : Told(e)' = Told(e) \ {t}
      /\ \A e \in Conditions \ {d} : Untold(e)' = Untold(e) \ {t}
  BY <1>1, <1>2, WaitFacts
<1>4. on'[t] = d /\ \A u \in Threads \ {t} : on'[u] = on[u]
  BY <1>2, <1>3 DEF TypeOK, ConditionTypeOK
<1>5. call'[t] = c /\ \A u \in Threads \ {t} : call'[u] = call[u]
  BY <1>1, <1>2 DEF TypeOK
<1>6. CallInv'
  <2>1. d # NULL /\ d \in {"not_empty", "not_full", "all_tasks_done"}
    BY ConditionAssumption, QueueAssumption
  <2> QED
    BY <1>1, <1>2, <1>4, <1>5, <2>1 DEF Inv, TypeOK, CallInv
<1>7. \A e \in Conditions \ {d} : Told(e)' = Told(e) /\ Untold(e)' = Untold(e)
  <2>1. \A e \in Conditions \ {d} : on[t] # e
    BY ConditionAssumption
  <2> QED
    BY <1>3, <2>1 DEF Told, Untold
<1>8. \A e \in Conditions : Cardinality(Told(e)') \in Nat
  BY <1>3, CountsNext
<1>9. DebtInv'
  BY <1>1, <1>2, <1>7, <1>8, QueueAssumption DEF Inv, TypeOK, DebtInv
<1>10. TypeOK'
  BY <1>1, <1>2, <1>3 DEF TypeOK, ConditionInv
<1> QED
  BY <1>1, <1>3, <1>6, <1>9, <1>10 DEF Inv, UnfinishedExact

(* One condition gets one notification.                                    *)
LEMMA OneFacts ==
  ASSUME Inv, NEW t \in Threads, pc[t] # "asleep", NEW c \in Conditions, LeaveNotifying(t, One(c))
  PROVE  /\ ConditionInv' /\ on' = [on EXCEPT ![t] = NULL]
         /\ \A d \in Conditions \ {c} : Told(d)' = Told(d) \ {t} /\ Untold(d)' = Untold(d) \ {t}
         /\ Untold(c)' # {} => \E v \in Untold(c) \ {t} : Told(c)' = (Told(c) \ {t}) \union {v}
         /\ Untold(c)' \subseteq Untold(c)
         /\ Cardinality(Told(c)') \in Nat
<1>1. One(c) \in [Conditions -> Nat] /\ One(c)[c] = 1 /\ \A d \in Conditions \ {c} : One(c)[d] = 0
  BY DEF One
<1>2. ConditionInv
  BY DEF Inv
<1>3. /\ Waiters(t) \in [Conditions -> Seq(Threads)]
      /\ \A d \in Conditions : ToSet(Waiters(t)[d]) = Untold(d) \ {t}
  BY <1>2, WaitersFacts
<1>4. /\ ConditionInv' /\ on' = [on EXCEPT ![t] = NULL]
      /\ \A d \in Conditions :
           /\ Told(d)' = (Told(d) \ {t}) \union Heads(Waiters(t)[d], One(c)[d])
           /\ Untold(d)' = (Untold(d) \ {t}) \ Heads(Waiters(t)[d], One(c)[d])
  BY <1>1, <1>2, LeaveFacts
<1>5. \A d \in Conditions \ {c} : Heads(Waiters(t)[d], One(c)[d]) = {}
  BY <1>1, <1>3, HeadsFacts
<1>6. ASSUME Untold(c)' # {} PROVE \E v \in Untold(c) \ {t} : Told(c)' = (Told(c) \ {t}) \union {v}
  <2>1. Untold(c) \ {t} # {}
    BY <1>4, <1>6
  <2>2. \E v \in Untold(c) \ {t} : Heads(Waiters(t)[c], 1) = {v}
    BY <1>3, <2>1, HeadsFacts
  <2> QED
    BY <1>1, <1>4, <2>2
<1>7. Told(c)' \in SUBSET Threads
  BY DEF Told
<1>8. Cardinality(Told(c)') \in Nat
  BY <1>7, FS_Subset, FS_CardinalityType, ConditionAssumption
<1> QED
  BY <1>4, <1>5, <1>6, <1>8

(* put() has room.                                                         *)
LEMMA PutStep ==
  ASSUME Inv, NEW t \in Threads, pc[t] # "asleep", qsize < maxsize, ~ is_shutdown,
         on[t] \in {NULL, "not_full"},
         qsize' = qsize + 1, unfinished_tasks' = unfinished_tasks + 1, LeaveNotifying(t, One("not_empty")),
         call' = [call EXCEPT ![t] = NoCall], is_shutdown' = is_shutdown, got' = got
  PROVE  Inv'
<1>1. ConditionInv /\ TypeOK /\ Conditions = {"not_empty", "not_full", "all_tasks_done"}
  BY QueueAssumption DEF Inv
<1>2. /\ ConditionInv' /\ on' = [on EXCEPT ![t] = NULL]
      /\ \A d \in Conditions \ {"not_empty"} : Told(d)' = Told(d) \ {t} /\ Untold(d)' = Untold(d) \ {t}
      /\ Untold("not_empty")' # {} =>
           \E v \in Untold("not_empty") \ {t} : Told("not_empty")' = (Told("not_empty") \ {t}) \union {v}
      /\ Untold("not_empty")' \subseteq Untold("not_empty")
      /\ Cardinality(Told("not_empty")') \in Nat
  BY <1>1, OneFacts
<1>3. on'[t] = NULL /\ \A u \in Threads \ {t} : on'[u] = on[u]
  BY <1>1, <1>2 DEF TypeOK, ConditionTypeOK
<1>4. CallInv'
  BY <1>1, <1>3, ConditionAssumption DEF Inv, TypeOK, CallInv
<1>5. Untold("not_empty")' # {} => qsize' <= Cardinality(Told("not_empty")')
  <2> SUFFICES ASSUME Untold("not_empty")' # {} PROVE qsize' <= Cardinality(Told("not_empty")')
    OBVIOUS
  <2>1. PICK v \in Untold("not_empty") \ {t} : Told("not_empty")' = (Told("not_empty") \ {t}) \union {v}
    BY <1>2
  <2>2. t \notin Told("not_empty")
    BY <1>1, ConditionAssumption DEF Told
  <2>3. Cardinality(Told("not_empty")') >= Cardinality(Told("not_empty")) + 1
    BY <2>1, <2>2, CountsNext
  <2>4. qsize <= Cardinality(Told("not_empty")) /\ Cardinality(Told("not_empty")) \in Nat
    BY <2>1, Counts DEF Inv, DebtInv
  <2> QED
    BY <1>1, <1>2, <2>3, <2>4 DEF TypeOK
<1>6. Untold("not_full")' # {} => maxsize - qsize' <= Cardinality(Told("not_full")') /\ ~ is_shutdown'
  <2> SUFFICES ASSUME Untold("not_full")' # {} PROVE maxsize - qsize' <= Cardinality(Told("not_full")')
    OBVIOUS
  <2>1. maxsize - qsize <= Cardinality(Told("not_full"))
    BY <1>1, <1>2 DEF Inv, DebtInv
  <2>2. /\ Cardinality(Told("not_full")') \in Nat
        /\ Cardinality(Told("not_full")') >= Cardinality(Told("not_full")) - 1
    BY <1>1, <1>2, CountsNext
  <2> QED
    BY <1>1, <2>1, <2>2, Counts, QueueAssumption DEF TypeOK
<1>7. DebtInv'
  BY <1>1, <1>5, <1>6 DEF TypeOK, DebtInv
<1>8. UnfinishedExact'
  <2>1. unfinished_tasks = qsize + Cardinality(got) /\ Cardinality(got) \in Nat
    BY GotFacts
  <2>2. Cardinality(got') = Cardinality(got)
    OBVIOUS
  <2> QED
    BY <1>1, <2>1, <2>2 DEF UnfinishedExact, TypeOK
<1>9. TypeOK'
  BY <1>1, <1>2, QueueAssumption DEF TypeOK, ConditionInv
<1> QED
  BY <1>2, <1>4, <1>7, <1>8, <1>9 DEF Inv

(* get() has an item.                                                      *)
LEMMA TakeStep ==
  ASSUME Inv, NEW t \in Threads, pc[t] # "asleep", qsize > 0, on[t] \in {NULL, "not_empty"}, t \notin got,
         TakeItem(t)
  PROVE  Inv'
<1>1. ConditionInv /\ TypeOK /\ Conditions = {"not_empty", "not_full", "all_tasks_done"}
  BY QueueAssumption DEF Inv
<1>2. /\ qsize' = qsize - 1 /\ got' = got \union {t} /\ LeaveNotifying(t, One("not_full"))
      /\ call' = [call EXCEPT ![t] = NoCall]
      /\ unfinished_tasks' = unfinished_tasks /\ is_shutdown' = is_shutdown
  BY DEF TakeItem
<1>3. /\ ConditionInv' /\ on' = [on EXCEPT ![t] = NULL]
      /\ \A d \in Conditions \ {"not_full"} : Told(d)' = Told(d) \ {t} /\ Untold(d)' = Untold(d) \ {t}
      /\ Untold("not_full")' # {} =>
           \E v \in Untold("not_full") \ {t} : Told("not_full")' = (Told("not_full") \ {t}) \union {v}
      /\ Untold("not_full")' \subseteq Untold("not_full")
      /\ Cardinality(Told("not_full")') \in Nat
  BY <1>1, <1>2, OneFacts
<1>4. on'[t] = NULL /\ \A u \in Threads \ {t} : on'[u] = on[u]
  BY <1>1, <1>3 DEF TypeOK, ConditionTypeOK
<1>5. CallInv'
  BY <1>1, <1>2, <1>4, ConditionAssumption DEF Inv, TypeOK, CallInv
<1>6. Untold("not_full")' # {} => maxsize - qsize' <= Cardinality(Told("not_full")') /\ ~ is_shutdown'
  <2> SUFFICES ASSUME Untold("not_full")' # {}
               PROVE  maxsize - qsize' <= Cardinality(Told("not_full")') /\ ~ is_shutdown'
    OBVIOUS
  <2>1. PICK v \in Untold("not_full") \ {t} : Told("not_full")' = (Told("not_full") \ {t}) \union {v}
    BY <1>3
  <2>2. t \notin Told("not_full")
    BY <1>1, ConditionAssumption DEF Told
  <2>3. Cardinality(Told("not_full")') >= Cardinality(Told("not_full")) + 1
    BY <2>1, <2>2, CountsNext
  <2>4. /\ maxsize - qsize <= Cardinality(Told("not_full")) /\ ~ is_shutdown
        /\ Cardinality(Told("not_full")) \in Nat
    BY <2>1, Counts DEF Inv, DebtInv
  <2> QED
    BY <1>1, <1>2, <1>3, <2>3, <2>4, QueueAssumption DEF TypeOK
<1>7. Untold("not_empty")' # {} => qsize' <= Cardinality(Told("not_empty")')
  <2> SUFFICES ASSUME Untold("not_empty")' # {} PROVE qsize' <= Cardinality(Told("not_empty")')
    OBVIOUS
  <2>1. qsize <= Cardinality(Told("not_empty"))
    BY <1>1, <1>3 DEF Inv, DebtInv
  <2>2. /\ Cardinality(Told("not_empty")') \in Nat
        /\ Cardinality(Told("not_empty")') >= Cardinality(Told("not_empty")) - 1
    BY <1>1, <1>3, CountsNext
  <2> QED
    BY <1>1, <1>2, <2>1, <2>2, Counts DEF TypeOK
<1>8. DebtInv'
  BY <1>1, <1>2, <1>3, <1>6, <1>7 DEF Inv, TypeOK, DebtInv
<1>9. UnfinishedExact'
  BY <1>1, <1>2, GotFacts DEF UnfinishedExact, TypeOK
<1>10. TypeOK'
  BY <1>1, <1>2, <1>3, QueueAssumption DEF TypeOK, ConditionInv
<1> QED
  BY <1>3, <1>5, <1>8, <1>9, <1>10 DEF Inv

(* All waiters of the conditions C are notified.                           *)
LEMMA AllFacts ==
  ASSUME Inv, NEW t \in Threads, pc[t] = "idle", NEW C \in SUBSET Conditions, LeaveNotifying(t, All(t, C))
  PROVE  /\ ConditionInv' /\ on' = on
         /\ \A d \in Conditions \ C : Told(d)' = Told(d) /\ Untold(d)' = Untold(d)
         /\ \A d \in C : Untold(d)' = {}
<1>1. ConditionInv
  BY DEF Inv
<1>2. /\ Waiters(t) \in [Conditions -> Seq(Threads)]
      /\ \A d \in Conditions : ToSet(Waiters(t)[d]) = Untold(d) \ {t}
  BY <1>1, WaitersFacts
<1>3. /\ All(t, C) \in [Conditions -> Nat]
      /\ \A d \in C : All(t, C)[d] = Len(Waiters(t)[d])
      /\ \A d \in Conditions \ C : All(t, C)[d] = 0
  BY <1>2 DEF All
<1>4. /\ ConditionInv' /\ on' = [on EXCEPT ![t] = NULL]
      /\ \A d \in Conditions :
           /\ Told(d)' = (Told(d) \ {t}) \union Heads(Waiters(t)[d], All(t, C)[d])
           /\ Untold(d)' = (Untold(d) \ {t}) \ Heads(Waiters(t)[d], All(t, C)[d])
  BY <1>1, <1>3, LeaveFacts
<1>5. on[t] = NULL
  BY <1>1 DEF ConditionInv, PlaceInv
<1>6. on' = on
  BY <1>1, <1>4, <1>5 DEF ConditionInv, ConditionTypeOK
<1>7. \A d \in Conditions : t \notin Told(d) /\ t \notin Untold(d)
  BY <1>5, ConditionAssumption DEF Told, Untold
<1>8. \A d \in C : Heads(Waiters(t)[d], All(t, C)[d]) = Untold(d) \ {t}
  BY <1>2, <1>3, HeadsFacts
<1>9. \A d \in Conditions \ C : Heads(Waiters(t)[d], All(t, C)[d]) = {}
  BY <1>2, <1>3, HeadsFacts
<1>10. ASSUME NEW d \in Conditions \ C PROVE Told(d)' = Told(d) /\ Untold(d)' = Untold(d)
  <2>1. Told(d)' = (Told(d) \ {t}) \union {} /\ Untold(d)' = (Untold(d) \ {t}) \ {}
    BY <1>4, <1>9
  <2> QED
    BY <1>7, <2>1
<1>11. \A d \in C : Untold(d)' = {}
  BY <1>4, <1>8
<1> QED
  BY <1>4, <1>6, <1>10, <1>11

LEMMA TaskDoneStep ==
  ASSUME Inv, NEW t \in Threads, TaskDone(t)
  PROVE  Inv'
<1> DEFINE C == IF unfinished_tasks = 1 THEN {"all_tasks_done"} ELSE {}
<1>1. TypeOK /\ Conditions = {"not_empty", "not_full", "all_tasks_done"} /\ C \in SUBSET Conditions
  BY QueueAssumption DEF Inv
<1>2. /\ pc[t] = "idle" /\ t \in got /\ unfinished_tasks > 0
      /\ got' = got \ {t} /\ unfinished_tasks' = unfinished_tasks - 1 /\ LeaveNotifying(t, All(t, C))
      /\ qsize' = qsize /\ is_shutdown' = is_shutdown /\ call' = call
  BY DEF TaskDone
<1>3. /\ ConditionInv' /\ on' = on
      /\ \A d \in Conditions \ C : Told(d)' = Told(d) /\ Untold(d)' = Untold(d)
      /\ \A d \in C : Untold(d)' = {}
  BY <1>1, <1>2, AllFacts
<1>4. CallInv'
  BY <1>2, <1>3 DEF Inv, CallInv
<1>5. DebtInv'
  BY <1>1, <1>2, <1>3 DEF Inv, TypeOK, DebtInv
<1>6. UnfinishedExact'
  <2>1. unfinished_tasks = qsize + Cardinality(got) /\ Cardinality(got) \in Nat
    BY GotFacts
  <2>2. Cardinality(got') = Cardinality(got) - 1
    BY <1>2, GotFacts
  <2> QED
    BY <1>1, <1>2, <2>1, <2>2 DEF UnfinishedExact, TypeOK
<1>7. TypeOK'
  BY <1>1, <1>2, <1>3 DEF TypeOK, ConditionInv
<1> QED
  BY <1>3, <1>4, <1>5, <1>6, <1>7 DEF Inv

LEMMA ShutdownStep ==
  ASSUME Inv, NEW t \in Threads, NEW immediate \in BOOLEAN, Shutdown(t, immediate)
  PROVE  Inv'
<1> DEFINE C == IF immediate THEN Conditions ELSE {"not_empty", "not_full"}
<1>1. TypeOK /\ Conditions = {"not_empty", "not_full", "all_tasks_done"} /\ C \in SUBSET Conditions
  BY QueueAssumption DEF Inv
<1>2. /\ pc[t] = "idle" /\ LeaveNotifying(t, All(t, C)) /\ call' = call /\ got' = got /\ is_shutdown' = TRUE
      /\ immediate => /\ qsize' = 0
                      /\ unfinished_tasks' = IF unfinished_tasks > qsize THEN unfinished_tasks - qsize ELSE 0
      /\ ~ immediate => qsize' = qsize /\ unfinished_tasks' = unfinished_tasks
  BY DEF Shutdown, queueVars
<1>3. /\ ConditionInv' /\ on' = on
      /\ \A d \in Conditions \ C : Told(d)' = Told(d) /\ Untold(d)' = Untold(d)
      /\ \A d \in C : Untold(d)' = {}
  BY <1>1, <1>2, AllFacts
<1>4. CallInv'
  BY <1>2, <1>3 DEF Inv, CallInv
<1>5. DebtInv'
  <2>1. Untold("not_empty")' = {} /\ Untold("not_full")' = {}
    BY <1>1, <1>3
  <2>2. Untold("all_tasks_done")' # {} => ~ immediate /\ Untold("all_tasks_done") # {}
    BY <1>1, <1>3
  <2> QED
    BY <1>2, <2>1, <2>2 DEF Inv, DebtInv
<1>6. UnfinishedExact'
  <2>1. unfinished_tasks = qsize + Cardinality(got) /\ Cardinality(got) \in Nat
    BY GotFacts
  <2>2. Cardinality(got') = Cardinality(got)
    BY <1>2
  <2> QED
    BY <1>1, <1>2, <2>1, <2>2 DEF UnfinishedExact, TypeOK
<1>7. qsize' \in 0 .. maxsize /\ unfinished_tasks' \in Nat
  BY <1>1, <1>2, QueueAssumption DEF TypeOK
<1>8. TypeOK'
  BY <1>1, <1>2, <1>3, <1>7 DEF TypeOK, ConditionInv
<1> QED
  BY <1>3, <1>4, <1>5, <1>6, <1>8 DEF Inv

(* A thread comes out of its sleep, notified or not.                       *)
LEMMA WakeStep ==
  ASSUME Inv, NEW t \in Threads, WakeUp(t) \/ TimeOut(t), UNCHANGED <<queueVars, call, got>>
  PROVE  Inv'
<1>1. /\ pc[t] = "asleep" /\ pc' = [pc EXCEPT ![t] = "awake"] /\ on' = on
      /\ waiters' = waiters /\ notified' = notified /\ call' = call /\ got' = got
      /\ qsize' = qsize /\ unfinished_tasks' = unfinished_tasks /\ is_shutdown' = is_shutdown
      /\ gotit' = gotit \/ (t \in notified /\ gotit' = [gotit EXCEPT ![t] = TRUE])
  BY DEF WakeUp, TimeOut, queueVars
<1>2. \A d \in Conditions : Told(d)' = Told(d) /\ Untold(d)' = Untold(d)
  BY <1>1 DEF Told, Untold
<1>3. ConditionTypeOK'
  BY <1>1 DEF Inv, ConditionInv, ConditionTypeOK
<1>4. PlaceInv'
  <2>1. ConditionTypeOK /\ PlaceInv
    BY DEF Inv, ConditionInv
  <2>2. pc'[t] = "awake" /\ \A u \in Threads \ {t} : pc'[u] = pc[u] /\ gotit'[u] = gotit[u]
    BY <1>1, <2>1 DEF ConditionTypeOK
  <2>3. gotit'[t] => t \in notified \/ gotit[t]
    BY <1>1
  <2> QED
    BY <1>1, <2>1, <2>2, <2>3 DEF PlaceInv
<1>5. ListInv'
  BY <1>1, <1>2 DEF Inv, ConditionInv, ListInv
<1>6. CallInv' /\ DebtInv' /\ UnfinishedExact'
  BY <1>1, <1>2, QueueAssumption DEF Inv, CallInv, DebtInv, UnfinishedExact
<1>7. TypeOK'
  BY <1>1, <1>3 DEF Inv, TypeOK
<1> QED
  BY <1>3, <1>4, <1>5, <1>6, <1>7 DEF Inv, ConditionInv

LEMMA PutCall ==
  ASSUME Inv, NEW t \in Threads, NEW c \in Calls, c.method = "put", Begins(t, c) \/ Resumes(t, c), Put(t, c)
  PROVE  Inv'
<1>1. TypeOK /\ ConditionInv /\ CallInv /\ Conditions = {"not_empty", "not_full", "all_tasks_done"}
  BY QueueAssumption DEF Inv
<1>2. pc[t] # "asleep"
  BY DEF Begins, Resumes
<1>3. on[t] \in {NULL, "not_full"}
  BY <1>1 DEF Begins, Resumes, ConditionInv, ConditionTypeOK, PlaceInv, CallInv
<1>4. NULL \notin Conditions
  BY ConditionAssumption
<1>5. CASE Quit(t) /\ (is_shutdown \/ qsize >= maxsize)
  BY <1>1, <1>2, <1>3, <1>4, <1>5, QuitStep
<1>6. CASE ~ is_shutdown /\ qsize >= maxsize /\ WaitFor(t, c, "not_full")
  BY <1>1, <1>2, <1>3, <1>4, <1>6, WaitStep
<1>7. CASE /\ ~ is_shutdown /\ qsize < maxsize
           /\ qsize' = qsize + 1
           /\ unfinished_tasks' = unfinished_tasks + 1
           /\ LeaveNotifying(t, One("not_empty"))
           /\ call' = [call EXCEPT ![t] = NoCall]
           /\ UNCHANGED <<is_shutdown, got>>
  BY <1>2, <1>3, <1>7, PutStep
<1> QED
  BY <1>5, <1>6, <1>7 DEF Put

LEMMA GetCall ==
  ASSUME Inv, NEW t \in Threads, NEW c \in Calls, c.method = "get", Begins(t, c) \/ Resumes(t, c), Get(t, c)
  PROVE  Inv'
<1>1. TypeOK /\ ConditionInv /\ CallInv /\ Conditions = {"not_empty", "not_full", "all_tasks_done"}
  BY QueueAssumption DEF Inv
<1>2. pc[t] # "asleep"
  BY DEF Begins, Resumes
<1>3. on[t] \in {NULL, "not_empty"}
  BY <1>1 DEF Begins, Resumes, ConditionInv, ConditionTypeOK, PlaceInv, CallInv
<1>4. NULL \notin Conditions
  BY ConditionAssumption
<1>5. t \notin got
  <2>1. CASE Begins(t, c)
    BY <2>1 DEF Begins
  <2>2. CASE Resumes(t, c)
    <3>1. on[t] = "not_empty"
      BY <1>1, <1>3, <2>2 DEF Resumes, ConditionInv, PlaceInv
    <3> QED
      BY <1>1, <1>4, <3>1 DEF CallInv
  <2> QED
    BY <2>1, <2>2
<1>6. CASE qsize = 0 /\ Quit(t)
  BY <1>1, <1>2, <1>3, <1>4, <1>6, QuitStep
<1>7. CASE qsize = 0 /\ WaitFor(t, c, "not_empty")
  BY <1>1, <1>2, <1>3, <1>4, <1>5, <1>7, WaitStep
<1>8. CASE qsize > 0 /\ TakeItem(t)
  BY <1>2, <1>3, <1>5, <1>8, TakeStep
<1> QED
  BY <1>6, <1>7, <1>8 DEF Get

LEMMA JoinCall ==
  ASSUME Inv, NEW t \in Threads, NEW c \in Calls, c.method = "join", Begins(t, c) \/ Resumes(t, c), Join(t, c)
  PROVE  Inv'
<1>1. TypeOK /\ ConditionInv /\ CallInv /\ Conditions = {"not_empty", "not_full", "all_tasks_done"}
  BY QueueAssumption DEF Inv
<1>2. pc[t] # "asleep"
  BY DEF Begins, Resumes
<1>3. on[t] \in {NULL, "all_tasks_done"}
  BY <1>1 DEF Begins, Resumes, ConditionInv, ConditionTypeOK, PlaceInv, CallInv
<1>4. NULL \notin Conditions
  BY ConditionAssumption
<1>5. t \notin got
  <2>1. CASE Begins(t, c)
    BY <2>1 DEF Begins
  <2>2. CASE Resumes(t, c)
    <3>1. on[t] = "all_tasks_done"
      BY <1>1, <1>3, <2>2 DEF Resumes, ConditionInv, PlaceInv
    <3> QED
      BY <1>1, <1>4, <3>1 DEF CallInv
  <2> QED
    BY <2>1, <2>2
<1>6. CASE Quit(t)
  BY <1>1, <1>2, <1>3, <1>4, <1>6, QuitStep
<1>7. CASE unfinished_tasks # 0 /\ WaitFor(t, c, "all_tasks_done")
  BY <1>1, <1>2, <1>3, <1>4, <1>5, <1>7, WaitStep
<1> QED
  BY <1>6, <1>7 DEF Join

-----------------------------------------------------------------------------
(* The theorems.                                                           *)

(* The inductive invariant of the queue holds in every reachable state,    *)
(* for every finite set of threads and every size.                         *)
THEOREM Invariance == Spec => []Inv
<1>1. Init => Inv
  BY NoneAtInit
<1>2. Inv /\ [Next]_vars => Inv'
  <2> SUFFICES ASSUME Inv, [Next]_vars PROVE Inv'
    OBVIOUS
  <2>1. CASE UNCHANGED vars
    <3>1. /\ pc' = pc /\ on' = on /\ gotit' = gotit /\ waiters' = waiters /\ notified' = notified
          /\ qsize' = qsize /\ unfinished_tasks' = unfinished_tasks /\ is_shutdown' = is_shutdown
          /\ call' = call /\ got' = got
      BY <2>1 DEF vars, conditionVars, queueVars
    <3>2. \A d \in Conditions : Told(d)' = Told(d) /\ Untold(d)' = Untold(d)
      BY <3>1 DEF Told, Untold
    <3>3. ConditionInv' /\ TypeOK'
      BY <3>1, <3>2 DEF Inv, ConditionInv, ConditionTypeOK, PlaceInv, ListInv, TypeOK
    <3> QED
      BY <3>1, <3>2, <3>3, QueueAssumption DEF Inv, CallInv, DebtInv, UnfinishedExact
  <2>2. ASSUME NEW t \in Threads, NEW c \in Calls, Begins(t, c) \/ Resumes(t, c), Run(t, c) PROVE Inv'
    BY <2>2, PutCall, GetCall, JoinCall DEF Run
  <2>3. ASSUME NEW t \in Threads, WakeUp(t) \/ TimeOut(t), UNCHANGED <<queueVars, call, got>> PROVE Inv'
    BY <2>3, WakeStep
  <2>4. ASSUME NEW t \in Threads, TaskDone(t) PROVE Inv'
    BY <2>4, TaskDoneStep
  <2>5. ASSUME NEW t \in Threads, NEW immediate \in BOOLEAN, Shutdown(t, immediate) PROVE Inv'
    BY <2>5, ShutdownStep
  <2> QED
    BY <2>1, <2>2, <2>3, <2>4, <2>5 DEF Next
<1> QED
  BY <1>1, <1>2, PTL DEF Spec

(* unfinished_tasks of Queue counts what is in the queue and what its      *)
(* consumers work on, in every reachable state.                            *)
THEOREM UnfinishedExactHolds == Spec => []UnfinishedExact
<1>1. Inv => UnfinishedExact
  BY DEF Inv
<1> QED
  BY <1>1, Invariance, PTL

(* No notification of put, get, task_done or shutdown is lost: who sleeps  *)
(* in a wait has others awake for every item, place or the last task.      *)
THEOREM NobodyForgottenHolds == Spec => []NobodyForgotten
<1>1. Inv => NobodyForgotten
  <2> SUFFICES ASSUME Inv PROVE NobodyForgotten
    OBVIOUS
  <2>1. ASSUME NEW c PROVE Sleepers(c) \subseteq Untold(c) /\ Told(c) \subseteq Awake(c)
    BY DEF Sleepers, Awake, Told, Untold
  <2>2. ASSUME NEW c
        PROVE  /\ Cardinality(Told(c)) <= Cardinality(Awake(c))
               /\ Cardinality(Told(c)) \in Nat /\ Cardinality(Awake(c)) \in Nat
    <3>1. Awake(c) \in SUBSET Threads
      BY DEF Awake
    <3>2. IsFiniteSet(Awake(c)) /\ Cardinality(Awake(c)) \in Nat
      BY <3>1, FS_Subset, FS_CardinalityType, ConditionAssumption
    <3>3. Cardinality(Told(c)) <= Cardinality(Awake(c))
      BY <2>1, <3>2, FS_Subset
    <3> QED
      BY <3>2, <3>3, Counts
  <2>3. TypeOK /\ DebtInv
    BY DEF Inv
  <2>4. Sleepers("not_empty") # {} => qsize <= Cardinality(Awake("not_empty"))
    BY <2>1, <2>2, <2>3 DEF DebtInv, TypeOK
  <2>5. Sleepers("not_full") # {} => maxsize - qsize <= Cardinality(Awake("not_full"))
    BY <2>1, <2>2, <2>3, QueueAssumption DEF DebtInv, TypeOK
  <2>6. Sleepers("all_tasks_done") # {} => unfinished_tasks > 0
    BY <2>1, <2>3 DEF DebtInv
  <2> QED
    BY <2>4, <2>5, <2>6 DEF NobodyForgotten
<1> QED
  BY <1>1, Invariance, PTL

-----------------------------------------------------------------------------
(* The refinement of BufferSpec.                                           *)

LEMMA IdleStep ==
  ASSUME Inv, IdleInv, [Next]_vars
  PROVE  IdleInv'
<1>1. TypeOK /\ ConditionTypeOK
  BY DEF Inv, TypeOK
<1>2. ASSUME NEW t \in Threads, NEW c \in Calls,
             \/ pc' = [pc EXCEPT ![t] = "idle"] /\ call' = [call EXCEPT ![t] = NoCall]
             \/ pc' = [pc EXCEPT ![t] = "asleep"] /\ call' = [call EXCEPT ![t] = c]
      PROVE  IdleInv'
  <2>1. c # NoCall
    BY DEF Calls, NoCall
  <2>2. \A u \in Threads \ {t} : pc'[u] = pc[u] /\ call'[u] = call[u]
    BY <1>1, <1>2 DEF TypeOK, ConditionTypeOK
  <2>3. \/ pc'[t] = "idle" /\ call'[t] = NoCall
        \/ pc'[t] = "asleep" /\ call'[t] = c
    BY <1>1, <1>2 DEF TypeOK, ConditionTypeOK
  <2> QED
    BY <2>1, <2>2, <2>3 DEF IdleInv
<1>3. ASSUME NEW t \in Threads, NEW c \in Calls, Run(t, c) PROVE IdleInv'
  <2>1. \/ pc' = [pc EXCEPT ![t] = "idle"] /\ call' = [call EXCEPT ![t] = NoCall]
        \/ pc' = [pc EXCEPT ![t] = "asleep"] /\ call' = [call EXCEPT ![t] = c]
    BY <1>3 DEF Run, Put, Get, Join, TakeItem, Quit, Leave, LeaveNotifying, WaitFor, Wait
  <2> QED
    BY <1>2, <2>1
<1>4. ASSUME NEW t \in Threads, WakeUp(t) \/ TimeOut(t), call' = call PROVE IdleInv'
  <2>1. pc[t] = "asleep" /\ pc' = [pc EXCEPT ![t] = "awake"]
    BY <1>4 DEF WakeUp, TimeOut
  <2> QED
    BY <1>1, <1>4, <2>1 DEF IdleInv, ConditionTypeOK
<1>5. ASSUME NEW t \in Threads, TaskDone(t) \/ \E immediate \in BOOLEAN : Shutdown(t, immediate)
      PROVE  IdleInv'
  <2>1. pc[t] = "idle" /\ pc' = [pc EXCEPT ![t] = "idle"] /\ call' = call
    BY <1>5 DEF TaskDone, Shutdown, LeaveNotifying
  <2> QED
    BY <1>1, <2>1 DEF IdleInv, ConditionTypeOK
<1>6. CASE UNCHANGED vars
  BY <1>6 DEF vars, conditionVars, IdleInv
<1> QED
  BY <1>3, <1>4, <1>5, <1>6 DEF Next

(* A stretch of a call is an answer, or the beginning of a wait.           *)
LEMMA CallingFacts ==
  ASSUME Inv, IdleInv, NEW t \in Threads, NEW c \in Calls, Begins(t, c) \/ Resumes(t, c)
  PROVE  /\ Buffer!Calling(t, c)
         /\ c.method # "put" => t \notin got
<1>1. CASE Begins(t, c)
  BY <1>1 DEF Begins, IdleInv, Buffer!Calling
<1>2. CASE Resumes(t, c)
  <2>1. Buffer!Calling(t, c)
    BY <1>2 DEF Resumes, Buffer!Calling
  <2>2. on[t] \in {"not_empty", "not_full", "all_tasks_done"}
    BY <1>2, QueueAssumption DEF Resumes, Inv, ConditionInv, ConditionTypeOK, PlaceInv
  <2>3. t \in got => on[t] = "not_full"
    BY <2>2, ConditionAssumption, QueueAssumption DEF Inv, CallInv
  <2>4. on[t] = "not_full" => c.method = "put"
    BY <1>2 DEF Resumes, Inv, CallInv
  <2> QED
    BY <2>1, <2>3, <2>4
<1> QED
  BY <1>1, <1>2

(* What the counts say is what there is: nobody joins who has to wait, and *)
(* nobody waits to join who need not.                                      *)
LEMMA ReadyFacts ==
  ASSUME Inv, NEW c \in Calls
  PROVE  /\ c.method = "put" => (Buffer!Ready(c) <=> qsize < maxsize)
         /\ c.method = "get" => (Buffer!Ready(c) <=> qsize > 0)
         /\ c.method = "join" => (Buffer!Ready(c) <=> unfinished_tasks = 0)
<1>1. IsFiniteSet(got)
  BY FS_Subset, ConditionAssumption DEF Inv, TypeOK
<1>2. Cardinality(got) \in Nat /\ (Cardinality(got) = 0 <=> got = {})
  BY <1>1, FS_CardinalityType, FS_EmptySet
<1>3. qsize \in Nat /\ unfinished_tasks = qsize + Cardinality(got)
  BY QueueAssumption DEF Inv, TypeOK, UnfinishedExact
<1>4. unfinished_tasks = 0 <=> qsize = 0 /\ got = {}
  BY <1>2, <1>3
<1> QED
  BY <1>4 DEF Buffer!Ready

LEMMA CallBuffer ==
  ASSUME Inv, IdleInv, NEW t \in Threads, NEW c \in Calls, Begins(t, c) \/ Resumes(t, c), Run(t, c)
  PROVE  Buffer!Next
<1>1. Buffer!Calling(t, c) /\ (c.method # "put" => t \notin got)
  BY CallingFacts
<1>2. SUFFICES \/ Buffer!Put(t, c) \/ Buffer!Get(t, c) \/ Buffer!Join(t, c)
               \/ Buffer!Raise(t, c) \/ Buffer!Wait(t, c)
  BY <1>1 DEF Buffer!Next
<1>3. qsize \in 0 .. maxsize /\ maxsize \in Nat
  BY QueueAssumption DEF Inv, TypeOK
<1>4. ASSUME Quit(t), Buffer!Barred(c) \/ (~ Buffer!Ready(c) /\ c.kind # "block")
      PROVE  Buffer!Raise(t, c)
  BY <1>4 DEF Quit, queueVars, Buffer!Raise, Buffer!Answered
<1>5. ASSUME NEW d, WaitFor(t, c, d), ~ Buffer!Ready(c), ~ Buffer!Barred(c), c.kind # "now"
      PROVE  Buffer!Wait(t, c)
  BY <1>5 DEF WaitFor, queueVars, Buffer!Wait
<1>6. WaitsOn(t, c) => c.kind # "now"
  BY DEF WaitsOn
<1>7. CASE c.method = "put" /\ Put(t, c)
  <2>1. (Buffer!Ready(c) <=> qsize < maxsize) /\ (Buffer!Barred(c) <=> is_shutdown)
    BY <1>7, ReadyFacts DEF Buffer!Barred
  <2>2. CASE is_shutdown /\ Quit(t)
    BY <1>4, <2>1, <2>2
  <2>3. CASE ~ is_shutdown /\ qsize >= maxsize /\ GivesUp(t, c) /\ Quit(t)
    BY <1>3, <1>4, <2>1, <2>3 DEF GivesUp
  <2>4. CASE ~ is_shutdown /\ qsize >= maxsize /\ WaitsOn(t, c) /\ WaitFor(t, c, "not_full")
    BY <1>3, <1>5, <1>6, <2>1, <2>4
  <2>5. CASE /\ ~ is_shutdown /\ qsize < maxsize
             /\ qsize' = qsize + 1
             /\ unfinished_tasks' = unfinished_tasks + 1
             /\ LeaveNotifying(t, One("not_empty"))
             /\ call' = [call EXCEPT ![t] = NoCall]
             /\ UNCHANGED <<is_shutdown, got>>
    BY <1>7, <2>1, <2>5 DEF Buffer!Put, Buffer!Answered
  <2> QED
    BY <1>7, <2>2, <2>3, <2>4, <2>5 DEF Put
<1>8. CASE c.method = "get" /\ Get(t, c)
  <2>1. (Buffer!Ready(c) <=> qsize > 0) /\ (Buffer!Barred(c) <=> is_shutdown /\ ~ Buffer!Ready(c))
    BY <1>8, ReadyFacts DEF Buffer!Barred
  <2>2. CASE qsize = 0 /\ is_shutdown /\ Quit(t)
    BY <1>4, <2>1, <2>2
  <2>3. CASE qsize = 0 /\ ~ is_shutdown /\ GivesUp(t, c) /\ Quit(t)
    BY <1>4, <2>1, <2>3 DEF GivesUp
  <2>4. CASE qsize = 0 /\ ~ is_shutdown /\ WaitsOn(t, c) /\ WaitFor(t, c, "not_empty")
    BY <1>5, <1>6, <2>1, <2>4
  <2>5. CASE qsize > 0 /\ TakeItem(t)
    BY <1>1, <1>8, <2>1, <2>5 DEF TakeItem, Buffer!Get, Buffer!Answered
  <2> QED
    BY <1>8, <2>2, <2>3, <2>4, <2>5 DEF Get
<1>9. CASE c.method = "join" /\ Join(t, c)
  <2>1. (Buffer!Ready(c) <=> unfinished_tasks = 0) /\ ~ Buffer!Barred(c)
    BY <1>9, ReadyFacts DEF Buffer!Barred
  <2>2. CASE unfinished_tasks = 0 /\ Quit(t)
    BY <1>9, <2>1, <2>2 DEF Quit, queueVars, Buffer!Join, Buffer!Answered
  <2>3. CASE unfinished_tasks # 0 /\ WaitFor(t, c, "all_tasks_done")
    <3>1. c.kind # "now"
      BY <1>9 DEF Calls
    <3> QED
      BY <1>5, <2>1, <2>3, <3>1
  <2> QED
    BY <1>9, <2>2, <2>3 DEF Join
<1> QED
  BY <1>7, <1>8, <1>9 DEF Run

LEMMA StepBuffer ==
  ASSUME Inv, IdleInv, [Next]_vars
  PROVE  [Buffer!Next]_(Buffer!vars)
<1>1. ASSUME NEW t \in Threads, NEW c \in Calls, Begins(t, c) \/ Resumes(t, c), Run(t, c)
      PROVE  Buffer!Next
  BY <1>1, CallBuffer
<1>2. ASSUME UNCHANGED <<queueVars, call, got>> PROVE UNCHANGED Buffer!vars
  BY <1>2 DEF queueVars, Buffer!vars
<1>3. ASSUME NEW t \in Threads, TaskDone(t) PROVE Buffer!Next
  <2>1. Buffer!Done(t)
    BY <1>3 DEF TaskDone, IdleInv, Buffer!Done
  <2> QED
    BY <2>1 DEF Buffer!Next
<1>4. ASSUME NEW t \in Threads, NEW immediate \in BOOLEAN, Shutdown(t, immediate) PROVE Buffer!Next
  <2>1. Buffer!Close(t, immediate)
    BY <1>4 DEF Shutdown, IdleInv, Buffer!Close
  <2> QED
    BY <2>1 DEF Buffer!Next
<1>5. CASE UNCHANGED vars
  BY <1>2, <1>5 DEF vars
<1> QED
  BY <1>1, <1>2, <1>3, <1>4, <1>5 DEF Next

(* queue.Queue implements a buffer whose calls are answered in one step,   *)
(* of which nobody waits or raises without a reason, and whose join()      *)
(* returns when it is empty and nobody works on an item of it.             *)
THEOREM Implementation == Spec => ImplementsBuffer
<1>1. Init => IdleInv /\ Buffer!Init
  BY DEF Init, ConditionInit, IdleInv, Buffer!Init
<1>2. Inv /\ IdleInv /\ [Next]_vars => IdleInv' /\ [Buffer!Next]_(Buffer!vars)
  BY IdleStep, StepBuffer
<1> QED
  BY <1>1, <1>2, Invariance, PTL DEF Spec, ImplementsBuffer, Buffer!Spec
==============================================================================
