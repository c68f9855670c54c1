--------------------------- MODULE RawMutexProofs ---------------------------
(***************************************************************************)
(* The safety properties of RawMutex, for every finite set of threads.     *)
(***************************************************************************)
EXTENDS RawMutex, FiniteSetTheorems, TLAPS

(* The initial state satisfies the inductive invariant: the list of        *)
(* waiters is empty.                                                       *)
LEMMA InitInv == Init => Inv
<1> SUFFICES ASSUME Init PROVE Inv
  OBVIOUS
<1> USE RawMutexAssumption DEF Init, Unlocked, Locked
<1>1. TypeOK
  BY DEF TypeOK, Word, Waiter, Place
<1>2. MutualExclusion /\ NeverFatal /\ SomeoneWillTake
  BY DEF MutualExclusion, NeverFatal, SomeoneWillTake, Holding
<1>3. \A t \in Threads : ~ WakeupDue(t)
  BY DEF WakeupDue, Waking
<1>4. WakeupsInv /\ UnlockInv
  BY <1>3 DEF WakeupsInv, UnlockInv, Slow, Waking
<1>5. NoLostWaiter
  <2>1. 0 \in 0 .. Cardinality(Threads)
    BY FS_CardinalityType
  <2> DEFINE s == [i \in 1 .. 0 |-> NULL]
  <2>2. s \in Injection(1 .. 0, Threads)
    BY DEF Injection, IsInjective
  <2>3. IsWaiterList(0, s)
    BY DEF IsWaiterList
  <2>4. \A t \in Threads : (\E i \in 1 .. 0 : s[i] = t) <=> Parked(t)
    BY DEF Parked
  <2> QED
    BY <2>1, <2>2, <2>3, <2>4 DEF NoLostWaiter
<1> QED
  BY <1>1, <1>2, <1>4, <1>5 DEF Inv

(* The words that the operations write are words.                          *)
LEMMA WordType ==
  /\ Unlocked \in Word /\ Locked \in Word
  /\ \A w \in Word : /\ w.locked \in BOOLEAN /\ w.head \in Waiter
                     /\ [w EXCEPT !.locked = TRUE] \in Word
  /\ \A h \in Waiter : /\ [locked |-> TRUE,  head |-> h] \in Word
                       /\ [locked |-> FALSE, head |-> h] \in Word
  /\ NULL \in Waiter /\ \A t \in Threads : t \in Waiter
BY DEF Word, Waiter, Unlocked, Locked

(* Every step keeps the types.                                             *)
LEMMA StepType ==
  ASSUME NEW t \in Threads, Inv, Step(t)
  PROVE  TypeOK'
<1> USE WordType, RawMutexAssumption DEF Inv, TypeOK, Place, Slow, Holding, Goto
<1>1. CASE Lock(t)
  <2>1. word' \in Word
    BY <1>1 DEF Lock
  <2>2. alive' \in [Threads -> BOOLEAN] /\ v' \in [Threads -> Word]
    BY <1>1 DEF Lock
  <2>3. sema' \in [Threads -> 0 .. 1]
    BY <1>1 DEF Lock
  <2>4. rounds' \in [Threads -> 0 .. MaxRounds]
    BY <1>1 DEF Lock
  <2>5. pc' \in [Threads -> Place]
    BY <1>1 DEF Lock
  <2> QED
    BY <1>1, <2>1, <2>2, <2>3, <2>4, <2>5 DEF Lock
<1>2. CASE LoadForLock(t)
  BY <1>2 DEF LoadForLock
<1>3. CASE Grab(t)
  <2>1. word' \in Word
    BY <1>3 DEF Grab, CasSucceeds, CasFails
  <2>2. v' \in [Threads -> Word]
    BY <1>3 DEF Grab, CasSucceeds, CasFails
  <2> QED
    BY <1>3, <2>1, <2>2 DEF Grab
<1>4. CASE Enlist(t)
  <2> DEFINE new == [locked |-> TRUE, head |-> t]
  <2>4. new \in Word
    BY DEF Word, Waiter
  <2>5. word' = new \/ word' = word
    BY <1>4 DEF Enlist, CasSucceeds, CasFails
  <2>1. word' \in Word
    <3> HIDE DEF new
    <3> QED
      BY <2>4, <2>5
  <2>2. v' \in [Threads -> Word]
    BY <1>4 DEF Enlist, CasSucceeds, CasFails
  <2>3. next' \in [Threads -> Waiter]
    BY <1>4 DEF Enlist
  <2> QED
    BY <1>4, <2>1, <2>2, <2>3 DEF Enlist
<1>5. CASE Woken(t)
  BY <1>5 DEF Woken
<1>6. CASE Interrupted(t)
  BY <1>6 DEF Interrupted, vars
<1>7. CASE Unlock(t)
  BY <1>7 DEF Unlock
<1>8. CASE LoadForUnlock(t)
  BY <1>8 DEF LoadForUnlock
<1>9. CASE ReadNextWaiter(t)
  <2>1. v[t].head # NULL => v[t].head \in Threads
    BY DEF Waiter
  <2>2. after' \in [Threads -> Waiter]
    BY <1>9, <2>1 DEF ReadNextWaiter
  <2> QED
    BY <1>9, <2>2 DEF ReadNextWaiter
<1>10. CASE Release(t)
  <2> DEFINE new == [locked |-> FALSE, head |-> after[t]]
  <2>3. new \in Word
    BY DEF Word, Waiter
  <2>4. word' = new \/ word' = word
    BY <1>10 DEF Release, CasSucceeds, CasFails
  <2>1. word' \in Word
    <3> HIDE DEF new
    <3> QED
      BY <2>3, <2>4
  <2>2. v' \in [Threads -> Word]
    BY <1>10 DEF Release, CasSucceeds, CasFails
  <2> QED
    BY <1>10, <2>1, <2>2 DEF Release
<1>11. CASE Wakeup(t)
  <2>1. v[t].head \in Threads /\ sema[v[t].head] = 0
    BY <1>11 DEF Wakeup, WakeupsInv, Waking, Waiter
  <2> QED
    BY <1>11, <2>1 DEF Wakeup
<1> QED
  BY <1>1, <1>2, <1>3, <1>4, <1>5, <1>6, <1>7, <1>8, <1>9, <1>10, <1>11 DEF Step

(* Every step keeps the mutex exclusive and its lock bit true.             *)
LEMMA StepMutualExclusion ==
  ASSUME NEW t \in Threads, Inv, Step(t)
  PROVE  MutualExclusion' /\ NeverFatal'
<1> USE DEF Inv, TypeOK, Word, Waiter, Place, Slow, Holding, Goto, MutualExclusion, NeverFatal
<1>1. CASE Lock(t)
  BY <1>1 DEF Lock, Locked, Unlocked
<1>2. CASE LoadForLock(t)
  BY <1>2 DEF LoadForLock
<1>3. CASE Grab(t)
  BY <1>3 DEF Grab, CasSucceeds, CasFails
<1>4. CASE Enlist(t)
  BY <1>4 DEF Enlist, CasSucceeds, CasFails
<1>5. CASE Woken(t)
  BY <1>5 DEF Woken
<1>6. CASE Interrupted(t)
  BY <1>6 DEF Interrupted, vars
<1>7. CASE Unlock(t)
  BY <1>7 DEF Unlock, Unlocked
<1>8. CASE LoadForUnlock(t)
  BY <1>8 DEF LoadForUnlock
<1>9. CASE ReadNextWaiter(t)
  BY <1>9 DEF ReadNextWaiter, UnlockInv
<1>10. CASE Release(t)
  BY <1>10 DEF Release, CasSucceeds, CasFails
<1>11. CASE Wakeup(t)
  BY <1>11 DEF Wakeup
<1> QED
  BY <1>1, <1>2, <1>3, <1>4, <1>5, <1>6, <1>7, <1>8, <1>9, <1>10, <1>11 DEF Step

(* The first waiter on the list is parked.                                 *)
LEMMA HeadParked ==
  ASSUME Inv, word.head # NULL
  PROVE  word.head \in Threads /\ Parked(word.head)
<1>0. PICK n \in 0 .. Cardinality(Threads) : \E s \in Injection(1 .. n, Threads) :
        /\ IsWaiterList(n, s)
        /\ \A t \in Threads : (\E i \in 1 .. n : s[i] = t) <=> Parked(t)
  BY DEF Inv, NoLostWaiter
<1>1. PICK s \in Injection(1 .. n, Threads) :
        /\ IsWaiterList(n, s)
        /\ \A t \in Threads : (\E i \in 1 .. n : s[i] = t) <=> Parked(t)
  BY <1>0
<1>2. Cardinality(Threads) \in Nat
  BY RawMutexAssumption, FS_CardinalityType
<1>3. n # 0 /\ word.head = s[1]
  BY <1>1 DEF IsWaiterList
<1>4. 1 \in 1 .. n
  BY <1>2, <1>3
<1>5. s[1] \in Threads
  BY <1>4 DEF Injection
<1> QED
  BY <1>1, <1>3, <1>4, <1>5

(* Every step keeps what is known about wakeups.                           *)
LEMMA StepWakeups ==
  ASSUME NEW t \in Threads, Inv, Step(t)
  PROVE  WakeupsInv'
<1> USE RawMutexAssumption DEF Inv, TypeOK, Word, Waiter, Slow, Goto, WakeupsInv, WakeupDue, Waking
<1>1. CASE Lock(t)
  BY <1>1 DEF Lock
<1>2. CASE LoadForLock(t)
  BY <1>2 DEF LoadForLock
<1>3. CASE Grab(t)
  <2>1. CASE CasSucceeds(t, [v[t] EXCEPT !.locked = TRUE])
    <3>1. \A u, w \in Threads : Waking(u, w)' <=> Waking(u, w)
      BY <1>3, <2>1 DEF Grab, CasSucceeds
    <3>4. ~ CasFails(t)
      BY <2>1 DEF CasSucceeds, CasFails
    <3>2. alive' = [alive EXCEPT ![t] = FALSE] /\ pc' = [pc EXCEPT ![t] = "held"]
      BY <1>3, <3>4 DEF Grab
    <3>3. \A u \in Threads \ {t} : alive'[u] = alive[u] /\ pc'[u] = pc[u]
      BY <1>3, <2>1 DEF Grab, CasSucceeds
    <3> QED
      BY <1>3, <2>1, <3>1, <3>2, <3>3 DEF Grab, CasSucceeds
  <2>2. CASE CasFails(t)
    BY <1>3, <2>2 DEF Grab, CasFails
  <2> QED
    BY <1>3, <2>1, <2>2 DEF Grab
<1>4. CASE Enlist(t)
  <2>1. CASE CasSucceeds(t, [locked |-> TRUE, head |-> t])
    BY <1>4, <2>1 DEF Enlist, CasSucceeds
  <2>2. CASE CasFails(t)
    BY <1>4, <2>2 DEF Enlist, CasFails
  <2> QED
    BY <1>4, <2>1, <2>2 DEF Enlist
<1>5. CASE Woken(t)
  BY <1>5 DEF Woken
<1>6. CASE Interrupted(t)
  BY <1>6 DEF Interrupted, vars
<1>7. CASE Unlock(t)
  <2>1. /\ UNCHANGED <<sema, alive, v>>
        /\ pc[t] = "held" /\ pc' = [pc EXCEPT ![t] = pc'[t]]
        /\ pc'[t] \in {"idle", "unlock_load"}
    BY <1>7 DEF Unlock
  <2>2. \A u, w \in Threads : Waking(u, w)' <=> Waking(u, w)
    BY <2>1
  <2>3. \A u \in Threads : WakeupDue(u)' <=> WakeupDue(u)
    BY <2>1, <2>2
  <2> QED
    BY <2>1, <2>2, <2>3
<1>8. CASE LoadForUnlock(t)
  BY <1>8 DEF LoadForUnlock
<1>9. CASE ReadNextWaiter(t)
  BY <1>9 DEF ReadNextWaiter
<1>10. CASE Release(t)
  <2>1. CASE CasSucceeds(t, [locked |-> FALSE, head |-> after[t]])
    <3>1. v' = v /\ sema' = sema /\ alive' = alive /\ pc[t] = "unlock_cas"
      BY <1>10, <2>1 DEF Release, CasSucceeds
    <3>4. ~ CasFails(t)
      BY <2>1 DEF CasSucceeds, CasFails
    <3>2. pc' = [pc EXCEPT ![t] = IF v[t].head = NULL THEN "idle" ELSE "wakeup"]
      BY <1>10, <3>4 DEF Release
    <3>3. v[t].head # NULL => Parked(v[t].head)
      BY <3>1 DEF UnlockInv
    <3> QED
      BY <3>1, <3>2, <3>3 DEF Parked
  <2>2. CASE CasFails(t)
    <3>1. sema' = sema /\ alive' = alive /\ pc[t] = "unlock_cas"
      BY <1>10, <2>2 DEF Release, CasFails
    <3>5. ~ CasSucceeds(t, [locked |-> FALSE, head |-> after[t]])
      BY <2>2 DEF CasSucceeds, CasFails
    <3>2. pc' = [pc EXCEPT ![t] = "unlock_try"] /\ v' = [v EXCEPT ![t] = word]
      BY <1>10, <2>2, <3>5 DEF Release, CasFails
    <3> QED
      BY <3>1, <3>2
  <2> QED
    BY <1>10, <2>1, <2>2 DEF Release
<1>11. CASE Wakeup(t)
  BY <1>11 DEF Wakeup
<1> QED
  BY <1>1, <1>2, <1>3, <1>4, <1>5, <1>6, <1>7, <1>8, <1>9, <1>10, <1>11 DEF Step


(* Every step keeps what the owner has seen true.                          *)
LEMMA StepUnlock ==
  ASSUME NEW t \in Threads, Inv, Step(t)
  PROVE  UnlockInv'
<1> USE RawMutexAssumption DEF Inv, TypeOK, Word, Waiter, Slow, Holding, Goto, MutualExclusion, WakeupsInv, UnlockInv, Parked, WakeupDue, Waking
<1>1. CASE Lock(t)
  <2>1. \A u \in Threads : Parked(u) => Parked(u)'
    BY <1>1 DEF Lock
  <2>2. \A u \in Threads : pc'[u] \in {"unlock_try", "unlock_cas"} => pc'[u] = pc[u]
    BY <1>1 DEF Lock
  <2>3. v' = v /\ after' = after /\ next' = next
    BY <1>1 DEF Lock
  <2> QED
    BY <2>1, <2>2, <2>3 DEF UnlockInv
<1>2. CASE LoadForLock(t)
  BY <1>2 DEF LoadForLock
<1>3. CASE Grab(t)
  <2>1. CASE CasSucceeds(t, [v[t] EXCEPT !.locked = TRUE])
    BY <1>3, <2>1 DEF Grab, CasSucceeds
  <2>2. CASE CasFails(t)
    BY <1>3, <2>2 DEF Grab, CasFails
  <2> QED
    BY <1>3, <2>1, <2>2 DEF Grab
<1>4. CASE Enlist(t)
  <2>1. CASE CasSucceeds(t, [locked |-> TRUE, head |-> t])
    <3>1. \A u \in Threads : Parked(u) => Parked(u)' /\ u # t
      BY <1>4, <2>1 DEF Enlist, CasSucceeds
    <3>2. \A u \in Threads : pc'[u] \in {"unlock_try", "unlock_cas"} => pc'[u] = pc[u]
      BY <1>4, <2>1 DEF Enlist, CasSucceeds
    <3>3. v' = v /\ after' = after /\ \A u \in Threads \ {t} : next'[u] = next[u]
      BY <1>4, <2>1 DEF Enlist, CasSucceeds
    <3> QED
      BY <3>1, <3>2, <3>3 DEF UnlockInv
  <2>2. CASE CasFails(t)
    BY <1>4, <2>2 DEF Enlist, CasFails
  <2> QED
    BY <1>4, <2>1, <2>2 DEF Enlist
<1>5. CASE Woken(t)
  BY <1>5 DEF Woken
<1>6. CASE Interrupted(t)
  BY <1>6 DEF Interrupted, vars
<1>7. CASE Unlock(t)
  BY <1>7 DEF Unlock
<1>8. CASE LoadForUnlock(t)
  <2>1. word.locked /\ \A u \in Threads : pc[u] \in Holding => u = t
    BY <1>8 DEF LoadForUnlock
  <2>2. \A u \in Threads : Parked(u)' <=> Parked(u)
    BY <1>8 DEF LoadForUnlock
  <2> QED
    BY <1>8, <2>1, <2>2, HeadParked DEF LoadForUnlock
<1>9. CASE ReadNextWaiter(t)
  BY <1>9 DEF ReadNextWaiter
<1>10. CASE Release(t)
  <2>1. CASE CasSucceeds(t, [locked |-> FALSE, head |-> after[t]])
    BY <1>10, <2>1 DEF Release, CasSucceeds
  <2>2. CASE CasFails(t)
    <3>1. word.locked /\ \A u \in Threads : pc[u] \in Holding => u = t
      BY <1>10 DEF Release
    <3>5. ~ CasSucceeds(t, [locked |-> FALSE, head |-> after[t]])
      BY <2>2 DEF CasSucceeds, CasFails
    <3>2. pc' = [pc EXCEPT ![t] = "unlock_try"] /\ v' = [v EXCEPT ![t] = word]
      BY <1>10, <2>2, <3>5 DEF Release, CasFails
    <3>3. sema' = sema /\ pc[t] = "unlock_cas"
      BY <1>10 DEF Release
    <3>4. \A u \in Threads : Parked(u)' <=> Parked(u)
      BY <3>2, <3>3
    <3> QED
      BY <3>1, <3>2, <3>4, HeadParked
  <2> QED
    BY <1>10, <2>1, <2>2 DEF Release
<1>11. CASE Wakeup(t)
  BY <1>11 DEF Wakeup
<1> QED
  BY <1>1, <1>2, <1>3, <1>4, <1>5, <1>6, <1>7, <1>8, <1>9, <1>10, <1>11 DEF Step

(* s is the list of the parked threads, without repetition.                *)
ListOf(n, s) ==
  /\ IsWaiterList(n, s)
  /\ \A t \in Threads : (\E i \in 1 .. n : s[i] = t) <=> Parked(t)

(* s[1], ..., s[n] is what one meets on the way from h along f.            *)
Chain(h, f, n, s) ==
  /\ h = IF n = 0 THEN NULL ELSE s[1]
  /\ \A i \in 1 .. n : f[s[i]] = IF i = n THEN NULL ELSE s[i + 1]

(* There is only one way from h along f.                                   *)
LEMMA OneChain ==
  ASSUME NEW h, NEW f, NEW n \in Nat, NEW m \in Nat,
         NEW s \in [1 .. n -> Threads], NEW r \in [1 .. m -> Threads],
         Chain(h, f, n, s), Chain(h, f, m, r)
  PROVE  s = r
<1> DEFINE A == {k \in 1 .. n : k <= m /\ \A i \in 1 .. k : s[i] = r[i]}
<1>1. IsFiniteSet(1 .. n) /\ Cardinality(1 .. n) = n
  BY FS_Interval
<1>2. IsFiniteSet(A) /\ Cardinality(A) \in Nat /\ Cardinality(A) <= n
  BY <1>1, FS_Subset, FS_CardinalityType
<1>3. PICK c \in Nat : c = Cardinality(A)
  BY <1>2
<1>4. IsFiniteSet(1 .. c) /\ Cardinality(1 .. c) = c
  BY FS_Interval
<1>5. A = 1 .. c
  <2>1. ASSUME NEW k \in A PROVE k \in 1 .. c
    <3>1. 1 .. k \subseteq A
      OBVIOUS
    <3>2. Cardinality(1 .. k) = k
      BY FS_Interval
    <3>3. k <= c
      BY <1>2, <1>3, <3>1, <3>2, FS_Subset
    <3> QED
      BY <3>3
  <2>2. A \subseteq 1 .. c
    BY <2>1
  <2> HIDE DEF A
  <2> QED
    BY <1>3, <1>4, <2>2, FS_Subset
<1>6. n # 0 => 1 \in A
  BY RawMutexAssumption DEF Chain
<1>7. ASSUME NEW k \in A, k # n PROVE k + 1 \in A
  <2>1. k \in 1 .. n /\ k \in 1 .. m /\ k + 1 \in 1 .. n /\ s[k] = r[k]
    BY <1>7
  <2>2. f[s[k]] = s[k + 1] /\ s[k + 1] \in Threads
    BY <1>7, <2>1 DEF Chain
  <2>3. f[r[k]] = IF k = m THEN NULL ELSE r[k + 1]
    BY <2>1 DEF Chain
  <2>4. k # m /\ r[k + 1] = s[k + 1]
    BY <2>1, <2>2, <2>3, RawMutexAssumption
  <2>5. \A i \in 1 .. k + 1 : i \in 1 .. k \/ i = k + 1
    BY <2>1
  <2> QED
    BY <2>1, <2>4, <2>5
<1>8. c = n
  <2> HIDE DEF A
  <2>1. CASE c = 0
    BY <1>5, <1>6, <2>1
  <2>2. CASE c # 0
    <3>1. c \in A /\ c + 1 \notin A
      BY <1>5, <2>2
    <3> QED
      BY <1>7, <3>1
  <2> QED
    BY <2>1, <2>2
<1>9. CASE n = 0
  <2>1. m = 0
    BY <1>9, RawMutexAssumption DEF Chain
  <2> QED
    BY <1>9, <2>1
<1>10. CASE n # 0
  <2>1. n \in A
    <3> HIDE DEF A
    <3> QED
      BY <1>5, <1>8, <1>10
  <2>2. n <= m /\ s[n] = r[n] /\ \A i \in 1 .. n : s[i] = r[i]
    BY <1>10, <2>1
  <2>3. f[r[n]] = NULL
    BY <1>10, <2>2 DEF Chain
  <2>4. n = m
    BY <1>10, <2>2, <2>3, RawMutexAssumption DEF Chain
  <2> QED
    BY <2>2, <2>4
<1> QED
  BY <1>9, <1>10

(* A sequence of distinct threads that is the list is the only one, before *)
(* a step and after it.                                                    *)
LEMMA ListLength ==
  ASSUME NEW n \in 0 .. Cardinality(Threads), NEW s \in Injection(1 .. n, Threads)
  PROVE  n \in Nat /\ s \in [1 .. n -> Threads] /\ s \in Seq(Threads) /\ Len(s) = n
<1>1. Cardinality(Threads) \in Nat
  BY RawMutexAssumption, FS_CardinalityType
<1>2. n \in Nat /\ s \in [1 .. n -> Threads]
  BY <1>1 DEF Injection
<1> QED
  BY <1>2

LEMMA WaitersUnique ==
  ASSUME NEW h, NEW f, NEW n \in 0 .. Cardinality(Threads),
         NEW s \in Injection(1 .. n, Threads), Chain(h, f, n, s)
  PROVE  s = CHOOSE r \in Lists : Chain(h, f, Len(r), r)
<1> DEFINE P(r) == r \in Lists /\ Chain(h, f, Len(r), r)
<1>1. P(s)
  BY ListLength DEF Lists
<1>2. ASSUME NEW r, P(r) PROVE r = s
  <2>1. PICK m \in 0 .. Cardinality(Threads) : r \in Injection(1 .. m, Threads)
    BY <1>2 DEF Lists
  <2>2. m \in Nat /\ r \in [1 .. m -> Threads] /\ Len(r) = m
    BY <2>1, ListLength
  <2>3. n \in Nat /\ s \in [1 .. n -> Threads]
    BY ListLength
  <2> QED
    BY <1>2, <2>2, <2>3, OneChain
<1> HIDE DEF P
<1>3. s = CHOOSE r : P(r)
  BY <1>1, <1>2
<1> QED
  BY <1>3 DEF P

LEMMA ListIs ==
  ASSUME NEW n \in 0 .. Cardinality(Threads), NEW s \in Injection(1 .. n, Threads)
  PROVE  /\ IsWaiterList(n, s) => Waiters = s
         /\ IsWaiterList(n, s)' => Waiters' = s
<1>1. ASSUME IsWaiterList(n, s) PROVE Waiters = s
  <2>1. Waiters = CHOOSE r \in Lists : Chain(word.head, next, Len(r), r)
    BY DEF Waiters, IsWaiterList, Chain
  <2>2. Chain(word.head, next, n, s)
    BY <1>1 DEF IsWaiterList, Chain
  <2> QED
    BY <2>1, <2>2, WaitersUnique
<1>2. ASSUME IsWaiterList(n, s)' PROVE Waiters' = s
  <2>1. Waiters' = CHOOSE r \in Lists : Chain(word'.head, next', Len(r), r)
    BY DEF Waiters, IsWaiterList, Chain, Lists
  <2>2. Chain(word'.head, next', n, s)
    BY <1>2 DEF IsWaiterList, Chain
  <2> QED
    BY <2>1, <2>2, WaitersUnique
<1> QED
  BY <1>1, <1>2

(* The list survives a step that changes neither its head nor its members. *)
LEMMA ListKept ==
  ASSUME Inv, word'.head = word.head,
         \A u \in Threads : Parked(u)' <=> Parked(u),
         \A u \in Threads : Parked(u) => next'[u] = next[u]
  PROVE  NoLostWaiter' /\ Waiters' = Waiters
<1>1. PICK n \in 0 .. Cardinality(Threads) :
        \E s \in Injection(1 .. n, Threads) : ListOf(n, s)
  BY DEF Inv, NoLostWaiter, ListOf
<1>2. PICK s \in Injection(1 .. n, Threads) : ListOf(n, s)
  BY <1>1
<1>3. \A i \in 1 .. n : s[i] \in Threads
  BY DEF Injection
<1>4. ListOf(n, s)'
  BY <1>2, <1>3 DEF ListOf, IsWaiterList
<1>5. IsWaiterList(n, s) /\ IsWaiterList(n, s)'
  BY <1>2, <1>4 DEF ListOf
<1>6. Waiters = s /\ Waiters' = s
  BY <1>5, ListIs
<1> QED
  BY <1>4, <1>6 DEF NoLostWaiter, ListOf

(* Pushing a thread that was not parked gives the list of one more.        *)
LEMMA ListPushed ==
  ASSUME Inv, NEW t \in Threads, ~ Parked(t),
         word'.head = t, next'[t] = word.head,
         \A u \in Threads : Parked(u)' <=> Parked(u) \/ u = t,
         \A u \in Threads \ {t} : next'[u] = next[u]
  PROVE  NoLostWaiter' /\ Waiters' = <<t>> \o Waiters
<1>1. PICK n \in 0 .. Cardinality(Threads) :
        \E s \in Injection(1 .. n, Threads) : ListOf(n, s)
  BY DEF Inv, NoLostWaiter, ListOf
<1>2. PICK s \in Injection(1 .. n, Threads) : ListOf(n, s)
  BY <1>1
<1>3. Cardinality(Threads) \in Nat
  BY RawMutexAssumption, FS_CardinalityType
<1>4. n \in Nat /\ \A i \in 1 .. n : s[i] \in Threads /\ s[i] # t
  BY <1>2, <1>3 DEF Injection, ListOf
<1> DEFINE r == [i \in 1 .. n + 1 |-> IF i = 1 THEN t ELSE s[i - 1]]
<1>5. r \in [1 .. n + 1 -> Threads]
  BY <1>4
<1>6. ASSUME NEW i \in 1 .. n + 1, NEW j \in 1 .. n + 1, r[i] = r[j]
      PROVE  i = j
  <2>1. CASE i = 1 \/ j = 1
    BY <1>4, <1>6, <2>1
  <2>2. CASE i # 1 /\ j # 1
    <3>1. i - 1 \in 1 .. n /\ j - 1 \in 1 .. n /\ s[i - 1] = s[j - 1]
      BY <1>4, <1>6, <2>2
    <3>2. i - 1 = j - 1
      BY <3>1 DEF Injection, IsInjective
    <3> QED
      BY <3>2
  <2> QED
    BY <2>1, <2>2
<1>7. r \in Injection(1 .. n + 1, Threads)
  BY <1>5, <1>6 DEF Injection, IsInjective
<1>8. n + 1 \in 0 .. Cardinality(Threads)
  <2>1. Cardinality(1 .. n + 1) <= Cardinality(Threads)
    BY <1>7, FS_Injection, RawMutexAssumption
  <2>2. Cardinality(1 .. n + 1) = n + 1
    BY <1>4, FS_Interval
  <2> QED
    BY <1>3, <1>4, <2>1, <2>2
<1>9. IsWaiterList(n + 1, r)'
  <2>1. word'.head = r[1]
    BY <1>4
  <2>2. ASSUME NEW i \in 1 .. n + 1
        PROVE  next'[r[i]] = IF i = n + 1 THEN NULL ELSE r[i + 1]
    <3>1. CASE i = 1
      <4>1. n = 0 => word.head = NULL
        BY <1>2 DEF ListOf, IsWaiterList
      <4>2. n # 0 => word.head = s[1] /\ r[2] = s[1]
        BY <1>2, <1>4 DEF ListOf, IsWaiterList
      <4> QED
        BY <3>1, <4>1, <4>2, <1>4
    <3>2. CASE i # 1
      <4>1. i - 1 \in 1 .. n /\ r[i] = s[i - 1]
        BY <3>2, <1>4
      <4>2. next'[s[i - 1]] = next[s[i - 1]]
        BY <4>1, <1>4
      <4>3. next[s[i - 1]] = IF i - 1 = n THEN NULL ELSE s[(i - 1) + 1]
        BY <4>1, <1>2 DEF ListOf, IsWaiterList
      <4>4. i # n + 1 => r[i + 1] = s[i]
        BY <3>2, <1>4
      <4> QED
        BY <4>1, <4>2, <4>3, <4>4, <1>4
    <3> QED
      BY <3>1, <3>2
  <2> QED
    BY <2>1, <2>2, <1>4 DEF IsWaiterList
<1>10. ASSUME NEW u \in Threads
       PROVE  (\E i \in 1 .. n + 1 : r[i] = u) <=> Parked(u) \/ u = t
  <2>1. \A i \in 1 .. n : i + 1 \in 1 .. n + 1 /\ r[i + 1] = s[i]
    BY <1>4
  <2>2. \A i \in 1 .. n + 1 : r[i] = t \/ (i - 1 \in 1 .. n /\ r[i] = s[i - 1])
    BY <1>4
  <2>3. 1 \in 1 .. n + 1 /\ r[1] = t
    BY <1>4
  <2>4. (\E i \in 1 .. n : s[i] = u) <=> Parked(u)
    BY <1>2 DEF ListOf
  <2> HIDE DEF r
  <2> QED
    BY <2>1, <2>2, <2>3, <2>4
<1>11. Waiters' = <<t>> \o Waiters
  <2>1. r = <<t>> \o s
    <3>1. s \in Seq(Threads) /\ Len(s) = n
      BY ListLength
    <3>2. <<t>> \o s \in Seq(Threads) /\ Len(<<t>> \o s) = n + 1
      BY <3>1, <1>4
    <3>3. \A i \in 1 .. n + 1 : r[i] = (<<t>> \o s)[i]
      BY <3>1, <1>4
    <3>4. r \in Seq(Threads) /\ Len(r) = n + 1
      BY <1>7, <1>8, ListLength
    <3> HIDE DEF r
    <3> QED
      BY <3>2, <3>3, <3>4
  <2> HIDE DEF r
  <2>2. IsWaiterList(n, s)
    BY <1>2 DEF ListOf
  <2>3. Waiters = s /\ Waiters' = r
    BY <1>7, <1>8, <1>9, <2>2, ListIs
  <2> QED
    BY <2>1, <2>3
<1> QED
  <2> HIDE DEF r
  <2>1. NoLostWaiter'
    BY <1>7, <1>8, <1>9, <1>10 DEF NoLostWaiter
  <2> QED
    BY <2>1, <1>11

(* Popping the first thread gives the list of the others.                  *)
LEMMA ListPopped ==
  ASSUME Inv, word.head # NULL,
         word'.head = next[word.head], next' = next,
         \A u \in Threads : Parked(u)' <=> Parked(u) /\ u # word.head
  PROVE  /\ NoLostWaiter'
         /\ Waiters # << >> /\ Waiters' = Tail(Waiters) /\ Head(Waiters) = word.head
<1>1. PICK n \in 0 .. Cardinality(Threads) :
        \E s \in Injection(1 .. n, Threads) : ListOf(n, s)
  BY DEF Inv, NoLostWaiter, ListOf
<1>2. PICK s \in Injection(1 .. n, Threads) : ListOf(n, s)
  BY <1>1
<1>3. Cardinality(Threads) \in Nat
  BY RawMutexAssumption, FS_CardinalityType
<1>4. n \in Nat /\ n # 0 /\ word.head = s[1] /\ \A i \in 1 .. n : s[i] \in Threads
  BY <1>2, <1>3 DEF Injection, ListOf, IsWaiterList
<1>5. \A i \in 1 .. n : s[i] = s[1] => i = 1
  BY <1>4 DEF Injection, IsInjective
<1> DEFINE r == [i \in 1 .. n - 1 |-> s[i + 1]]
<1>6. r \in Injection(1 .. n - 1, Threads)
  <2>1. r \in [1 .. n - 1 -> Threads]
    BY <1>4
  <2>2. ASSUME NEW i \in 1 .. n - 1, NEW j \in 1 .. n - 1, r[i] = r[j]
        PROVE  i = j
    <3>1. i + 1 \in 1 .. n /\ j + 1 \in 1 .. n /\ s[i + 1] = s[j + 1]
      BY <1>4, <2>2
    <3>2. i + 1 = j + 1
      BY <3>1 DEF Injection, IsInjective
    <3> QED
      BY <3>2
  <2> QED
    BY <2>1, <2>2 DEF Injection, IsInjective
<1>7. n - 1 \in 0 .. Cardinality(Threads)
  BY <1>3, <1>4
<1>8. IsWaiterList(n - 1, r)'
  <2>1. \A i \in 1 .. n : next[s[i]] = IF i = n THEN NULL ELSE s[i + 1]
    BY <1>2 DEF ListOf, IsWaiterList
  <2>2. word'.head = IF n - 1 = 0 THEN NULL ELSE r[1]
    BY <2>1, <1>4
  <2>3. ASSUME NEW i \in 1 .. n - 1
        PROVE  next'[r[i]] = IF i = n - 1 THEN NULL ELSE r[i + 1]
    <3>1. i + 1 \in 1 .. n /\ r[i] = s[i + 1]
      BY <1>4
    <3>2. i # n - 1 => r[i + 1] = s[(i + 1) + 1]
      BY <1>4
    <3> QED
      BY <2>1, <3>1, <3>2, <1>4
  <2> QED
    BY <2>2, <2>3, <1>4 DEF IsWaiterList
<1>9. ASSUME NEW u \in Threads
      PROVE  (\E i \in 1 .. n - 1 : r[i] = u) <=> Parked(u) /\ u # word.head
  <2>1. \A i \in 1 .. n - 1 : i + 1 \in 1 .. n /\ i + 1 # 1 /\ r[i] = s[i + 1]
    BY <1>4
  <2>2. \A i \in 1 .. n : i # 1 => i - 1 \in 1 .. n - 1 /\ r[i - 1] = s[i]
    BY <1>4
  <2>3. (\E i \in 1 .. n : s[i] = u) <=> Parked(u)
    BY <1>2 DEF ListOf
  <2> HIDE DEF r
  <2>4. ASSUME NEW i \in 1 .. n - 1, r[i] = u
        PROVE  Parked(u) /\ u # word.head
    BY <2>1, <2>3, <2>4, <1>4, <1>5
  <2>5. ASSUME Parked(u), u # word.head
        PROVE  \E i \in 1 .. n - 1 : r[i] = u
    <3>1. PICK i \in 1 .. n : s[i] = u
      BY <2>3, <2>5
    <3> QED
      BY <2>2, <2>5, <3>1, <1>4
  <2> QED
    BY <2>4, <2>5
<1>10. Waiters = s /\ Waiters' = r
  <2> HIDE DEF r
  <2>1. IsWaiterList(n, s)
    BY <1>2 DEF ListOf
  <2> QED
    BY <1>6, <1>7, <1>8, <2>1, ListIs
<1>11. s # << >> /\ r = Tail(s) /\ Head(s) = s[1]
  <2>1. s \in Seq(Threads) /\ Len(s) = n
    BY ListLength
  <2>2. s # << >> /\ Head(s) = s[1]
    BY <1>4, <2>1
  <2>3. Tail(s) \in Seq(Threads) /\ Len(Tail(s)) = n - 1
    BY <1>4, <2>1, <2>2
  <2>4. \A i \in 1 .. n - 1 : r[i] = Tail(s)[i]
    BY <1>4, <2>1, <2>2
  <2>5. r \in Seq(Threads) /\ Len(r) = n - 1
    BY <1>6, <1>7, ListLength
  <2> HIDE DEF r
  <2> QED
    BY <2>2, <2>3, <2>4, <2>5
<1> QED
  <2> HIDE DEF r
  <2>1. NoLostWaiter'
    BY <1>6, <1>7, <1>8, <1>9 DEF NoLostWaiter
  <2> QED
    BY <2>1, <1>4, <1>10, <1>11

(* What a step may do to the list: nothing, put its thread on top, or take *)
(* off the top.                                                            *)
Kept == Waiters' = Waiters /\ \A u \in Threads : Parked(u)' <=> Parked(u)

Pushed(t) ==
  /\ word.locked /\ word'.locked
  /\ pc[t] = "try" /\ pc' = [pc EXCEPT ![t] = "sleep"]
  /\ Waiters' = <<t>> \o Waiters
  /\ ~ Parked(t)
  /\ \A u \in Threads : Parked(u)' <=> Parked(u) \/ u = t

Popped(t) ==
  /\ word.locked /\ ~ word'.locked
  /\ pc[t] = "unlock_cas" /\ pc' = [pc EXCEPT ![t] = "wakeup"]
  /\ Waiters # << >> /\ Waiters' = Tail(Waiters)
  /\ Head(Waiters) \in Threads /\ Parked(Head(Waiters))
  /\ \A u \in Threads : Parked(u)' <=> Parked(u) /\ u # Head(Waiters)

LEMMA EnlistPushes ==
  ASSUME Inv, NEW t \in Threads, Enlist(t), CasSucceeds(t, [locked |-> TRUE, head |-> t])
  PROVE  NoLostWaiter' /\ Pushed(t)
<1>1. ~ CasFails(t)
  BY DEF CasSucceeds, CasFails
<1>2. pc' = [pc EXCEPT ![t] = "sleep"] /\ pc[t] = "try" /\ sema' = sema /\ v' = v
  BY <1>1 DEF Enlist, CasSucceeds, Goto
<1>3. word'.head = t /\ next' = [next EXCEPT ![t] = word.head] /\ word.locked /\ word'.locked
  BY DEF Enlist, CasSucceeds
<1>4. ~ WakeupDue(t) /\ ~ Parked(t)
  BY <1>2 DEF Inv, WakeupsInv, Parked
<1>5. \A u \in Threads : Parked(u)' <=> Parked(u) \/ u = t
  BY <1>2, <1>4 DEF Inv, TypeOK, Parked, WakeupDue, Waking
<1>6. next'[t] = word.head /\ \A u \in Threads \ {t} : next'[u] = next[u]
  BY <1>3 DEF Inv, TypeOK
<1>7. NoLostWaiter' /\ Waiters' = <<t>> \o Waiters
  BY <1>3, <1>4, <1>5, <1>6, ListPushed
<1> QED
  BY <1>2, <1>3, <1>4, <1>5, <1>7 DEF Pushed

LEMMA ReleasePops ==
  ASSUME Inv, NEW t \in Threads, Release(t), word.head # NULL,
         CasSucceeds(t, [locked |-> FALSE, head |-> after[t]])
  PROVE  NoLostWaiter' /\ Popped(t)
<1>1. ~ CasFails(t)
  BY DEF CasSucceeds, CasFails
<1>2. pc[t] = "unlock_cas" /\ sema' = sema /\ next' = next
  BY DEF Release
<1>3. v' = v /\ word = v[t] /\ word'.head = after[t] /\ ~ word'.locked
  BY DEF CasSucceeds
<1>4. pc' = [pc EXCEPT ![t] = "wakeup"]
  BY <1>1, <1>3 DEF Release, Goto
<1>5. word.locked /\ word'.head = next[word.head]
  BY <1>2, <1>3 DEF Inv, UnlockInv
<1>6. Parked(word.head) /\ word.head \in Threads
  BY HeadParked
<1>7. \A u \in Threads : Parked(u)' <=> Parked(u) /\ u # word.head
  BY <1>2, <1>3, <1>4, <1>6 DEF Inv, TypeOK, Parked, WakeupDue, Waking
<1>8. /\ NoLostWaiter'
      /\ Waiters # << >> /\ Waiters' = Tail(Waiters) /\ Head(Waiters) = word.head
  BY <1>2, <1>5, <1>7, ListPopped
<1> QED
  BY <1>2, <1>3, <1>4, <1>5, <1>6, <1>7, <1>8 DEF Popped

(* Every step keeps the list of waiters complete.                          *)
LEMMA StepList ==
  ASSUME NEW t \in Threads, Inv, Step(t)
  PROVE  NoLostWaiter' /\ (Kept \/ Pushed(t) \/ Popped(t))
<1> USE RawMutexAssumption DEF Inv, TypeOK, Word, Waiter, Slow, Holding, Goto, MutualExclusion, WakeupsInv, UnlockInv, Parked, WakeupDue, Waking
<1>1. CASE Lock(t)
  <2>1. word'.head = word.head
    BY <1>1 DEF Lock, Locked, Unlocked
  <2>2. \A u \in Threads : Parked(u)' <=> Parked(u)
    BY <1>1 DEF Lock
  <2>3. \A u \in Threads : Parked(u) => next'[u] = next[u]
    BY <1>1 DEF Lock
  <2> QED
    BY <2>1, <2>2, <2>3, ListKept DEF Kept
<1>2. CASE LoadForLock(t)
  <2>1. word'.head = word.head
    BY <1>2 DEF LoadForLock, Locked, Unlocked
  <2>2. \A u \in Threads : Parked(u)' <=> Parked(u)
    BY <1>2 DEF LoadForLock
  <2>3. \A u \in Threads : Parked(u) => next'[u] = next[u]
    BY <1>2 DEF LoadForLock
  <2> QED
    BY <2>1, <2>2, <2>3, ListKept DEF Kept
<1>3. CASE Grab(t)
  <2>1. word'.head = word.head
    BY <1>3 DEF Grab, CasSucceeds, CasFails, Locked, Unlocked
  <2>2. \A u \in Threads : Parked(u)' <=> Parked(u)
    <3>1. sema' = sema /\ pc[t] = "try" /\ pc'[t] # "sleep" /\ pc'[t] # "wakeup"
      BY <1>3 DEF Grab
    <3>2. \A u \in Threads \ {t} : pc'[u] = pc[u] /\ v'[u] = v[u]
      BY <1>3 DEF Grab, CasSucceeds, CasFails
    <3>3. \A u, w \in Threads : Waking(u, w)' <=> Waking(u, w)
      BY <3>1, <3>2
    <3>4. \A u \in Threads : WakeupDue(u)' <=> WakeupDue(u)
      BY <3>1, <3>3
    <3> QED
      BY <3>1, <3>2, <3>4
  <2>3. \A u \in Threads : Parked(u) => next'[u] = next[u]
    BY <1>3 DEF Grab, CasSucceeds, CasFails
  <2> QED
    BY <2>1, <2>2, <2>3, ListKept DEF Kept
<1>4. CASE Enlist(t)
  <2>1. CASE CasSucceeds(t, [locked |-> TRUE, head |-> t])
    BY ONLY t \in Threads, Inv, <1>4, <2>1, EnlistPushes
  <2>2. CASE CasFails(t)
    <3>1. ~ CasSucceeds(t, [locked |-> TRUE, head |-> t])
      BY <2>2 DEF CasSucceeds, CasFails
    <3>2. word' = word /\ pc' = pc /\ sema' = sema /\ v' = [v EXCEPT ![t] = word]
      BY <1>4, <2>2, <3>1 DEF Enlist, CasFails
    <3>3. pc[t] = "try" /\ next' = [next EXCEPT ![t] = v[t].head]
      BY <1>4 DEF Enlist
    <3>4. \A u \in Threads : Parked(u)' <=> Parked(u)
      BY <3>2, <3>3
    <3>5. \A u \in Threads : Parked(u) => next'[u] = next[u]
      BY <3>3
    <3> QED
      BY <3>2, <3>4, <3>5, ListKept DEF Kept
  <2> QED
    BY <1>4, <2>1, <2>2 DEF Enlist
<1>5. CASE Woken(t)
  <2>1. word'.head = word.head
    BY <1>5 DEF Woken, Locked, Unlocked
  <2>2. \A u \in Threads : Parked(u)' <=> Parked(u)
    BY <1>5 DEF Woken
  <2>3. \A u \in Threads : Parked(u) => next'[u] = next[u]
    BY <1>5 DEF Woken
  <2> QED
    BY <2>1, <2>2, <2>3, ListKept DEF Kept
<1>6. CASE Interrupted(t)
  <2>1. word'.head = word.head
    BY <1>6 DEF Interrupted, vars, Locked, Unlocked
  <2>2. \A u \in Threads : Parked(u)' <=> Parked(u)
    BY <1>6 DEF Interrupted, vars
  <2>3. \A u \in Threads : Parked(u) => next'[u] = next[u]
    BY <1>6 DEF Interrupted, vars
  <2> QED
    BY <2>1, <2>2, <2>3, ListKept DEF Kept
<1>7. CASE Unlock(t)
  <2>1. word'.head = word.head
    BY <1>7 DEF Unlock, Locked, Unlocked
  <2>2. \A u \in Threads : Parked(u)' <=> Parked(u)
    BY <1>7 DEF Unlock
  <2>3. \A u \in Threads : Parked(u) => next'[u] = next[u]
    BY <1>7 DEF Unlock
  <2> QED
    BY <2>1, <2>2, <2>3, ListKept DEF Kept
<1>8. CASE LoadForUnlock(t)
  <2>1. word'.head = word.head
    BY <1>8 DEF LoadForUnlock, Locked, Unlocked
  <2>2. \A u \in Threads : Parked(u)' <=> Parked(u)
    BY <1>8 DEF LoadForUnlock
  <2>3. \A u \in Threads : Parked(u) => next'[u] = next[u]
    BY <1>8 DEF LoadForUnlock
  <2> QED
    BY <2>1, <2>2, <2>3, ListKept DEF Kept
<1>9. CASE ReadNextWaiter(t)
  <2>1. word'.head = word.head
    BY <1>9 DEF ReadNextWaiter, Locked, Unlocked
  <2>2. \A u \in Threads : Parked(u)' <=> Parked(u)
    BY <1>9 DEF ReadNextWaiter
  <2>3. \A u \in Threads : Parked(u) => next'[u] = next[u]
    BY <1>9 DEF ReadNextWaiter
  <2> QED
    BY <2>1, <2>2, <2>3, ListKept DEF Kept
<1>10. CASE Release(t)
  <2>0. pc[t] = "unlock_cas" /\ sema' = sema /\ next' = next
    BY <1>10 DEF Release
  <2>1. CASE CasSucceeds(t, [locked |-> FALSE, head |-> after[t]])
    <3>1. ~ CasFails(t)
      BY <2>1 DEF CasSucceeds, CasFails
    <3>2. pc' = [pc EXCEPT ![t] = IF v[t].head = NULL THEN "idle" ELSE "wakeup"]
      BY <1>10, <3>1 DEF Release
    <3>3. v' = v /\ word = v[t] /\ word'.head = after[t]
      BY <2>1 DEF CasSucceeds
    <3>4. CASE word.head = NULL
      <4>1. word'.head = word.head
        BY <2>0, <3>3, <3>4
      <4>2. \A u \in Threads : Parked(u)' <=> Parked(u)
        BY <2>0, <3>2, <3>3, <3>4
      <4> QED
        BY <2>0, <4>1, <4>2, ListKept DEF Kept
    <3>5. CASE word.head # NULL
      BY ONLY t \in Threads, Inv, <1>10, <2>1, <3>5, ReleasePops
    <3> QED
      BY <3>4, <3>5
  <2>2. CASE CasFails(t)
    <3>1. ~ CasSucceeds(t, [locked |-> FALSE, head |-> after[t]])
      BY <2>2 DEF CasSucceeds, CasFails
    <3>2. pc' = [pc EXCEPT ![t] = "unlock_try"] /\ word' = word /\ v' = [v EXCEPT ![t] = word]
      BY <1>10, <2>2, <3>1 DEF Release, CasFails
    <3>3. \A u \in Threads : Parked(u)' <=> Parked(u)
      BY <2>0, <3>2
    <3> QED
      BY <2>0, <3>2, <3>3, ListKept DEF Kept
  <2> QED
    BY <1>10, <2>1, <2>2 DEF Release
<1>11. CASE Wakeup(t)
  <2>1. word'.head = word.head
    BY <1>11 DEF Wakeup, Locked, Unlocked
  <2>2. \A u \in Threads : Parked(u)' <=> Parked(u)
    BY <1>11 DEF Wakeup
  <2>3. \A u \in Threads : Parked(u) => next'[u] = next[u]
    BY <1>11 DEF Wakeup
  <2> QED
    BY <2>1, <2>2, <2>3, ListKept DEF Kept
<1> QED
  BY <1>1, <1>2, <1>3, <1>4, <1>5, <1>6, <1>7, <1>8, <1>9, <1>10, <1>11 DEF Step


(* Every step leaves somebody to take an unlocked mutex that has waiters.  *)
LEMMA StepTake ==
  ASSUME NEW t \in Threads, Inv, Step(t)
  PROVE  SomeoneWillTake'
<1> USE RawMutexAssumption DEF Inv, TypeOK, Word, Waiter, Slow, Holding, Goto, MutualExclusion, WakeupsInv, UnlockInv, Parked, WakeupDue, Waking, SomeoneWillTake
<1>1. CASE Lock(t)
  BY <1>1 DEF Lock, Locked, Unlocked
<1>2. CASE LoadForLock(t)
  BY <1>2 DEF LoadForLock
<1>3. CASE Grab(t)
  BY <1>3 DEF Grab, CasSucceeds, CasFails
<1>4. CASE Enlist(t)
  BY <1>4 DEF Enlist, CasSucceeds, CasFails
<1>5. CASE Woken(t)
  BY <1>5 DEF Woken
<1>6. CASE Interrupted(t)
  BY <1>6 DEF Interrupted, vars
<1>7. CASE Unlock(t)
  BY <1>7 DEF Unlock, Locked, Unlocked
<1>8. CASE LoadForUnlock(t)
  BY <1>8 DEF LoadForUnlock
<1>9. CASE ReadNextWaiter(t)
  BY <1>9 DEF ReadNextWaiter
<1>10. CASE Release(t)
  BY <1>10 DEF Release, CasSucceeds, CasFails
<1>11. CASE Wakeup(t)
  BY <1>11 DEF Wakeup
<1> QED
  BY <1>1, <1>2, <1>3, <1>4, <1>5, <1>6, <1>7, <1>8, <1>9, <1>10, <1>11 DEF Step

-----------------------------------------------------------------------------
(* The refinement: how one thread at a time is seen by the abstract mutex. *)

(* The owner of the abstract mutex is the thread that holds it, the stack  *)
(* is empty when the word has no head, and it holds the parked threads.    *)
LEMMA OwnerIs ==
  ASSUME Inv
  PROVE  /\ Owner \in Threads \union {NULL}
         /\ Owner = NULL <=> ~ word.locked
         /\ \A t \in Threads : Owner = t <=> pc[t] \in Holding
<1>1. CASE \E t \in Threads : pc[t] \in Holding
  <2>1. Owner \in Threads /\ pc[Owner] \in Holding
    BY <1>1 DEF Owner
  <2> QED
    BY <1>1, <2>1, RawMutexAssumption DEF Inv, MutualExclusion
<1>2. CASE ~ \E t \in Threads : pc[t] \in Holding
  BY <1>2, RawMutexAssumption DEF Owner, Inv, MutualExclusion
<1> QED
  BY <1>1, <1>2

LEMMA OwnerNext ==
  ASSUME MutualExclusion'
  PROVE  /\ Owner' = NULL <=> ~ word'.locked
         /\ \A t \in Threads : Owner' = t <=> pc'[t] \in Holding
<1>1. CASE \E t \in Threads : pc'[t] \in Holding
  <2>1. Owner' \in Threads /\ pc'[Owner'] \in Holding
    BY <1>1 DEF Owner
  <2> QED
    BY <1>1, <2>1, RawMutexAssumption DEF MutualExclusion
<1>2. CASE ~ \E t \in Threads : pc'[t] \in Holding
  BY <1>2, RawMutexAssumption DEF Owner, MutualExclusion
<1> QED
  BY <1>1, <1>2

LEMMA WaitersAre ==
  ASSUME Inv
  PROVE  /\ Waiters = << >> <=> word.head = NULL
         /\ \A t \in Threads : Stack!Asleep(t) <=> Parked(t)
<1>1. PICK n \in 0 .. Cardinality(Threads) :
        \E s \in Injection(1 .. n, Threads) : ListOf(n, s)
  BY DEF Inv, NoLostWaiter, ListOf
<1>2. PICK s \in Injection(1 .. n, Threads) : ListOf(n, s)
  BY <1>1
<1>3. Waiters = s
  BY <1>2, ListIs DEF ListOf
<1>4. n \in Nat /\ s \in [1 .. n -> Threads] /\ s \in Seq(Threads) /\ Len(s) = n
  BY ListLength
<1>5. Waiters = << >> <=> word.head = NULL
  <2>1. s = << >> <=> n = 0
    BY <1>4
  <2>2. n # 0 => s[1] \in Threads
    BY <1>4
  <2> QED
    BY <1>2, <1>3, <2>1, <2>2, RawMutexAssumption DEF ListOf, IsWaiterList
<1> QED
  BY <1>2, <1>3, <1>4, <1>5 DEF ListOf, Stack!Asleep

(* The abstract step of a step that leaves the stack alone.                *)
LEMMA StutterStep ==
  ASSUME Inv, Inv', Kept,
         \A u \in Threads : pc'[u] \in Holding <=> pc[u] \in Holding,
         \A u \in Threads : pc'[u] \in Slow <=> pc[u] \in Slow
  PROVE  [Stack!Next]_Stack!vars
<1>1. Owner' = Owner
  BY DEF Owner
<1>2. Awake' = Awake
  BY DEF Awake, Kept
<1> QED
  BY <1>1, <1>2 DEF Stack!vars, Kept

LEMMA AskStep ==
  ASSUME Inv, Inv', Kept, NEW t \in Threads,
         pc[t] = "idle", pc' = [pc EXCEPT ![t] = "load"]
  PROVE  [Stack!Next]_Stack!vars
<1>1. pc \in [Threads -> Place]
  BY DEF Inv, TypeOK
<1>2. Owner' = Owner /\ t # Owner
  BY <1>1, OwnerIs DEF Owner, Holding
<1>3. ~ Parked(t) /\ t \notin Awake
  BY DEF Parked, Awake, Slow
<1>4. Awake' = Awake \union {t}
  <2>1. ~ Parked(t)'
    BY <1>3 DEF Kept
  <2> QED
    BY <1>1, <1>3, <2>1 DEF Awake, Kept, Slow
<1>5. Stack!Ask(t)
  BY <1>2, <1>3, <1>4, WaitersAre DEF Stack!Ask, Stack!Away, Kept
<1> QED
  BY <1>5 DEF Stack!Next

LEMMA TakeStep ==
  ASSUME Inv, Inv', Kept, NEW t \in Threads, ~ word.locked,
         pc' = [pc EXCEPT ![t] = "held"],
         pc[t] = "try" \/ (pc[t] = "idle" /\ word.head = NULL)
  PROVE  [Stack!Next]_Stack!vars
<1>1. pc \in [Threads -> Place]
  BY DEF Inv, TypeOK
<1>2. Owner = NULL /\ t # Owner
  BY RawMutexAssumption, OwnerIs
<1>3. Owner' = t
  <2>1. pc'[t] \in Holding
    BY <1>1 DEF Holding
  <2> QED
    BY <2>1, OwnerNext DEF Inv
<1>4. ~ Parked(t)
  BY DEF Parked
<1>5. Awake' = Awake \ {t}
  BY <1>1, <1>4 DEF Awake, Kept, Slow
<1>6. pc[t] = "try" => t \in Awake
  BY <1>4 DEF Awake, Slow
<1>7. pc[t] = "idle" => t \notin Awake
  BY DEF Awake, Slow
<1>8. Stack!Take(t)
  BY <1>2, <1>3, <1>4, <1>5, <1>6, <1>7, WaitersAre DEF Stack!Take, Stack!Away, Kept
<1> QED
  BY <1>8 DEF Stack!Next

LEMMA SleepStep ==
  ASSUME Inv, Inv', NEW t \in Threads, Pushed(t)
  PROVE  [Stack!Next]_Stack!vars
<1>1. pc \in [Threads -> Place] /\ pc[t] = "try" /\ pc' = [pc EXCEPT ![t] = "sleep"]
  BY DEF Inv, TypeOK, Pushed
<1>2. Owner # NULL /\ Owner' = Owner
  BY <1>1, OwnerIs DEF Pushed, Owner, Holding
<1>3. t \in Awake /\ Awake' = Awake \ {t}
  BY <1>1 DEF Pushed, Awake, Slow
<1>4. Stack!Sleep(t)
  BY <1>2, <1>3 DEF Stack!Sleep, Pushed
<1> QED
  BY <1>4 DEF Stack!Next

LEMMA WakeStep ==
  ASSUME Inv, Inv', NEW t \in Threads, Popped(t)
  PROVE  [Stack!Next]_Stack!vars
<1>1. /\ pc \in [Threads -> Place]
      /\ pc[t] = "unlock_cas" /\ pc' = [pc EXCEPT ![t] = "wakeup"]
  BY DEF Inv, TypeOK, Popped
<1>2. Owner = t /\ Owner' = NULL
  BY <1>1, OwnerIs, OwnerNext DEF Popped, Holding, Inv
<1>3. Awake' = Awake \union {Head(Waiters)}
  <2>1. pc[Head(Waiters)] = "sleep" /\ Head(Waiters) # t
    BY <1>1 DEF Popped, Parked
  <2> QED
    BY <1>1, <2>1 DEF Popped, Awake, Slow
<1>4. Stack!Release(t)
  BY <1>2, <1>3 DEF Stack!Release, Popped
<1> QED
  BY <1>4 DEF Stack!Next

(* An unlock that finds nobody on the stack.                               *)
LEMMA LeaveStep ==
  ASSUME Inv, Inv', Kept, NEW t \in Threads, pc[t] \in Holding,
         pc' = [pc EXCEPT ![t] = "idle"], word.head = NULL, ~ word'.locked
  PROVE  [Stack!Next]_Stack!vars
<1>1. pc \in [Threads -> Place]
  BY DEF Inv, TypeOK
<1>2. Owner = t /\ Owner' = NULL
  BY OwnerIs, OwnerNext DEF Inv
<1>3. Awake' = Awake
  BY <1>1 DEF Awake, Kept, Slow, Holding
<1>4. Stack!Release(t)
  BY <1>2, <1>3, WaitersAre DEF Stack!Release, Kept
<1> QED
  BY <1>4 DEF Stack!Next

LEMMA StepImplements ==
  ASSUME NEW t \in Threads, Inv, Inv', Step(t)
  PROVE  [Stack!Next]_Stack!vars
<1>0. Kept \/ Pushed(t) \/ Popped(t)
  BY StepList
<1>1. CASE Pushed(t)
  BY <1>1, SleepStep
<1>2. CASE Popped(t)
  BY <1>2, WakeStep
<1> SUFFICES ASSUME ~ Pushed(t), ~ Popped(t) PROVE [Stack!Next]_Stack!vars
  BY <1>1, <1>2
<1>3. Kept
  BY <1>0
<1>4. pc \in [Threads -> Place]
  BY DEF Inv, TypeOK
<1> USE DEF Goto
<1>5. CASE Lock(t)
  <2>1. CASE word = Unlocked
    BY <1>3, <1>5, <2>1, TakeStep DEF Lock, Unlocked
  <2>2. CASE word # Unlocked
    BY <1>3, <1>5, <2>2, AskStep DEF Lock
  <2> QED
    BY <2>1, <2>2
<1>6. CASE LoadForLock(t)
  BY <1>3, <1>4, <1>6, StutterStep DEF LoadForLock, Holding, Slow
<1>7. CASE Grab(t)
  <2>1. CASE CasSucceeds(t, [v[t] EXCEPT !.locked = TRUE])
    <3>1. ~ CasFails(t)
      BY <2>1 DEF CasSucceeds, CasFails
    <3>2. pc[t] = "try" /\ ~ word.locked /\ pc' = [pc EXCEPT ![t] = "held"]
      BY <1>7, <2>1, <3>1 DEF Grab, CasSucceeds
    <3> QED
      BY <1>3, <3>2, TakeStep
  <2>2. CASE ~ CasSucceeds(t, [v[t] EXCEPT !.locked = TRUE])
    <3>1. pc' = pc
      BY <1>7, <2>2 DEF Grab
    <3> QED
      BY <1>3, <3>1, StutterStep
  <2> QED
    BY <2>1, <2>2
<1>8. CASE Enlist(t)
  <2>1. ~ CasSucceeds(t, [locked |-> TRUE, head |-> t])
    BY <1>8, EnlistPushes
  <2>2. pc' = pc
    BY <1>8, <2>1 DEF Enlist
  <2> QED
    BY <1>3, <2>2, StutterStep
<1>9. CASE Woken(t)
  BY <1>3, <1>4, <1>9, StutterStep DEF Woken, Holding, Slow
<1>10. CASE Interrupted(t)
  BY <1>3, <1>10, StutterStep DEF Interrupted, vars
<1>11. CASE Unlock(t)
  <2>1. CASE word = Locked
    BY <1>3, <1>11, <2>1, LeaveStep DEF Unlock, Locked, Unlocked, Holding
  <2>2. CASE word # Locked
    BY <1>3, <1>4, <1>11, <2>2, StutterStep DEF Unlock, Holding, Slow
  <2> QED
    BY <2>1, <2>2
<1>12. CASE LoadForUnlock(t)
  BY <1>3, <1>4, <1>12, StutterStep DEF LoadForUnlock, Holding, Slow
<1>13. CASE ReadNextWaiter(t)
  <2>1. pc'[t] # "fatal"
    BY DEF Inv, NeverFatal
  <2>2. pc[t] = "unlock_try" /\ pc' = [pc EXCEPT ![t] = "unlock_cas"]
    BY <1>4, <1>13, <2>1 DEF ReadNextWaiter
  <2> QED
    BY <1>3, <1>4, <2>2, StutterStep DEF Holding, Slow
<1>14. CASE Release(t)
  <2>1. CASE CasSucceeds(t, [locked |-> FALSE, head |-> after[t]])
    <3>1. word.head = NULL
      BY <1>14, <2>1, ReleasePops
    <3>2. ~ CasFails(t)
      BY <2>1 DEF CasSucceeds, CasFails
    <3>3. pc[t] = "unlock_cas" /\ pc' = [pc EXCEPT ![t] = "idle"] /\ ~ word'.locked
      BY <1>14, <2>1, <3>1, <3>2 DEF Release, CasSucceeds
    <3> QED
      BY <1>3, <3>1, <3>3, LeaveStep DEF Holding
  <2>2. CASE ~ CasSucceeds(t, [locked |-> FALSE, head |-> after[t]])
    <3>1. pc[t] = "unlock_cas" /\ pc' = [pc EXCEPT ![t] = "unlock_try"]
      BY <1>14, <2>2 DEF Release
    <3> QED
      BY <1>3, <1>4, <3>1, StutterStep DEF Holding, Slow
  <2> QED
    BY <2>1, <2>2
<1>15. CASE Wakeup(t)
  BY <1>3, <1>4, <1>15, StutterStep DEF Wakeup, Holding, Slow
<1> QED
  BY <1>5, <1>6, <1>7, <1>8, <1>9, <1>10, <1>11, <1>12, <1>13, <1>14, <1>15 DEF Step

(* An unchanged state is an unchanged abstract state.                      *)
LEMMA StillImplements == ASSUME Inv, UNCHANGED vars PROVE UNCHANGED Stack!vars
<1> USE DEF vars
<1>1. \A t \in Threads : Parked(t)' <=> Parked(t)
  BY DEF Parked, WakeupDue, Waking
<1>2. Waiters' = Waiters
  BY <1>1, ListKept
<1> QED
  BY <1>1, <1>2 DEF Stack!vars, Owner, Awake

LEMMA InitImplements == Init => Stack!Init
<1> SUFFICES ASSUME Init PROVE Stack!Init
  OBVIOUS
<1>1. Inv
  BY InitInv
<1>2. Owner = NULL /\ Waiters = << >>
  BY <1>1, OwnerIs, WaitersAre DEF Init, Unlocked
<1>3. Awake = {}
  BY DEF Init, Awake, Slow
<1> QED
  BY <1>2, <1>3 DEF Stack!Init

-----------------------------------------------------------------------------
(* The invariant holds in every reachable state.                           *)
THEOREM Invariance == Spec => []Inv
<1>1. Init => Inv
  BY InitInv
<1>2. Inv /\ [Next]_vars => Inv'
  <2> SUFFICES ASSUME Inv, [Next]_vars PROVE Inv'
    OBVIOUS
  <2>1. ASSUME NEW t \in Threads, Step(t) PROVE Inv'
    BY <2>1, StepType, StepMutualExclusion, StepWakeups, StepUnlock, StepList, StepTake
       DEF Inv
  <2>2. CASE UNCHANGED vars
    <3> USE <2>2 DEF vars, Inv, Parked, WakeupDue, Waking
    <3>1. TypeOK' /\ MutualExclusion' /\ NeverFatal'
      BY DEF TypeOK, MutualExclusion, NeverFatal
    <3>2. \A t \in Threads : (Parked(t)' <=> Parked(t)) /\ (WakeupDue(t)' <=> WakeupDue(t))
      OBVIOUS
    <3>3. NoLostWaiter'
      BY <3>2, ListKept
    <3>4. SomeoneWillTake'
      BY <3>2 DEF SomeoneWillTake
    <3>5. WakeupsInv'
      BY <3>2 DEF WakeupsInv
    <3>6. UnlockInv'
      BY <3>2 DEF UnlockInv
    <3> QED
      BY <3>1, <3>3, <3>4, <3>5, <3>6
  <2> QED
    BY <2>1, <2>2 DEF Next
<1> QED
  BY <1>1, <1>2, PTL DEF Spec

(* The word, the linked records and the wakeups under way implement an     *)
(* owner and a stack of sleeping threads.                                  *)
THEOREM Implementation == Spec => ImplementsLock
<1>1. Inv /\ Inv' /\ [Next]_vars => [Stack!Next]_Stack!vars
  <2> SUFFICES ASSUME Inv, Inv', [Next]_vars PROVE [Stack!Next]_Stack!vars
    OBVIOUS
  <2>1. CASE UNCHANGED vars
    BY <2>1, StillImplements
  <2>2. CASE Next
    BY <2>2, StepImplements DEF Next
  <2> QED
    BY <2>1, <2>2
<1> QED
  BY <1>1, InitImplements, Invariance, PTL DEF Spec, ImplementsLock, Stack!Spec

(* At most one thread owns the raw mutex, and the lock bit says so.        *)
THEOREM MutualExclusionHolds == Spec => []MutualExclusion
BY Invariance, PTL DEF Inv

(* The list of waiters loses and duplicates nobody.                        *)
THEOREM NoLostWaiterHolds == Spec => []NoLostWaiter
BY Invariance, PTL DEF Inv

(* The unlocker only touches records that are alive, and is never fatal.   *)
THEOREM RecordsAliveHolds == Spec => [](RecordsAlive /\ NeverFatal)
<1>1. Inv => RecordsAlive /\ NeverFatal
  BY DEF Inv, TypeOK, Word, Waiter, RecordsAlive, WakeupsInv, UnlockInv, Parked,
     WakeupDue, Waking, Slow
<1> QED
  BY <1>1, Invariance, PTL

(* An unlocked mutex with waiters always has a thread on its way to it.    *)
THEOREM SomeoneWillTakeHolds == Spec => []SomeoneWillTake
BY Invariance, PTL DEF Inv
=============================================================================
