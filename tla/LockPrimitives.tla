--------------------------- MODULE LockPrimitives ---------------------------
(***************************************************************************)
(* The primitives of Python/lock.c at work together: threads use events,   *)
(* once flags, readers-writer mutexes and recursive mutexes whose waiters  *)
(* share the parking lot, and may share a bucket of it.                    *)
(***************************************************************************)
EXTENDS PyEvent, OnceFlag, RWMutex, RecursiveMutex

CONSTANTS
  Events, Onces, RWs, Recursives,    \* what is at each address
  Workloads                          \* which primitives each thread uses

ASSUME LockPrimitivesAssumption ==
  /\ Events \union Onces \union RWs \union Recursives = Addrs
  /\ Events \intersect Onces = {} /\ (Events \union Onces) \intersect RWs = {}
  /\ (Events \union Onces \union RWs) \intersect Recursives = {}
  /\ Workloads \subseteq [Threads -> SUBSET Addrs]

VARIABLE uses    \* the workload, which never changes

vars == <<lotVars, wordVars, recVars, uses>>

Init == WordsInit /\ RecInit /\ uses \in Workloads

NewCall(t) ==
  \/ /\ \/ \E a \in Events \intersect uses[t] : EventCall(t, a)
        \/ \E a \in Onces \intersect uses[t] : OnceCall(t, a)
        \/ \E a \in RWs \intersect uses[t] : RWCall(t, a)
     /\ UNCHANGED recVars
  \/ \E a \in Recursives \intersect uses[t] : RecursiveLock(t, a)
  \/ ReleaseSave(t)

Step(t) ==
  \/ (WordStep(t) \/ EventStep(t) \/ OnceStep(t) \/ RWStep(t)) /\ UNCHANGED recVars
  \/ RecursiveStep(t)

Next ==
  /\ \E t \in Threads : NewCall(t) \/ Step(t) \/ (Expire(t) /\ UNCHANGED recVars)
  /\ UNCHANGED uses

Spec == Init /\ [][Next]_vars

(* A running thread goes on and leaves what it has entered; calls, events  *)
(* that are set and interrupted waits are up to the environment.           *)
FairSpec == Spec /\ \A t \in Threads : WF_vars(Step(t) /\ UNCHANGED uses)

-----------------------------------------------------------------------------
(* Properties *)

Inside(a, function) == {t \in Threads : on[t] = a /\ pc[t] = "inside" /\ doing[t] = function}
HoldsMutex(a) == {t \in Threads : on[t] = a /\ pc[t] \in {"stamp", "drop"}} \union Inside(a, "Recursive")

(* A recursive mutex belongs to the thread whose identity is stored in it, *)
(* as often as this thread has locked it more than unlocked it; what other *)
(* threads read without the mutex never looks like themselves.             *)
RecursionCounts ==
  \A a \in Recursives :
    /\ Cardinality(HoldsMutex(a)) = IF word[a].locked THEN 1 ELSE 0
    /\ \A t \in Threads :
         /\ IsOwnedBy(a, t) <=> t \in Inside(a, "Recursive")
         /\ IsOwnedBy(a, t) => level[a] + 1 = depth[t]

(* Every word tells who is inside: readers exclude writers and writers     *)
(* each other, and the word of a RW mutex counts exactly the readers; the  *)
(* function of a once flag runs in one thread at a time; and a recursive   *)
(* mutex knows its owner and its depth.                                    *)
HoldersAgree ==
  /\ \A a \in RWs :
       /\ Cardinality(Inside(a, "Lock")) = IF word[a].locked THEN 1 ELSE 0
       /\ Cardinality(Inside(a, "RLock")) = word[a].count
       /\ word[a].locked => word[a].count = 0
  /\ \A a \in Onces :
       Cardinality(Inside(a, "CallOnce")) = IF word[a].locked THEN 1 ELSE 0
  /\ RecursionCounts

(* Somebody is about to wake who sleeps on a.                              *)
Unparking(a) == \E t \in Threads : on[t] = a /\ pc[t] = "unpark"

(* A writer that is awake looks at the word before it sleeps.              *)
AwakeWriter(a) ==
  \E t \in Threads : on[t] = a /\ doing[t] = "Lock" /\ pc[t] # "inside" /\ ~ Queued(t)

(* No wakeup is lost: who sleeps on a word is announced in it, and the     *)
(* event is not set, or the once function runs, or the lock is held, or    *)
(* the writer to which the last reader left the parked bit is awake; or    *)
(* somebody is about to unpark everybody.                                  *)
SleepersCared ==
  \A t \in Threads : Queued(t) =>
    LET a == at[t]
    IN  \/ Unparking(a)
        \/ /\ word[a].parked
           /\ \/ a \in Events /\ ~ word[a].locked
              \/ a \in Onces /\ word[a].locked
              \/ a \in RWs /\ (word[a].locked \/ word[a].count > 0 \/ AwakeWriter(a))

(* UnparkAll walks entries on other threads' stacks and posts semaphores   *)
(* in them: each is still in Park then, dequeued for exactly this walk.    *)
PostsAlive ==
  \A t \in Threads :
    /\ IsInjective(posts[t])
    /\ \A w \in ToSet(posts[t]) :
         /\ park[w] # "out" /\ unparking[w] /\ sema[w] = 0
         /\ \A u \in Threads \ {t} : w \notin ToSet(posts[u])

(* A writer that has announced itself while readers hold the mutex gets    *)
(* its turn, or another writer does, although readers come for ever.       *)
WritersNotStarved ==
  \A a \in RWs : word[a].parked /\ ~ word[a].locked ~> Inside(a, "Lock") # {}

(* Every call returns once what it waits for can happen, whoever is        *)
(* interrupted, unless threads make new calls for ever: a wait for an      *)
(* event that is set, a lock, a once function.                             *)
EveryCallReturns ==
  \/ []<><<(\E t \in Threads : NewCall(t)) /\ UNCHANGED uses>>_vars
  \/ \A t \in Threads :
       pc[t] \in Busy /\ (doing[t] \in Waits => IsSet(word[on[t]])) ~> pc[t] \notin Busy

(* The primitives as their callers see them: see PrimitivesSpec.  An outer *)
(* unlock returns when it clears the owner, before the mutex is free.      *)
InCall(t) == doing[t] # "none" /\ ~ (pc[t] = "drop" /\ saved[t] = 0)
calls == [t \in Threads |-> IF InCall(t) THEN [at |-> on[t], function |-> doing[t]] ELSE NULL]
entered == {t \in Threads : pc[t] \in {"inside", "stamp"}}
settled == {a \in Events : IsSet(word[a])} \union {a \in Onces : word[a].count # 0}

Primitives == INSTANCE PrimitivesSpec WITH
  call <- calls,
  inside <- entered

(* Words, identities read without the mutex and levels implement what the  *)
(* primitives promise: nobody returns from a once flag before its function *)
(* has succeeded, nor runs it after, nobody from an event that is not set, *)
(* and a recursive mutex is kept for exactly as long as it is locked.      *)
ImplementsPrimitives == Primitives!Spec

-----------------------------------------------------------------------------
(* The inductive invariant of the safety properties.                       *)

RecursionTypeOK ==
  /\ thread \in [Addrs -> Threads \union {NULL}]
  /\ level  \in [Addrs -> Nat]
  /\ saved  \in [Threads -> Nat]
  /\ depth  \in [Threads -> Nat]

TypeOK == WordsTypeOK /\ RecursionTypeOK /\ uses \in [Threads -> SUBSET Addrs]

(* What a thread is doing says where it may be, and at what.               *)
PlaceInv ==
  \A t \in Threads :
    /\ doing[t] = "none" <=> pc[t] \in {"idle", "unpark", "wake"}
    /\ doing[t] = "Recursive" => on[t] \in Recursives /\ pc[t] \in {"mutex", "stamp", "inside", "drop"}
    /\ pc[t] \in {"mutex", "stamp", "drop"} => doing[t] = "Recursive"
    /\ doing[t] \in Waits => on[t] \in Events /\ pc[t] # "inside"
    /\ pc[t] = "check" => doing[t] \in Waits
    /\ doing[t] = "CallOnce" => on[t] \in Onces
    /\ doing[t] \in {"RLock", "Lock"} => on[t] \in RWs
    /\ pc[t] = "unpark" => on[t] \in Addrs \ Recursives

(* The depth of a thread that is about to get its recursive mutex, or to   *)
(* unlock it, is what it has saved, and nobody's level is zero.            *)
DepthInv ==
  /\ \A t \in Threads :
       /\ doing[t] # "Recursive" => saved[t] = 0 /\ depth[t] = 0
       /\ pc[t] = "inside" => saved[t] = 0
       /\ pc[t] \in {"mutex", "stamp"} /\ saved[t] = 0 => depth[t] = 1
       /\ pc[t] = "drop" \/ saved[t] # 0 => depth[t] = saved[t]
  /\ \A a \in Recursives : thread[a] = NULL => level[a] = 0

(* A wait entry is alive while its thread is in Park, for the address of   *)
(* its call; its semaphore is posted after it was dequeued.                *)
EntryInv ==
  \A t \in Threads :
    /\ park[t] # "out" <=> pc[t] = "parked"
    /\ at[t] = IF pc[t] = "parked" THEN on[t] ELSE NULL
    /\ unparking[t] => pc[t] = "parked"
    /\ sema[t] # 0 => unparking[t]
    /\ posts[t] # << >> <=> pc[t] = "wake"

(* Who is about to park has seen the parked bit and a reason to wait.      *)
ReasonInv ==
  \A t \in Threads : pc[t] = "park" =>
    /\ v[t].parked
    /\ doing[t] \in Waits => ~ v[t].locked
    /\ doing[t] = "CallOnce" => v[t].locked
    /\ doing[t] = "Lock" => v[t].locked \/ v[t].count > 0

(* The parked bit of a RW mutex that no writer holds was set for a writer, *)
(* which is awake once the readers are gone and everybody is unparked.     *)
WriterInv ==
  \A a \in RWs : word[a].parked /\ ~ word[a].locked =>
    /\ \E t \in Threads : on[t] = a /\ doing[t] = "Lock" /\ pc[t] # "inside"
    /\ word[a].count = 0 => Unparking(a) \/ AwakeWriter(a)

Inv ==
  /\ TypeOK /\ PlaceInv /\ DepthInv /\ EntryInv /\ ReasonInv /\ WriterInv
  /\ QueuesExact /\ HoldersAgree /\ SleepersCared /\ PostsAlive
=============================================================================
