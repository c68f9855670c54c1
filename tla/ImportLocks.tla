---------------------------- MODULE ImportLocks -----------------------------
(***************************************************************************)
(* Threads that import: sys.modules, the module locks of importlib with    *)
(* their detection of deadlocks (Lib/importlib/_bootstrap.py), and the     *)
(* import statement that enters them (Python/import.c).  One action reads  *)
(* or writes the shared state once; what runs under a module lock's own    *)
(* RLock is one action, but for the search for a deadlock, which reads     *)
(* state of other locks that changes meanwhile.                            *)
(*                                                                         *)
(* A thread is a stack of imports: the body of a module that is loaded     *)
(* imports others.  Garbage collection and signal handlers, which may      *)
(* start an import inside of any step, are left out.                       *)
(***************************************************************************)
EXTENDS Naturals, Sequences, FiniteSets, SequencesExt

CONSTANTS
  Threads,
  Modules,
  Imports,     \* the modules that the body of each module may import
  Wanted,      \* bound: the modules that each thread's own code may import
  MaxLoads,    \* bound: how often each module is loaded; the last load succeeds
  NULL

ASSUME ImportLocksAssumption ==
  /\ NULL \notin Threads \union Modules
  /\ Imports \in [Modules -> SUBSET Modules]
  /\ Wanted \in [Threads -> SUBSET Modules]
  /\ MaxLoads \in [Modules -> Nat \ {0}]

VARIABLES
  modules,        \* sys.modules: the load that made each module, 0 for none
  loads,          \* how often each module was loaded
  initializing,   \* module.__spec__._initializing, of a load of a module
  owner,          \* lock.owner
  count,          \* len(lock.count)
  waiters,        \* len(lock.waiters)
  wakeup,         \* is lock.wakeup locked?
  stack,          \* every thread's imports, the innermost last
  candidate,      \* whom its search for a deadlock looks at
  seen            \* seen_ids of the search

moduleVars == <<modules, loads, initializing>>
lockVars == <<owner, count, waiters, wakeup>>
searchVars == <<candidate, seen>>
vars == <<moduleVars, lockVars, stack, searchVars>>

(* An import: the module it asks for, the load it has got, where it is,    *)
(* and what a lock is acquired for: to "load" the module (which is "found" *)
(* loaded then), or to wait for a load, in the import statement ("ensure") *)
(* or after the module was found ("find").                                 *)
Places == {"ensure", "check", "find", "examine", "recheck",
           "enter", "search", "peek", "wait", "pass",
           "got", "body", "put", "clear", "release"}
Purposes == {"none", "load", "found", "ensure", "find"}

Acquiring == {"enter", "search", "peek", "wait", "pass"}
Holding == {"got", "body", "put", "clear", "release"}
Loading == {"body", "put", "clear"}

TypeOK ==
  /\ modules \in [Modules -> Nat]
  /\ loads \in [Modules -> Nat]
  /\ initializing \subseteq Modules \X (Nat \ {0})
  /\ owner \in [Modules -> Threads \union {NULL}]
  /\ count \in [Modules -> Nat]
  /\ waiters \in [Modules -> Nat]
  /\ wakeup \in [Modules -> BOOLEAN]
  /\ stack \in [Threads -> Seq([m : Modules, mod : Nat, at : Places, purpose : Purposes])]
  /\ candidate \in [Threads -> Threads \union {NULL}]
  /\ seen \in [Threads -> SUBSET Threads]

Init ==
  /\ modules = [m \in Modules |-> 0]
  /\ loads = [m \in Modules |-> 0]
  /\ initializing = {}
  /\ owner = [m \in Modules |-> NULL]
  /\ count = [m \in Modules |-> 0]
  /\ waiters = [m \in Modules |-> 0]
  /\ wakeup = [m \in Modules |-> FALSE]
  /\ stack = [t \in Threads |-> << >>]
  /\ candidate = [t \in Threads |-> NULL]
  /\ seen = [t \in Threads |-> {}]

Top(t) == Last(stack[t])
At(t, place) == stack[t] # << >> /\ Top(t).at = place
Rest(t) == Front(stack[t])
Replace(t, frame) == stack' = [stack EXCEPT ![t] = Append(Rest(t), frame)]
Goto(t, place) == Replace(t, [Top(t) EXCEPT !.at = place])
(* The import is over, with a module or an exception.                      *)
Pop(t) == stack' = [stack EXCEPT ![t] = Rest(t)]

Initializing(t) == <<Top(t).m, Top(t).mod>> \in initializing
Stale(t) == modules[Top(t).m] # Top(t).mod

-----------------------------------------------------------------------------
(* The import statement: PyImport_ImportModuleLevelObject *)

(* A thread's own code or the body of a module imports m: what does        *)
(* sys.modules have?                                                       *)
Import(t, m) ==
  /\ \/ stack[t] = << >> /\ m \in Wanted[t]
     \/ At(t, "body") /\ m \in Imports[Top(t).m]
  /\ LET place == IF modules[m] = 0 THEN "find" ELSE "ensure"
     IN  stack' = [stack EXCEPT ![t] =
                     Append(@, [m |-> m, mod |-> modules[m], at |-> place, purpose |-> "none"])]
  /\ UNCHANGED <<moduleVars, lockVars, searchVars>>

Acquire(t, purpose) == Replace(t, [Top(t) EXCEPT !.at = "enter", !.purpose = purpose])

(* import_ensure_initialized: wait for a load that is under way.           *)
Ensure(t) ==
  /\ At(t, "ensure")
  /\ IF Initializing(t) THEN Acquire(t, "ensure") ELSE Goto(t, "check")
  /\ UNCHANGED <<moduleVars, lockVars, searchVars>>

(* The module is returned, unless it has been removed or replaced.         *)
Check(t) ==
  /\ At(t, "check")
  /\ IF Stale(t) THEN Goto(t, "find") ELSE Pop(t)
  /\ UNCHANGED <<moduleVars, lockVars, searchVars>>

-----------------------------------------------------------------------------
(* _find_and_load *)

Find(t) ==
  /\ At(t, "find")
  /\ LET mod == modules[Top(t).m]
         found == [Top(t) EXCEPT !.mod = mod]
     IN  Replace(t, IF mod = 0 THEN [found EXCEPT !.at = "enter", !.purpose = "load"]
                    ELSE [found EXCEPT !.at = "examine"])
  /\ UNCHANGED <<moduleVars, lockVars, searchVars>>

(* Mutant: a module that was found is not waited for.                      *)
ExamineNothing(t) ==
  /\ At(t, "examine")
  /\ Goto(t, "recheck")
  /\ UNCHANGED <<moduleVars, lockVars, searchVars>>

Examine(t) ==
  /\ At(t, "examine")
  /\ IF Initializing(t) THEN Acquire(t, "load") ELSE Goto(t, "recheck")
  /\ UNCHANGED <<moduleVars, lockVars, searchVars>>

Recheck(t) ==
  /\ At(t, "recheck")
  /\ IF Stale(t) THEN Goto(t, "find") ELSE Pop(t)
  /\ UNCHANGED <<moduleVars, lockVars, searchVars>>

(* With the lock: load the module unless another thread has, or this       *)
(* thread, in a circle of imports, is about to.                            *)
Load(t) ==
  /\ At(t, "got")
  /\ LET m == Top(t).m
     IN  \/ /\ Top(t).purpose = "load" /\ modules[m] = 0
            /\ loads' = [loads EXCEPT ![m] = @ + 1]
            /\ modules' = [modules EXCEPT ![m] = loads'[m]]
            /\ initializing' = initializing \union {<<m, loads'[m]>>}
            /\ Replace(t, [Top(t) EXCEPT !.mod = loads'[m], !.at = "body"])
         \/ /\ Top(t).purpose = "load" /\ modules[m] # 0
            /\ Replace(t, [Top(t) EXCEPT !.mod = modules[m], !.at = "release", !.purpose = "found"])
            /\ UNCHANGED moduleVars
         \/ /\ Top(t).purpose # "load"
            /\ Goto(t, "release")
            /\ UNCHANGED moduleVars
  /\ UNCHANGED <<lockVars, searchVars>>

(* The body ends: the module is moved to the end of sys.modules.           *)
Finish(t) ==
  /\ At(t, "body")
  /\ modules' = [modules EXCEPT ![Top(t).m] = 0]
  /\ Goto(t, "put")
  /\ UNCHANGED <<loads, initializing, lockVars, searchVars>>

Put(t) ==
  /\ At(t, "put")
  /\ modules' = [modules EXCEPT ![Top(t).m] = Top(t).mod]
  /\ Goto(t, "clear")
  /\ UNCHANGED <<loads, initializing, lockVars, searchVars>>

(* The body raises, and the module is removed.                             *)
Fail(t) ==
  /\ At(t, "body") /\ loads[Top(t).m] < MaxLoads[Top(t).m]
  /\ modules' = [modules EXCEPT ![Top(t).m] = 0]
  /\ Goto(t, "clear")
  /\ UNCHANGED <<loads, initializing, lockVars, searchVars>>

Clear(t) ==
  /\ At(t, "clear")
  /\ initializing' = initializing \ {<<Top(t).m, Top(t).mod>>}
  /\ Goto(t, "release")
  /\ UNCHANGED <<modules, loads, lockVars, searchVars>>

-----------------------------------------------------------------------------
(* _ModuleLock *)

(* The lock's own RLock is held by a search.                               *)
Guarded(m) == \E t \in Threads : (At(t, "search") \/ At(t, "peek")) /\ Top(t).m = m

(* Mutant: a thread registers once its search has found no deadlock.       *)
BlockingOnLate(t) == IF At(t, "wait") \/ At(t, "pass") THEN Top(t).m ELSE NULL

(* _blocking_on: the lock that a thread acquires, from the call on.        *)
BlockingOn(t) == IF stack[t] # << >> /\ Top(t).at \in Acquiring THEN Top(t).m ELSE NULL

(* Mutant: an acquisition of our own lock is not counted.                  *)
EnterUncounted(t) ==
  /\ At(t, "enter")
  /\ ~ Guarded(Top(t).m)
  /\ LET m == Top(t).m
     IN  \/ /\ count[m] = 0 \/ owner[m] = t
            /\ owner' = [owner EXCEPT ![m] = t]
            /\ count' = [count EXCEPT ![m] = 1]
            /\ Goto(t, "got")
            /\ UNCHANGED searchVars
         \/ /\ count[m] > 0 /\ owner[m] # t
            /\ candidate' = [candidate EXCEPT ![t] = owner[m]]
            /\ Goto(t, "search")
            /\ UNCHANGED <<owner, count, seen>>
  /\ UNCHANGED <<moduleVars, waiters, wakeup>>

(* Free, or our own: take it.  Otherwise look for a circle of threads.     *)
Enter(t) ==
  /\ At(t, "enter")
  /\ ~ Guarded(Top(t).m)
  /\ LET m == Top(t).m
     IN  \/ /\ count[m] = 0 \/ owner[m] = t
            /\ owner' = [owner EXCEPT ![m] = t]
            /\ count' = [count EXCEPT ![m] = @ + 1]
            /\ Goto(t, "got")
            /\ UNCHANGED searchVars
         \/ /\ count[m] > 0 /\ owner[m] # t
            /\ candidate' = [candidate EXCEPT ![t] = owner[m]]
            /\ Goto(t, "search")
            /\ UNCHANGED <<owner, count, seen>>
  /\ UNCHANGED <<moduleVars, waiters, wakeup>>

EndSearch(t) ==
  /\ candidate' = [candidate EXCEPT ![t] = NULL]
  /\ seen' = [seen EXCEPT ![t] = {}]

(* _has_deadlocked, one candidate at a time: its list of locks is read,    *)
(* then their owners.                                                      *)
Follow(t) ==
  /\ At(t, "search")
  /\ candidate[t] \in Threads \ (seen[t] \union {t})
  /\ BlockingOn(candidate[t]) # NULL
  /\ seen' = [seen EXCEPT ![t] = @ \union {candidate[t]}]
  /\ Goto(t, "peek")
  /\ UNCHANGED <<moduleVars, lockVars, candidate>>

Peek(t) ==
  /\ At(t, "peek")
  /\ LET m == BlockingOn(candidate[t])
     IN  candidate' = [candidate EXCEPT ![t] = IF m = NULL THEN NULL ELSE owner[m]]
  /\ Goto(t, "search")
  /\ UNCHANGED <<moduleVars, lockVars, seen>>

(* _DeadlockError: fails the import, unless it only wanted to wait, which  *)
(* accepts a partially initialised module.                                 *)
Deadlock(t) ==
  /\ At(t, "search")
  /\ candidate[t] = t
  /\ IF Top(t).purpose = "ensure" THEN Goto(t, "check") ELSE Pop(t)
  /\ EndSearch(t)
  /\ UNCHANGED <<moduleVars, lockVars>>

NoDeadlock(t) ==
  /\ At(t, "search")
  /\ candidate[t] # t
  /\ \/ candidate[t] \in seen[t] \union {NULL}
     \/ candidate[t] \notin seen[t] \union {NULL} /\ BlockingOn(candidate[t]) = NULL
  /\ EndSearch(t)

(* Mutant: every thread that will wait is counted.                         *)
QueueUpAlways(t) ==
  /\ NoDeadlock(t)
  /\ LET m == Top(t).m
     IN  /\ wakeup' = [wakeup EXCEPT ![m] = TRUE]
         /\ waiters' = [waiters EXCEPT ![m] = @ + 1]
  /\ Goto(t, "wait")
  /\ UNCHANGED <<moduleVars, owner, count>>

(* wakeup is taken so that the next acquire blocks.                        *)
QueueUp(t) ==
  /\ NoDeadlock(t)
  /\ LET m == Top(t).m
     IN  IF wakeup[m] THEN UNCHANGED <<wakeup, waiters>>
         ELSE /\ wakeup' = [wakeup EXCEPT ![m] = TRUE]
              /\ waiters' = [waiters EXCEPT ![m] = @ + 1]
  /\ Goto(t, "wait")
  /\ UNCHANGED <<moduleVars, owner, count>>

WakeupAcquire(t) ==
  /\ At(t, "wait")
  /\ ~ wakeup[Top(t).m]
  /\ wakeup' = [wakeup EXCEPT ![Top(t).m] = TRUE]
  /\ Goto(t, "pass")
  /\ UNCHANGED <<moduleVars, owner, count, waiters, searchVars>>

WakeupRelease(t) ==
  /\ At(t, "pass")
  /\ wakeup' = [wakeup EXCEPT ![Top(t).m] = FALSE]
  /\ Goto(t, "enter")
  /\ UNCHANGED <<moduleVars, owner, count, waiters, searchVars>>

(* Where an import goes on without the lock.                               *)
AfterRelease(t) ==
  CASE Top(t).purpose = "ensure" -> Goto(t, "check")
    [] Top(t).purpose = "found" -> Acquire(t, "find")
    [] OTHER -> Pop(t)

Release(t) ==
  /\ At(t, "release")
  /\ ~ Guarded(Top(t).m)
  /\ LET m == Top(t).m
     IN  /\ count' = [count EXCEPT ![m] = @ - 1]
         /\ IF count[m] > 1 THEN UNCHANGED <<owner, waiters, wakeup>>
            ELSE /\ owner' = [owner EXCEPT ![m] = NULL]
                 /\ IF waiters[m] = 0 THEN UNCHANGED <<waiters, wakeup>>
                    ELSE /\ waiters' = [waiters EXCEPT ![m] = @ - 1]
                         /\ wakeup' = [wakeup EXCEPT ![m] = FALSE]
  /\ AfterRelease(t)
  /\ UNCHANGED <<moduleVars, searchVars>>

-----------------------------------------------------------------------------
Step(t) ==
  \/ Ensure(t) \/ Check(t) \/ Find(t) \/ Examine(t) \/ Recheck(t) \/ Load(t)
  \/ Finish(t) \/ Put(t) \/ Fail(t) \/ Clear(t)
  \/ Enter(t) \/ Follow(t) \/ Peek(t) \/ Deadlock(t) \/ QueueUp(t)
  \/ WakeupAcquire(t) \/ WakeupRelease(t) \/ Release(t)

Next == \E t \in Threads : Step(t) \/ \E m \in Modules : Import(t, m)

Spec == Init /\ [][Next]_vars

(* Threads run and bodies end; wakeup and a module lock's own RLock are    *)
(* built on PyMutex, which starves nobody.                                 *)
FairSpec ==
  Spec /\ \A t \in Threads :
            WF_vars(Step(t)) /\ SF_vars(Enter(t) \/ WakeupAcquire(t) \/ Release(t))

-----------------------------------------------------------------------------
(* Properties *)

(* The imports of t that are about m and at one of the places; all imports *)
(* that load m, and the loads of m that are marked as under way.           *)
Frames(t, m, places) ==
  {i \in DOMAIN stack[t] : stack[t][i].m = m /\ stack[t][i].at \in places}
Loaders(m) == UNION {{t} \X Frames(t, m, Loading) : t \in Threads}
Marked(m) == {load \in initializing : load[1] = m}

(* A module lock belongs to one thread, as often as imports of this thread *)
(* hold it; and a module is only ever loaded by one import at a time: the  *)
(* owner's, circles of imports and failed loads included.                  *)
OneLoader ==
  \A m \in Modules :
    /\ \A t \in Threads :
         Cardinality(Frames(t, m, Holding)) = IF owner[m] = t THEN count[m] ELSE 0
    /\ owner[m] = NULL <=> count[m] = 0
    /\ Cardinality(Loaders(m)) = Cardinality(Marked(m))
    /\ Cardinality(Loaders(m)) <= 1

(* The threads that wait for m's lock, and those that pass the wakeup on.  *)
Waiting(m) == {t \in Threads : At(t, "wait") /\ Top(t).m = m}
Passing(m) == {t \in Threads : At(t, "pass") /\ Top(t).m = m}

(* waiters counts one of the waiting threads, and wakeup is locked then or *)
(* while a thread passes it on: who waits for a module lock is woken by    *)
(* its owner's release, or is about to be woken by another waiter.         *)
WaitersWoken ==
  \A m \in Modules :
    /\ wakeup[m] <=> waiters[m] + Cardinality(Passing(m)) = 1
    /\ ~ wakeup[m] <=> waiters[m] = 0 /\ Passing(m) = {}
    /\ Waiting(m) # {} /\ waiters[m] > 0 => count[m] > 0

(* Threads never wait for each other in a circle: the last of them to look *)
(* for a deadlock finds it, although it looks at one thread at a time and  *)
(* the others move on meanwhile (the comments of has_deadlock and of bpo   *)
(* 38091 in _has_deadlocked).                                              *)
NoCircleOfWaits ==
  \A S \in (SUBSET Threads) \ {{}} :
    \E t \in S : At(t, "wait") => owner[Top(t).m] \notin S

(* The body of module m may import n, itself or through others.            *)
Reaches(m, n) ==
  \A S \in SUBSET Modules :
    Imports[m] \subseteq S /\ (\A k \in S : Imports[k] \subseteq S) => n \in S

(* An import gives a module that is not completely initialised only in a   *)
(* circle of imports: one that imports what this thread is loading         *)
(* (_lock_unlock_module: "ensure a module is completely initialized",      *)
(* "Concurrent circular import, we'll accept a partially initialized       *)
(* module object").                                                        *)
PartialOnlyInCircles ==
  [][\A t \in Threads :
       Len(stack'[t]) < Len(stack[t]) /\ Initializing(t)
         /\ ~ (At(t, "search") /\ Top(t).purpose = "load") =>
       \E i \in 1 .. Len(stack[t]) - 1 :
         LET n == stack[t][i].m
         IN  Top(t).m = n \/ Reaches(Top(t).m, n)]_vars

(* For whose lock each thread waits, and which modules are being loaded.   *)
Waits == [t \in Threads |-> IF At(t, "wait") THEN Top(t).m ELSE NULL]
LoadsOf == {m \in Modules : Marked(m) # {}}

Locks == INSTANCE ModuleLocksSpec WITH depth <- count, waits <- Waits, loading <- LoadsOf

(* Counts, wakeups that are passed on, and searches that look at one       *)
(* thread at a time implement locks that their owners may take again, for  *)
(* which threads never wait in a circle, around one load at a time.        *)
ImplementsLocks == Locks!Spec

-----------------------------------------------------------------------------
(* The inductive invariant of the safety properties.                       *)

(* Only a body that runs imports other modules.                            *)
BodiesInv ==
  \A t \in Threads : \A i \in 1 .. Len(stack[t]) - 1 : stack[t][i].at = "body"

(* The imports of t that hold m's lock are as many as its count says.      *)
HoldInv ==
  \A m \in Modules :
    /\ \A t \in Threads :
         Cardinality(Frames(t, m, Holding)) = IF owner[m] = t THEN count[m] ELSE 0
    /\ owner[m] = NULL <=> count[m] = 0

(* A load is marked from its beginning to its end, and sys.modules has the *)
(* module while its body runs; no module has two loads.                    *)
LoadInv ==
  /\ \A t \in Threads : \A i \in DOMAIN stack[t] :
       LET f == stack[t][i]
       IN  /\ f.at \in Loading => <<f.m, f.mod>> \in initializing
           /\ f.at = "body" => modules[f.m] = f.mod /\ f.mod # 0
  /\ \A load \in initializing : \E t \in Threads : \E i \in Frames(t, load[1], Loading) :
       stack[t][i].mod = load[2]
  /\ \A m \in Modules : \A t \in Threads, u \in Threads :
       \A i \in Frames(t, m, Loading), j \in Frames(u, m, Loading) : t = u /\ i = j

Searching(t) == At(t, "search") \/ At(t, "peek")

(* While a thread searches, it keeps the lock it wants from being released.*)
SearchInv ==
  \A t \in Threads :
    /\ IF Searching(t) THEN count[Top(t).m] > 0 ELSE seen[t] = {}
    /\ At(t, "peek") => candidate[t] \in Threads

(* The wakeup of a module lock: free, for one waiter, or being passed on.  *)
WakeupInv ==
  \A m \in Modules :
    /\ \/ ~ wakeup[m] /\ waiters[m] = 0 /\ Passing(m) = {}
       \/ wakeup[m] /\ waiters[m] = 1 /\ Passing(m) = {}
       \/ wakeup[m] /\ waiters[m] = 0 /\ \E t \in Threads : Passing(m) = {t}
    /\ waiters[m] > 0 => count[m] > 0

(* The thread for whose lock t searches or waits, and sets of threads that *)
(* are all held up by others of them.                                      *)
HeldUpBy(t) == owner[Top(t).m]
Blocked(t) == Searching(t) \/ At(t, "wait")
Circular(S) == S # {} /\ \A t \in S : Blocked(t) /\ HeldUpBy(t) \in S

(* The search of t, which is in such a set, is going to come back to t: it *)
(* is on a way to t that it has not seen yet, measured by d.               *)
Finds(t, S) ==
  \E Z \in SUBSET S : \E d \in [Z -> SUBSET Threads] :
    /\ t \in Z /\ Z \intersect seen[t] = {}
    /\ \A u \in Z \ {t} :
         /\ HeldUpBy(u) \in Z
         /\ d[HeldUpBy(u)] \subseteq d[u] /\ d[HeldUpBy(u)] # d[u]
    /\ \/ At(t, "search") /\ candidate[t] \in Z
       \/ At(t, "peek") /\ candidate[t] \in S /\ HeldUpBy(candidate[t]) \in Z

CircleInv == \A S \in SUBSET Threads : Circular(S) => \E t \in S : Finds(t, S)

Inv ==
  /\ TypeOK /\ BodiesInv /\ HoldInv /\ LoadInv
  /\ SearchInv /\ WakeupInv /\ CircleInv
=============================================================================
