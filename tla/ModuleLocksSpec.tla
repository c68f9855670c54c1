-------------------------- MODULE ModuleLocksSpec ---------------------------
(***************************************************************************)
(* What the module locks promise to the import system (_ModuleLock, as     *)
(* _find_and_load and the import statement see it): a lock that its owner  *)
(* may take again, threads that never wait for each other in a circle, and *)
(* one load of a module at a time, under its lock.                         *)
(***************************************************************************)
EXTENDS Naturals

CONSTANTS Threads, Modules, NULL

VARIABLES
  owner,      \* of each module's lock
  depth,      \* how often the owner has it
  waits,      \* the module for whose lock each thread waits
  loading     \* the modules that are being loaded

vars == <<owner, depth, waits, loading>>

Init ==
  /\ owner = [m \in Modules |-> NULL]
  /\ depth = [m \in Modules |-> 0]
  /\ waits = [t \in Threads |-> NULL]
  /\ loading = {}

(* All threads of S wait for locks that are theirs.                        *)
Circle(S) == \A t \in S : waits[t] # NULL /\ owner[waits[t]] \in S
NoCircle == \A S \in (SUBSET Threads) \ {{}} : ~ Circle(S)

Acquire(t, m) ==
  /\ waits[t] = NULL
  /\ owner[m] \in {t, NULL}
  /\ owner' = [owner EXCEPT ![m] = t]
  /\ depth' = [depth EXCEPT ![m] = @ + 1]
  /\ UNCHANGED <<waits, loading>>

(* A thread begins to wait, unless it would close a circle.                *)
Wait(t, m) ==
  /\ waits[t] = NULL
  /\ owner[m] # NULL
  /\ waits' = [waits EXCEPT ![t] = m]
  /\ NoCircle'
  /\ UNCHANGED <<owner, depth, loading>>

Wake(t) ==
  /\ waits[t] # NULL
  /\ waits' = [waits EXCEPT ![t] = NULL]
  /\ UNCHANGED <<owner, depth, loading>>

Begin(t, m) ==
  /\ owner[m] = t /\ m \notin loading
  /\ loading' = loading \union {m}
  /\ UNCHANGED <<owner, depth, waits>>

End(t, m) ==
  /\ owner[m] = t /\ m \in loading
  /\ loading' = loading \ {m}
  /\ UNCHANGED <<owner, depth, waits>>

(* Who gives the lock up has ended the load.                               *)
Release(t, m) ==
  /\ owner[m] = t /\ waits[t] = NULL
  /\ depth' = [depth EXCEPT ![m] = @ - 1]
  /\ IF depth[m] > 1 THEN UNCHANGED owner
     ELSE m \notin loading /\ owner' = [owner EXCEPT ![m] = NULL]
  /\ UNCHANGED <<waits, loading>>

Next ==
  \E t \in Threads :
    \/ Wake(t)
    \/ \E m \in Modules :
         Acquire(t, m) \/ Wait(t, m) \/ Begin(t, m) \/ End(t, m) \/ Release(t, m)

Spec == Init /\ [][Next]_vars
=============================================================================
