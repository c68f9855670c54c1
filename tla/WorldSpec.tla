----------------------------- MODULE WorldSpec ------------------------------
(***************************************************************************)
(* What attaching and stopping the world promise to the code of the        *)
(* interpreter (Python/pystate.c as its callers see it): who is attached   *)
(* may touch objects; a thread that has stopped a world is the only one    *)
(* attached of the threads concerned until it starts that world again; and *)
(* a thread that finalization has removed never comes back.                *)
(***************************************************************************)
CONSTANTS
  Threads,
  Interp,     \* the interpreter of each thread
  Stops,      \* the interpreters, and
  GLOBAL,     \* the stop of all of them
  NULL

VARIABLES
  attached,    \* the threads that run with their thread state
  stopper,     \* who has stopped the world, of each stop
  removed      \* the threads that have to hang when they come back

vars == <<attached, stopper, removed>>

Init ==
  /\ attached = {}
  /\ stopper = [s \in Stops |-> NULL]
  /\ removed = {}

Concerns(s, t) == s = GLOBAL \/ Interp[t] = s
Stopped(t) == \E s \in Stops : stopper[s] # NULL /\ Concerns(s, t)
HasStopped(t) == \E s \in Stops : stopper[s] = t

Attach(t) ==
  /\ ~ Stopped(t) /\ t \notin removed
  /\ attached' = attached \union {t}
  /\ UNCHANGED <<stopper, removed>>

Detach(t) ==
  /\ t \in attached /\ ~ HasStopped(t)
  /\ attached' = attached \ {t}
  /\ UNCHANGED <<stopper, removed>>

Stop(t, s) ==
  /\ t \in attached /\ ~ HasStopped(t) /\ stopper[s] = NULL
  /\ \A u \in attached : Concerns(s, u) => u = t
  /\ stopper' = [stopper EXCEPT ![s] = t]
  /\ UNCHANGED <<attached, removed>>

(* The finalizing thread removes all others of its interpreter.            *)
Remove(t, others) ==
  /\ stopper[GLOBAL] = t /\ t \notin others
  /\ removed' = removed \union others
  /\ UNCHANGED <<attached, stopper>>

Start(t, s) ==
  /\ stopper[s] = t
  /\ stopper' = [stopper EXCEPT ![s] = NULL]
  /\ UNCHANGED <<attached, removed>>

Next ==
  \E t \in Threads :
    \/ Attach(t) \/ Detach(t)
    \/ \E s \in Stops : Stop(t, s) \/ Start(t, s)
    \/ \E others \in SUBSET Threads : Remove(t, others)

Spec == Init /\ [][Next]_vars
=============================================================================
