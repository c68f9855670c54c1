---------------------------- MODULE RawMutexSpec ----------------------------
(***************************************************************************)
(* What a _PyRawMutex promises to the threads that lock it (its functions  *)
(* in Python/lock.c as their callers see them): one owner; the threads     *)
(* that sleep wait on a stack, the last one on top; and every unlock that  *)
(* finds the stack full wakes the top of it, which then contends for the   *)
(* mutex again with everybody who is awake.                                *)
(***************************************************************************)
EXTENDS Naturals, Sequences

CONSTANTS Threads, NULL

VARIABLES
  owner,      \* the thread that owns the mutex, or NULL
  waiters,    \* the stack of the threads that sleep
  awake       \* the threads that want the mutex and do not sleep

vars == <<owner, waiters, awake>>

Init ==
  /\ owner = NULL
  /\ waiters = << >>
  /\ awake = {}

Asleep(t) == \E i \in 1 .. Len(waiters) : waiters[i] = t
Away(t) == t # owner /\ t \notin awake /\ ~ Asleep(t)

Ask(t) ==
  /\ Away(t)
  /\ awake' = awake \union {t}
  /\ UNCHANGED <<owner, waiters>>

(* Only a thread that is awake already overtakes the waiters.              *)
Take(t) ==
  /\ owner = NULL
  /\ t \in awake \/ (Away(t) /\ waiters = << >>)
  /\ owner' = t
  /\ awake' = awake \ {t}
  /\ UNCHANGED waiters

Sleep(t) ==
  /\ t \in awake /\ owner # NULL
  /\ waiters' = <<t>> \o waiters
  /\ awake' = awake \ {t}
  /\ UNCHANGED owner

Release(t) ==
  /\ owner = t
  /\ owner' = NULL
  /\ \/ waiters = << >> /\ UNCHANGED <<waiters, awake>>
     \/ /\ waiters # << >>
        /\ waiters' = Tail(waiters)
        /\ awake' = awake \union {Head(waiters)}

Next == \E t \in Threads : Ask(t) \/ Take(t) \/ Sleep(t) \/ Release(t)

Spec == Init /\ [][Next]_vars
=============================================================================
