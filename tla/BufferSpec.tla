------------------------------ MODULE BufferSpec ------------------------------
(***************************************************************************)
(* What queue.Queue (Lib/queue.py) promises: calls that are answered as if *)
(* by one step each, that wait only for what is not there, and a join()    *)
(* that returns when nothing is left to do.  Conditions, notifications and *)
(* the count of unfinished tasks do not occur.                             *)
(***************************************************************************)
EXTENDS Naturals

CONSTANTS Threads, Calls, NoCall, size

VARIABLES
  items,      \* how many there are
  working,    \* the threads that have got one and are not done with it
  closed,
  waits       \* the call in which a thread waits

vars == <<items, working, closed, waits>>

Init ==
  /\ items = 0 /\ working = {} /\ closed = FALSE
  /\ waits = [t \in Threads |-> NoCall]

(* What a call waits for, and what makes it raise ShutDown.                *)
Ready(c) ==
  \/ c.method = "put" /\ items < size
  \/ c.method = "get" /\ items > 0
  \/ c.method = "join" /\ items = 0 /\ working = {}

Barred(c) == closed /\ (c.method = "put" \/ (c.method = "get" /\ ~ Ready(c)))

Calling(t, c) == waits[t] \in {NoCall, c}
Answered(t) == waits' = [waits EXCEPT ![t] = NoCall]

Put(t, c) ==
  /\ c.method = "put" /\ Ready(c) /\ ~ Barred(c)
  /\ items' = items + 1
  /\ Answered(t)
  /\ UNCHANGED <<working, closed>>

Get(t, c) ==
  /\ c.method = "get" /\ Ready(c) /\ t \notin working
  /\ items' = items - 1
  /\ working' = working \union {t}
  /\ Answered(t)
  /\ UNCHANGED closed

Join(t, c) ==
  /\ c.method = "join" /\ Ready(c)
  /\ Answered(t)
  /\ UNCHANGED <<items, working, closed>>

(* ShutDown; or Full and Empty, for a call that does not wait for ever.    *)
Raise(t, c) ==
  /\ Barred(c) \/ (~ Ready(c) /\ c.kind # "block")
  /\ Answered(t)
  /\ UNCHANGED <<items, working, closed>>

Wait(t, c) ==
  /\ ~ Ready(c) /\ ~ Barred(c) /\ c.kind # "now"
  /\ waits' = [waits EXCEPT ![t] = c]
  /\ UNCHANGED <<items, working, closed>>

Done(t) ==
  /\ waits[t] = NoCall /\ t \in working
  /\ working' = working \ {t}
  /\ UNCHANGED <<items, closed, waits>>

(* shutdown(): an immediate one takes all items out.                       *)
Close(t, immediate) ==
  /\ waits[t] = NoCall
  /\ closed' = TRUE
  /\ items' = IF immediate THEN 0 ELSE items
  /\ UNCHANGED <<working, waits>>

Next ==
  \E t \in Threads :
    \/ \E c \in Calls :
         Calling(t, c) /\ (Put(t, c) \/ Get(t, c) \/ Join(t, c) \/ Raise(t, c) \/ Wait(t, c))
    \/ Done(t)
    \/ \E immediate \in BOOLEAN : Close(t, immediate)

Spec == Init /\ [][Next]_vars
=============================================================================
