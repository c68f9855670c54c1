--------------------------- MODULE PrimitivesSpec ---------------------------
(***************************************************************************)
(* What events, once flags, readers-writer mutexes and recursive mutexes   *)
(* promise to the threads that call them (the functions of Python/lock.c   *)
(* as their callers see them).  An event is set for good; the function of  *)
(* a once flag succeeds once, and nobody returns from the flag before; a   *)
(* writer is alone; and a recursive mutex is left when it has been         *)
(* unlocked as often as locked, or given up in the middle and taken back   *)
(* with all its levels.                                                    *)
(***************************************************************************)
EXTENDS Naturals

CONSTANTS Threads, Events, Onces, RWs, Recursives, NULL

VARIABLES
  call,      \* the call a thread is in, or NULL
  inside,    \* the threads that have entered what they called
  depth,     \* how often a thread has locked its recursive mutex
  settled    \* the events that are set and the once flags that are done

vars == <<call, inside, depth, settled>>

Calls ==
       [at : Events, function : {"PyEvent_Wait", "PyEvent_WaitTimed"}]
  \union [at : Onces, function : {"CallOnce"}]
  \union [at : RWs, function : {"RLock", "Lock"}]
  \union [at : Recursives, function : {"Recursive"}]

Init ==
  /\ call = [t \in Threads |-> NULL]
  /\ inside = {}
  /\ depth = [t \in Threads |-> 0]
  /\ settled = {}

Begin(t, c) ==
  /\ call[t] = NULL
  /\ call' = [call EXCEPT ![t] = c]
  /\ depth' = [depth EXCEPT ![t] = IF c.function = "Recursive" THEN 1 ELSE 0]
  /\ UNCHANGED <<inside, settled>>

(* Who else may be there when t enters.                                    *)
Compatible(t, u) == call[t].function = "RLock" /\ call[u].function = "RLock"

Enter(t) ==
  /\ call[t] \in Calls /\ call[t].at \notin Events \union settled
  /\ \A u \in inside : call[u].at = call[t].at => u # t /\ Compatible(t, u)
  /\ inside' = inside \union {t}
  /\ UNCHANGED <<call, depth, settled>>

(* Nothing is left to wait for, or the time is over.                       *)
Return(t) ==
  /\ call[t] \in Calls
  /\ call[t].at \in settled \/ call[t].function = "PyEvent_WaitTimed"
  /\ call' = [call EXCEPT ![t] = NULL]
  /\ UNCHANGED <<inside, depth, settled>>

(* The last unlock, or the end of a once function, which has succeeded or  *)
(* has not.                                                                *)
Leave(t) ==
  /\ t \in inside /\ depth[t] < 2
  /\ inside' = inside \ {t}
  /\ call' = [call EXCEPT ![t] = NULL]
  /\ depth' = [depth EXCEPT ![t] = 0]
  /\ \/ UNCHANGED settled
     \/ call[t].function = "CallOnce" /\ settled' = settled \union {call[t].at}

(* An inner lock of the owner, or its unlock.                              *)
Nest(t) ==
  /\ t \in inside /\ call[t].function = "Recursive"
  /\ \/ depth' = [depth EXCEPT ![t] = @ + 1]
     \/ depth[t] > 1 /\ depth' = [depth EXCEPT ![t] = @ - 1]
  /\ UNCHANGED <<call, inside, settled>>

(* _release_save: the thread wants its mutex back at once.                 *)
GiveUpAll(t) ==
  /\ t \in inside /\ call[t].function = "Recursive"
  /\ inside' = inside \ {t}
  /\ UNCHANGED <<call, depth, settled>>

Notify(e) == settled' = settled \union {e} /\ UNCHANGED <<call, inside, depth>>

Next ==
  \/ \E t \in Threads :
       \/ \E c \in Calls : Begin(t, c)
       \/ Enter(t) \/ Return(t) \/ Leave(t) \/ Nest(t) \/ GiveUpAll(t)
  \/ \E e \in Events : Notify(e)

Spec == Init /\ [][Next]_vars
=============================================================================
