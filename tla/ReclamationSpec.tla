-------------------------- MODULE ReclamationSpec ---------------------------
(***************************************************************************)
(* What quiescent-state based reclamation promises to the code that reads  *)
(* shared data without a lock (Include/internal/pycore_qsbr.h and          *)
(* _PyMem_FreeDelayed, as their callers see them): what was replaced is    *)
(* garbage, and only garbage that nobody holds any more is freed.          *)
(***************************************************************************)
CONSTANTS
  Threads,
  Nodes,      \* blocks of memory
  NULL

VARIABLES
  current,    \* the node that readers find
  garbage,    \* nodes that were replaced and are not freed yet
  held        \* the node that each thread has read and may use

vars == <<current, garbage, held>>

Init ==
  /\ current \in Nodes
  /\ garbage = {}
  /\ held = [t \in Threads |-> NULL]

Read(t) ==
  /\ held[t] = NULL
  /\ held' = [held EXCEPT ![t] = current]
  /\ UNCHANGED <<current, garbage>>

Drop(t) ==
  /\ held[t] # NULL
  /\ held' = [held EXCEPT ![t] = NULL]
  /\ UNCHANGED <<current, garbage>>

(* The new node is memory that is free.                                    *)
Replace(node) ==
  /\ node \notin garbage \union {current}
  /\ current' = node
  /\ garbage' = garbage \union {current}
  /\ UNCHANGED held

Free(nodes) ==
  /\ \A t \in Threads : held[t] \notin nodes
  /\ garbage' = garbage \ nodes
  /\ UNCHANGED <<current, held>>

Next ==
  \/ \E t \in Threads : Read(t) \/ Drop(t)
  \/ \E node \in Nodes : Replace(node)
  \/ \E nodes \in SUBSET garbage : Free(nodes)

Spec == Init /\ [][Next]_vars
=============================================================================
