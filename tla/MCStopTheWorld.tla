--------------------------- MODULE MCStopTheWorld ---------------------------
(* Small instances of StopTheWorld for TLC.                                *)
EXTENDS StopTheWorld

CONSTANTS t1, t2, t3, i1, i2

(* Two threads of one interpreter, one of another; each stops its own      *)
(* interpreter, t1 also all of them.                                       *)
Home == [t \in Threads |-> IF t = t3 THEN i2 ELSE i1]
Asks == [t \in Threads |-> IF t = t1 THEN {i1, GLOBAL} ELSE {Home[t]}]
=============================================================================
