--------------------------- MODULE MCImportLocks ----------------------------
(* Small instances of ImportLocks for TLC.                                 *)
EXTENDS ImportLocks, TLC

CONSTANTS t1, t2, t3, a, b, c

(* a and b import each other; c imports a, and nothing imports c.          *)
Circle == (a :> {b}) @@ (b :> {a}) @@ (c :> {a})

(* Three threads enter the circle at different places.                     *)
Ends == [t \in Threads |-> CASE t = t1 -> {a} [] t = t2 -> {b} [] t = t3 -> {c}]

(* No circle: c imports b, b imports a.                                    *)
Chain == (a :> {}) @@ (b :> {a}) @@ (c :> {b})

Heads == [t \in Threads |-> CASE t = t1 -> {a, c} [] t = t2 -> {b} [] t = t3 -> {c}]

(* Loading a may fail once.                                                *)
FailOnce == [m \in Modules |-> IF m = a THEN 2 ELSE 1]
LoadOnce == [m \in Modules |-> 1]

=============================================================================
