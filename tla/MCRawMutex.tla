----------------------------- MODULE MCRawMutex -----------------------------
(* A small instance of RawMutex for TLC.                                   *)
EXTENDS RawMutex, TLC

CONSTANTS t1, t2, t3

MCThreads == {t1, t2, t3}
Symmetry == Permutations(MCThreads)
=============================================================================
