------------------------------- MODULE MCQSBR --------------------------------
(* A small instance of QSBR for TLC.                                       *)
EXTENDS QSBR

CONSTANTS t1, t2, n1, n2, n3

Symmetry == Permutations(Threads) \union Permutations(Nodes)
=============================================================================
