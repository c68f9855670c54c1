------------------------------ MODULE MCQueue --------------------------------
(* A small instance of Queue for TLC.                                      *)
EXTENDS Queue

CONSTANTS t1, t2, t3
=============================================================================
