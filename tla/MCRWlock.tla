------------------------------ MODULE MCRWlock ------------------------------
(* Constants of RWlock for TLC: three processes, so that two can queue.  *)
EXTENDS RWlock

CONSTANTS p1, p2, p3

MCProc == {p1, p2, p3}
=============================================================================
