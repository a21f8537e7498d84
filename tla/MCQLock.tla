------------------------------ MODULE MCQLock ------------------------------
(* Constants of QLock for TLC: three processes, so that two can be queued. *)
EXTENDS QLock

CONSTANTS p1, p2, p3

MCProc == {p1, p2, p3}
=============================================================================
