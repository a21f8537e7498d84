------------------------------ MODULE MCTsleep ------------------------------
(* Constants of Tsleep for TLC.                                            *)
EXTENDS Tsleep

CONSTANTS p1, p2, r1, r2, c1, c2

MCProc == {p1, p2}
MCProc1 == {p1}
MCRendez == {r1, r2}
MCCpu == {c1, c2}
=============================================================================
