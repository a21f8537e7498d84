--------------------------- MODULE MCSleepWakeup ---------------------------
(* Constants of SleepWakeup for TLC.                                       *)
EXTENDS SleepWakeup, TLC

CONSTANTS p1, p2, p3, r1, t1

MCProc == {p1, p2, p3}
MCTarget == {p1}
MCRendez == {r1}
MCTag == {t1}
Symmetry == Permutations(MCProc \ MCTarget)
=============================================================================
