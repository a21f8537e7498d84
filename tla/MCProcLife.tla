---------------------------- MODULE MCProcLife ----------------------------
(* Constants of ProcLife for TLC.                                          *)
EXTENDS ProcLife, TLC

CONSTANTS p1, p2, p3

MCProc3 == {p1, p2, p3}
Symmetry3 == Permutations(MCProc3 \ {p1})
=============================================================================
