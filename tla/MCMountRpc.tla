---------------------------- MODULE MCMountRpc ----------------------------
(* Constants of MountRpc for TLC.                                          *)
EXTENDS MountRpc, TLC

CONSTANTS p1, p2, p3, r1, r2, r3, r4, r5

MCProc == {p1, p2, p3}
MCRpc == {r1, r2, r3, r4, r5}
(* Processes are interchangeable: the one that makes a first call may as   *)
(* well be the first that has made none.                                   *)
MCCaller == <<{p1}, {p1, p2}, {p1, p2, p3}>>
=============================================================================
