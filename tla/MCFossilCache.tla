--------------------------- MODULE MCFossilCache ---------------------------
(* Constants of FossilCache for TLC.                                       *)
EXTENDS FossilCache, TLC

CONSTANTS a1, a2, a3, a4, a5, a6

MCAddr4 == {a1, a2, a3, a4}
MCAddr5 == {a1, a2, a3, a4, a5}
MCAddr6 == {a1, a2, a3, a4, a5, a6}
MCSlot1 == {0}
MCSlot2 == {0, 1}

MCRoot == a1
Symmetry == Permutations(MCAddr6 \ {MCRoot})
=============================================================================
