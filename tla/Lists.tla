------------------------------- MODULE Lists -------------------------------
(***************************************************************************)
(* The linked lists of the code, as sequences: unlinking every element     *)
(* that is not wanted, the others staying in their order.                  *)
(***************************************************************************)
EXTENDS Sequences, Integers

(* The elements of s that are in T.  A recursive function, where SelectSeq *)
(* has no definition that a proof can expand.                              *)
Keep(s, T) ==
  LET kept[i \in 0..Len(s)] ==
        IF i = 0 THEN <<>>
        ELSE IF s[i] \in T THEN Append(kept[i - 1], s[i]) ELSE kept[i - 1]
  IN kept[Len(s)]
=============================================================================
