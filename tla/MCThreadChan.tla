---------------------------- MODULE MCThreadChan ----------------------------
(* Constants of ThreadChan for TLC.                                        *)
EXTENDS ThreadChan, TLC

CONSTANTS t1, t2, t3, c1, c2

MCThread == {t1, t2, t3}
MCChan == {c1, c2}
MCSize == c1 :> 1 @@ c2 :> 0
(* Threads are interchangeable: a first call may as well be by the first   *)
(* thread that has made none.                                              *)
MCCaller == <<{t1}, {t1, t2}, MCThread>>

e(op, c) == [op |-> op, c |-> c]
MCArrays ==
  {<<e("RCV", c1)>>, <<e("SND", c2), e("RCV", c1)>>,
   <<e("RCV", c2), e("SND", c1)>>}
MCTwice == MCArrays \cup {<<e("SND", c2), e("RCV", c2)>>}
=============================================================================
