------------------------------ MODULE FifoLock ------------------------------
(***************************************************************************)
(* What a queueing lock promises (qlock(9)): at most one holder, and the   *)
(* processes that had to wait get the lock in the order they came.  A      *)
(* release hands the lock to the first of them in the same step, so that a *)
(* newcomer cannot slip in between.                                        *)
(***************************************************************************)
EXTENDS Sequences

CONSTANTS Proc, NoProc

VARIABLES
  holder,              \* the process the lock belongs to, or NoProc
  waiting              \* the others that asked for it, oldest first

vars == <<holder, waiting>>

Init ==
  /\ holder = NoProc
  /\ waiting = <<>>

Take(p) ==
  /\ holder = NoProc
  /\ holder' = p
  /\ UNCHANGED waiting

Wait(p) ==
  /\ holder \notin {p, NoProc}
  /\ \A i \in DOMAIN waiting : waiting[i] # p
  /\ waiting' = Append(waiting, p)
  /\ UNCHANGED holder

Free ==
  /\ holder # NoProc
  /\ waiting = <<>>
  /\ holder' = NoProc
  /\ UNCHANGED waiting

Pass ==
  /\ waiting # <<>>
  /\ holder' = Head(waiting)
  /\ waiting' = Tail(waiting)

Next == Free \/ Pass \/ \E p \in Proc : Take(p) \/ Wait(p)

Spec == Init /\ [][Next]_vars

(* Holders release.                                                        *)
FairSpec == Spec /\ WF_vars(Free \/ Pass)
=============================================================================
