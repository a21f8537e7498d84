----------------------------- MODULE LockQueue -----------------------------
(***************************************************************************)
(* What the two locks of sys/src/9/port/qlock.c have in common: a spin     *)
(* lock "use" that protects their fields, the linked list head..tail       *)
(* through Proc.qnext of the processes that wait, which is the sequence    *)
(* "queue", and a release that readies a process after it dropped "use".   *)
(***************************************************************************)
EXTENDS Sched, Sequences, Integers

CONSTANT NoProc        \* nil

ASSUME NoProcAssumption == NoProc \notin Proc

VARIABLES
  use,                 \* the holder of the spin lock
  queue,               \* head .. tail
  pc,                  \* where each process is
  next                 \* the release's local p: the process it must ready

Queued(p) == \E i \in DOMAIN queue : queue[i] = p

Goto(p, l) == pc' = [pc EXCEPT ![p] = l]
At(p, l) == pc[p] = l /\ Executing(p)
=============================================================================
