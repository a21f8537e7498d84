------------------------------- MODULE Sched -------------------------------
(***************************************************************************)
(* The part of the process scheduler (sys/src/9/port/proc.c) on which      *)
(* every blocking primitive of the kernel rests.                           *)
(*                                                                         *)
(* A process blocks in two moves: it writes a blocked state in its own     *)
(* Proc (Queueing, Wakeme, Rendezvous, ...) while it is still executing    *)
(* and later gives up its processor.  Whoever unblocks it calls ready(),   *)
(* possibly before the second move.  Proc.mach, non-nil while the process  *)
(* occupies a processor, keeps dequeueproc from running it twice.          *)
(*                                                                         *)
(* Priorities, run-queue order, affinity and the real-time scheduler are   *)
(* left out: any Ready process may run next.  A processor is not a         *)
(* resource here: every process may occupy one.                            *)
(***************************************************************************)
EXTENDS Procs

VARIABLES
  state,               \* Proc.state
  mach                 \* Proc.mach # nil: the process occupies a processor

schedvars == <<state, mach>>

(* statename[] of proc.c without the states no modelled operation enters.  *)
Blocked == {"Queueing", "QueueingR", "QueueingW", "Wakeme", "Rendezvous"}
ProcState == {"Running", "Ready"} \cup Blocked

SchedTypeOK ==
  /\ state \in [Proc -> ProcState]
  /\ mach \in [Proc -> BOOLEAN]

SchedInit ==
  /\ state = [p \in Proc |-> "Running"]
  /\ mach = [p \in Proc |-> TRUE]

Executing(p) == mach[p]

(* ready(p): onto the run queue, whatever p was doing.                     *)
ready(p) == state' = [state EXCEPT ![p] = "Ready"]

(* Mutant of sched: schedinit forgets to put a Running process back.       *)
schedDrops(p) == mach[p] /\ mach' = [mach EXCEPT ![p] = FALSE] /\ UNCHANGED state

(* sched(): off the processor through schedinit(), which puts a process    *)
(* that is still Running back on the run queue and leaves any other state  *)
(* alone, one written by a concurrent ready() included.                    *)
sched(p) ==
  /\ mach[p]
  /\ mach' = [mach EXCEPT ![p] = FALSE]
  /\ state' = [state EXCEPT ![p] = IF @ = "Running" THEN "Ready" ELSE @]

(* runproc() and the tail of sched(): dequeueproc refuses a process whose  *)
(* context is not saved yet (p->mach # nil).                               *)
runproc(p) ==
  /\ state[p] = "Ready"
  /\ ~mach[p]
  /\ state' = [state EXCEPT ![p] = "Running"]
  /\ mach' = [mach EXCEPT ![p] = TRUE]

(* A clock tick's sched(), preempted(), unlock() after a delayed sched: a   *)
(* process may lose its processor between any two steps, after it wrote a  *)
(* blocked state and before its own sched() too, unless it holds a spin    *)
(* lock or runs with interrupts off.                                       *)
preempt(p, delayed) ==
  /\ ~delayed
  /\ sched(p)

=============================================================================
