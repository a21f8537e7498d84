------------------------------- MODULE QLock -------------------------------
(***************************************************************************)
(* qlock, canqlock and qunlock (sys/src/9/port/qlock.c): a queueing lock.  *)
(* The spin lock "use" protects the fields of the QLock; a contender       *)
(* writes Queueing in its Proc, links itself at the tail, drops "use" and  *)
(* calls sched().  qunlock passes the lock to the head of the queue        *)
(* without clearing "locked" and readies it after dropping "use".          *)
(***************************************************************************)
EXTENDS LockQueue

VARIABLE locked        \* QLock.locked

qvars == <<use, locked, queue>>
vars == <<state, mach, use, locked, queue, pc, next>>

(* out: outside; lock1, can1, unlock1: wanting "use" in qlock, canqlock    *)
(* and qunlock; lock2, unlock2: holding it; sched: linked on the queue,    *)
(* "use" dropped, still executing; asleep: off the processor; in: returned *)
(* from qlock; ready: in qunlock, "use" dropped, ready(next) to call.      *)
Label == {"out", "lock1", "lock2", "can1", "can2", "sched", "asleep", "in",
          "unlock1", "unlock2", "ready"}

TypeOK ==
  /\ SchedTypeOK
  /\ use \in Proc \cup {NoProc}
  /\ locked \in BOOLEAN
  /\ queue \in Seq(Proc)
  /\ pc \in [Proc -> Label]
  /\ next \in [Proc -> Proc \cup {NoProc}]

Init ==
  /\ SchedInit
  /\ use = NoProc
  /\ locked = FALSE
  /\ queue = <<>>
  /\ pc = [p \in Proc |-> "out"]
  /\ next = [p \in Proc |-> NoProc]

-----------------------------------------------------------------------------
(* The caller decides to take the lock, to try it, or to release it.       *)

Call(p) ==
  /\ At(p, "out")
  /\ \E l \in {"lock1", "can1"} : Goto(p, l)
  /\ UNCHANGED <<schedvars, qvars, next>>

CallUnlock(p) ==
  /\ At(p, "in")
  /\ Goto(p, "unlock1")
  /\ UNCHANGED <<schedvars, qvars, next>>

(* lock(&q->use)                                                           *)
Acquire(p, from, to) ==
  /\ At(p, from)
  /\ use = NoProc
  /\ use' = p
  /\ Goto(p, to)
  /\ UNCHANGED <<schedvars, locked, queue, next>>

QLockUse(p) == Acquire(p, "lock1", "lock2")
QUnlockUse(p) == Acquire(p, "unlock1", "unlock2")

(* qlock, the lock is free                                                 *)
QLockFree(p) ==
  /\ At(p, "lock2")
  /\ ~locked
  /\ locked' = TRUE
  /\ use' = NoProc
  /\ Goto(p, "in")
  /\ UNCHANGED <<schedvars, queue, next>>

(* Mutant of QLockQueue: link up at the head.                              *)
QLockPush(p) ==
  /\ At(p, "lock2")
  /\ locked
  /\ queue' = <<p>> \o queue
  /\ state' = [state EXCEPT ![p] = "Queueing"]
  /\ use' = NoProc
  /\ Goto(p, "sched")
  /\ UNCHANGED <<mach, locked, next>>

(* qlock, the lock is held: link up, become Queueing, drop "use"           *)
QLockQueue(p) ==
  /\ At(p, "lock2")
  /\ locked
  /\ queue' = Append(queue, p)
  /\ state' = [state EXCEPT ![p] = "Queueing"]
  /\ use' = NoProc
  /\ Goto(p, "sched")
  /\ UNCHANGED <<mach, locked, next>>

(* qlock's sched(): the process leaves its processor                       *)
QLockSched(p) ==
  /\ At(p, "sched")
  /\ sched(p)
  /\ Goto(p, "asleep")
  /\ UNCHANGED <<qvars, next>>

(* sched() returns in a process that was readied: qlock returns            *)
QLockReturn(p) ==
  /\ At(p, "asleep")
  /\ Goto(p, "in")
  /\ UNCHANGED <<schedvars, qvars, next>>

(* canqlock: canlock(&q->use) fails if anyone holds "use"                  *)
CanQLockUse(p) ==
  /\ At(p, "can1")
  /\ IF use = NoProc
       THEN use' = p /\ Goto(p, "can2")
       ELSE use' = use /\ Goto(p, "out")
  /\ UNCHANGED <<schedvars, locked, queue, next>>

CanQLockTry(p) ==
  /\ At(p, "can2")
  /\ locked' = TRUE
  /\ Goto(p, IF locked THEN "out" ELSE "in")
  /\ use' = NoProc
  /\ UNCHANGED <<schedvars, queue, next>>

(* Mutants of QUnlockPass: the lock is freed and not handed over; the head *)
(* stays linked.                                                           *)
QUnlockFrees(p) ==
  /\ At(p, "unlock2")
  /\ queue # <<>>
  /\ next' = [next EXCEPT ![p] = Head(queue)]
  /\ queue' = Tail(queue)
  /\ locked' = FALSE
  /\ use' = NoProc
  /\ Goto(p, "ready")
  /\ UNCHANGED schedvars

QUnlockKeepsHead(p) ==
  /\ At(p, "unlock2")
  /\ queue # <<>>
  /\ next' = [next EXCEPT ![p] = Head(queue)]
  /\ use' = NoProc
  /\ Goto(p, "ready")
  /\ UNCHANGED <<schedvars, locked, queue>>

(* qunlock, a process is waiting: unlink the head; "locked" stays set      *)
QUnlockPass(p) ==
  /\ At(p, "unlock2")
  /\ queue # <<>>
  /\ next' = [next EXCEPT ![p] = Head(queue)]
  /\ queue' = Tail(queue)
  /\ use' = NoProc
  /\ Goto(p, "ready")
  /\ UNCHANGED <<schedvars, locked>>

(* qunlock's ready(p), after "use" is dropped                              *)
QUnlockReady(p) ==
  /\ At(p, "ready")
  /\ ready(next[p])
  /\ next' = [next EXCEPT ![p] = NoProc]
  /\ Goto(p, "out")
  /\ UNCHANGED <<mach, qvars>>

(* qunlock, nobody is waiting                                              *)
QUnlockFree(p) ==
  /\ At(p, "unlock2")
  /\ queue = <<>>
  /\ locked' = FALSE
  /\ use' = NoProc
  /\ Goto(p, "out")
  /\ UNCHANGED <<schedvars, queue, next>>

Run(p) == runproc(p) /\ UNCHANGED <<qvars, pc, next>>
Preempt(p) == preempt(p, use = p) /\ UNCHANGED <<qvars, pc, next>>

-----------------------------------------------------------------------------
Step(p) ==
  \/ QLockUse(p) \/ QLockFree(p) \/ QLockQueue(p)
  \/ QLockSched(p) \/ QLockReturn(p)
  \/ CanQLockUse(p) \/ CanQLockTry(p)
  \/ CallUnlock(p)
  \/ QUnlockUse(p) \/ QUnlockPass(p) \/ QUnlockReady(p) \/ QUnlockFree(p)

Next ==
  \E p \in Proc :
    \/ Call(p)
    \/ Step(p)
    \/ Run(p) \/ Preempt(p)

(* A process on a processor executes and one that is Ready is run, however *)
(* often it is preempted (strong fairness).  A test-and-set loop gets its  *)
(* turn at "use", whose critical sections are a few instructions, and the  *)
(* scheduler does not conspire with the spin lock, running a process only  *)
(* while another holds it.  Holders release.  Nobody has to call.          *)
Fairness ==
  \A p \in Proc :
    /\ SF_vars(Step(p))
    /\ SF_vars(use = NoProc /\ Run(p))

Spec == Init /\ [][Next]_vars
FairSpec == Spec /\ Fairness

-----------------------------------------------------------------------------
(* Properties                                                              *)

(* The process the lock belongs to: inside, or unlinked by qunlock and on  *)
(* its way out of qlock.                                                   *)
Owns(p) ==
  \/ pc[p] \in {"in", "unlock1", "unlock2"}
  \/ pc[p] \in {"sched", "asleep"} /\ ~Queued(p)

(* "On return from qlock, the process has acquired the lock and can assume *)
(* exclusive access" (qlock(9)), the time between qunlock's unlinking and  *)
(* the new owner's return included; "locked" tells whether it is owned.    *)
Exclusion ==
  /\ \A p, q \in Proc : Owns(p) /\ Owns(q) => p = q
  /\ locked <=> \E p \in Proc : Owns(p)

(* ready() is called for a process exactly once for each time it queued:   *)
(* the process a qunlock is about to ready is blocked in qlock, nobody     *)
(* else is about to ready it, and a process blocked with nobody about to   *)
(* ready it is still linked on the queue.                                  *)
ReadiedOnce ==
  /\ \A p \in Proc : pc[p] = "ready" =>
       /\ state[next[p]] = "Queueing"
       /\ ~Queued(next[p])
       /\ \A q \in Proc : pc[q] = "ready" /\ next[q] = next[p] => q = p
  /\ \A p \in Proc : state[p] = "Queueing" =>
       Queued(p) \/ \E q \in Proc : pc[q] = "ready" /\ next[q] = p

(* A process that joined the queue returns from qlock: holders release,    *)
(* and no stream of qlock and canqlock calls by others can overtake it.    *)
QueuedEventuallyIn == \A p \in Proc : pc[p] = "sched" ~> pc[p] = "in"

(* qlock.c implements the first-come first-served lock: ownership passes   *)
(* where qunlock unlinks the head, although the new owner only returns     *)
(* from qlock some scheduling later.                                       *)
owner == IF \E p \in Proc : Owns(p) THEN CHOOSE p \in Proc : Owns(p) ELSE NoProc

Fifo == INSTANCE FifoLock WITH holder <- owner, waiting <- queue

ImplementsFifo == Fifo!FairSpec

=============================================================================
