------------------------------- MODULE RWlock -------------------------------
(***************************************************************************)
(* rlock, canrlock, runlock, wlock and wunlock (sys/src/9/port/qlock.c): a *)
(* queueing readers-writer lock.  One queue holds readers (QueueingR) and  *)
(* writers (QueueingW) in arrival order; the releaser tells them apart by  *)
(* reading Proc.state.  A reader that arrives while anyone is queued joins *)
(* the queue, so that readers cannot starve a writer.                      *)
(*                                                                         *)
(* A critical section of the spin lock "use" is one step: nothing it reads *)
(* is written by others while the lock is held.  wunlock's loop over the   *)
(* waiting readers, which readies them while it still holds "use", is one  *)
(* step per reader; "use" has a holder between steps there only.           *)
(*                                                                         *)
(* Names that QLock has too begin with RW, so that proofs about both can   *)
(* be in one module.                                                       *)
(***************************************************************************)
EXTENDS LockQueue

VARIABLES
  readers,             \* RWlock.readers
  writer               \* RWlock.writer

lockvars == <<readers, writer, queue>>
rwvars == <<state, mach, use, readers, writer, queue, pc, next>>

(* out: outside; rsched, wsched: queued by rlock or wlock, still on the    *)
(* processor; rasleep, wasleep: off it; reading, writing: returned;        *)
(* runlock, wunlock: releasing; ready: releasing, ready(next) to call;     *)
(* wake: wunlock's loop; panic: the kernel stopped.                        *)
RWLabel == {"out", "rsched", "wsched", "rasleep", "wasleep", "reading",
            "writing", "runlock", "wunlock", "ready", "wake", "panic"}

RWTypeOK ==
  /\ SchedTypeOK
  /\ use \in Proc \cup {NoProc}
  /\ readers \in Nat
  /\ writer \in {0, 1}
  /\ queue \in Seq(Proc)
  /\ pc \in [Proc -> RWLabel]
  /\ next \in [Proc -> Proc \cup {NoProc}]

RWInit ==
  /\ SchedInit
  /\ use = NoProc
  /\ readers = 0
  /\ writer = 0
  /\ queue = <<>>
  /\ pc = [p \in Proc |-> "out"]
  /\ next = [p \in Proc |-> NoProc]

(* p runs a critical section of "use" from lock() to unlock()              *)
Section(p, l) == At(p, l) /\ use = NoProc /\ use' = NoProc

-----------------------------------------------------------------------------
(* rlock and canrlock                                                      *)

(* Mutants: a reader ignores the queue; a writer ignores the readers.      *)
MayReadBarging == writer = 0
MayWriteBarging == writer = 0

MayRead == writer = 0 /\ queue = <<>>
MayWrite == readers = 0 /\ writer = 0

(* rlock or canrlock with no writer and nobody waiting                     *)
RLockGo(p) ==
  /\ Section(p, "out")
  /\ MayRead
  /\ readers' = readers + 1
  /\ Goto(p, "reading")
  /\ UNCHANGED <<schedvars, writer, queue, next>>

(* link up as a process in state s; the caller then calls sched()          *)
Enqueue(p, s, l) ==
  /\ queue' = Append(queue, p)
  /\ state' = [state EXCEPT ![p] = s]
  /\ Goto(p, l)
  /\ UNCHANGED <<mach, readers, writer, next>>

RLockQueue(p) ==
  /\ Section(p, "out")
  /\ ~MayRead
  /\ Enqueue(p, "QueueingR", "rsched")

WLockGo(p) ==
  /\ Section(p, "out")
  /\ MayWrite
  /\ writer' = 1
  /\ Goto(p, "writing")
  /\ UNCHANGED <<schedvars, readers, queue, next>>

WLockQueue(p) ==
  /\ Section(p, "out")
  /\ ~MayWrite
  /\ Enqueue(p, "QueueingW", "wsched")

(* rlock's and wlock's sched()                                             *)
LockSched(p) ==
  /\ sched(p)
  /\ \/ pc[p] = "rsched" /\ Goto(p, "rasleep")
     \/ pc[p] = "wsched" /\ Goto(p, "wasleep")
  /\ UNCHANGED <<use, lockvars, next>>

(* sched() returns in a process that was readied: it has the lock          *)
LockReturn(p) ==
  /\ Executing(p)
  /\ \/ pc[p] = "rasleep" /\ Goto(p, "reading")
     \/ pc[p] = "wasleep" /\ Goto(p, "writing")
  /\ UNCHANGED <<schedvars, use, lockvars, next>>

RWCallUnlock(p) ==
  /\ Executing(p)
  /\ \/ pc[p] = "reading" /\ Goto(p, "runlock")
     \/ pc[p] = "writing" /\ Goto(p, "wunlock")
  /\ UNCHANGED <<schedvars, use, lockvars, next>>

-----------------------------------------------------------------------------
(* runlock and wunlock                                                     *)

(* unlink the head, to be readied after unlock(&q->use)                    *)
Dequeue(p) ==
  /\ next' = [next EXCEPT ![p] = Head(queue)]
  /\ queue' = Tail(queue)
  /\ Goto(p, "ready")

(* Mutant of RUnlockLeave: the queue is not looked at.                     *)
RUnlockForgets(p) ==
  /\ Section(p, "runlock")
  /\ readers' = readers - 1
  /\ Goto(p, "out")
  /\ UNCHANGED <<schedvars, writer, queue, next>>

(* runlock, other readers inside or nobody waiting                         *)
RUnlockLeave(p) ==
  /\ Section(p, "runlock")
  /\ readers - 1 > 0 \/ queue = <<>>
  /\ readers' = readers - 1
  /\ Goto(p, "out")
  /\ UNCHANGED <<schedvars, writer, queue, next>>

(* runlock, the last reader starts the waiting writer                      *)
RUnlockPass(p) ==
  /\ Section(p, "runlock")
  /\ readers - 1 <= 0
  /\ queue # <<>>
  /\ readers' = readers - 1
  /\ IF state[Head(queue)] = "QueueingW"
       THEN writer' = 1 /\ Dequeue(p)
       ELSE Goto(p, "panic") /\ UNCHANGED <<writer, queue, next>>
  /\ UNCHANGED schedvars

(* wunlock, nobody waiting                                                 *)
WUnlockFree(p) ==
  /\ Section(p, "wunlock")
  /\ queue = <<>>
  /\ writer' = 0
  /\ Goto(p, "out")
  /\ UNCHANGED <<schedvars, readers, queue, next>>

(* wunlock, a writer is first: it is started, "writer" stays set           *)
WUnlockPass(p) ==
  /\ Section(p, "wunlock")
  /\ queue # <<>>
  /\ state[Head(queue)] = "QueueingW"
  /\ Dequeue(p)
  /\ UNCHANGED <<schedvars, readers, writer>>

(* wunlock, readers are first: keep "use" and start them one by one        *)
WUnlockReaders(p) ==
  /\ At(p, "wunlock")
  /\ use = NoProc
  /\ queue # <<>>
  /\ state[Head(queue)] # "QueueingW"
  /\ IF state[Head(queue)] = "QueueingR"
       THEN use' = p /\ Goto(p, "wake")
       ELSE use' = NoProc /\ Goto(p, "panic")
  /\ UNCHANGED <<schedvars, lockvars, next>>

(* Mutant of MoreReaders: wunlock starts the first waiting reader only.    *)
OneReader == readers = 0 /\ queue # <<>> /\ state[Head(queue)] = "QueueingR"

MoreReaders == queue # <<>> /\ state[Head(queue)] = "QueueingR"

WakeReader(p) ==
  /\ At(p, "wake")
  /\ MoreReaders
  /\ queue' = Tail(queue)
  /\ readers' = readers + 1
  /\ ready(Head(queue))
  /\ UNCHANGED <<mach, use, writer, pc, next>>

WakeDone(p) ==
  /\ At(p, "wake")
  /\ ~MoreReaders
  /\ writer' = 0
  /\ use' = NoProc
  /\ Goto(p, "out")
  /\ UNCHANGED <<schedvars, readers, queue, next>>

(* ready(p), after "use" is dropped                                        *)
UnlockReady(p) ==
  /\ At(p, "ready")
  /\ ready(next[p])
  /\ next' = [next EXCEPT ![p] = NoProc]
  /\ Goto(p, "out")
  /\ UNCHANGED <<mach, use, lockvars>>

RWRun(p) == runproc(p) /\ UNCHANGED <<use, lockvars, pc, next>>
RWPreempt(p) == preempt(p, use = p) /\ UNCHANGED <<use, lockvars, pc, next>>

-----------------------------------------------------------------------------
RWCall(p) == RLockGo(p) \/ RLockQueue(p) \/ WLockGo(p) \/ WLockQueue(p)

RWStep(p) ==
  \/ LockSched(p) \/ LockReturn(p) \/ RWCallUnlock(p)
  \/ RUnlockLeave(p) \/ RUnlockPass(p)
  \/ WUnlockFree(p) \/ WUnlockPass(p) \/ WUnlockReaders(p)
  \/ WakeReader(p) \/ WakeDone(p) \/ UnlockReady(p)

RWNext == \E p \in Proc : RWCall(p) \/ RWStep(p) \/ RWRun(p) \/ RWPreempt(p)

RWSpec == RWInit /\ [][RWNext]_rwvars

(* As in QLock: processes execute, Ready ones are run, spin loops get      *)
(* their turn and holders release; nobody has to call.                     *)
RWFairness ==
  \A p \in Proc :
    /\ SF_rwvars(RWStep(p))
    /\ SF_rwvars(use = NoProc /\ RWRun(p))

RWFairSpec == RWSpec /\ RWFairness

-----------------------------------------------------------------------------
(* Properties                                                              *)

(* The lock is p's: p is inside, or was unlinked and is on its way out.    *)
Reads(p) ==
  \/ pc[p] \in {"reading", "runlock"}
  \/ pc[p] \in {"rsched", "rasleep"} /\ ~Queued(p)
Writes(p) ==
  \/ pc[p] \in {"writing", "wunlock"}
  \/ pc[p] \in {"wsched", "wasleep"} /\ ~Queued(p)

(* The assertions of runlock and wunlock: the queue a last reader leaves   *)
(* behind starts with a writer, and only blocked processes are linked.     *)
NoPanic == \A p \in Proc : pc[p] # "panic"

(* "On return from wlock, the process has exclusive access": a writer has  *)
(* the lock to itself, a hand-over in progress included.                   *)
WriterExcludes ==
  \A p, q \in Proc : Writes(p) /\ p # q => ~Reads(q) /\ ~Writes(q)

(* A process is never blocked on a lock that nobody will release: whoever  *)
(* is linked waits for a reader, a writer or a wunlock in progress, and    *)
(* whoever was unlinked is about to be readied, exactly once.              *)
NobodyStranded ==
  /\ queue # <<>> => \E p \in Proc : Reads(p) \/ Writes(p) \/ pc[p] = "wake"
  /\ \A p \in Proc : state[p] \in {"QueueingR", "QueueingW"} /\ ~Queued(p) =>
       \E q \in Proc :
         /\ pc[q] = "ready" /\ next[q] = p
         /\ \A r \in Proc : pc[r] = "ready" /\ next[r] = p => r = q

(* Readers arriving for ever do not starve a writer, nor the reverse.      *)
RWQueuedEventuallyIn ==
  \A p \in Proc :
    /\ pc[p] = "rsched" ~> pc[p] = "reading"
    /\ pc[p] = "wsched" ~> pc[p] = "writing"

=============================================================================
