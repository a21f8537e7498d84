----------------------------- MODULE LockProofs -----------------------------
(***************************************************************************)
(* Theorems about QLock and RWlock, for any set of processes.              *)
(*                                                                         *)
(* IInv is the inductive invariant of QLock: Exclusion and ReadiedOnce say *)
(* nothing of the spin lock, of duplicates on the queue, or of the process *)
(* state a queued process is in, and are not inductive without them.       *)
(*                                                                         *)
(* RWInv is that of RWlock: the panics of runlock and wunlock are          *)
(* unreachable, writers exclude, and nobody is stranded.  The argument is  *)
(* about what one operation leaves behind for another: the count of        *)
(* readers is the number of processes that read, a lock no writer has      *)
(* leaves a writer at the head of its queue, and wunlock's loop over the   *)
(* readers ends with a reader inside or an empty queue.                    *)
(***************************************************************************)
EXTENDS QLock, RWlock, ListLemmas, FiniteSetTheorems

(* "use" is held exactly by the process inside a critical section of it.   *)
UseInv == \A p \in Proc : use = p <=> pc[p] \in {"lock2", "can2", "unlock2"}

(* A process is on the queue once, blocked in qlock; the lock is then held.*)
QueueInv ==
  /\ Distinct(queue)
  /\ \A p \in Proc : Queued(p) =>
       pc[p] \in {"sched", "asleep"} /\ state[p] = "Queueing"
  /\ queue # <<>> => locked

(* The process that a qunlock will ready was unlinked and is blocked still.*)
NextInv ==
  \A p \in Proc : pc[p] = "ready" =>
    /\ next[p] \in Proc
    /\ pc[next[p]] \in {"sched", "asleep"}

(* Only qlock blocks, and a process that is back from sched() is running.  *)
StateInv ==
  \A p \in Proc :
    /\ state[p] \in {"Running", "Ready", "Queueing"}
    /\ state[p] = "Queueing" => pc[p] \in {"sched", "asleep"}
    /\ pc[p] = "asleep" /\ mach[p] => state[p] = "Running"

IInv ==
  /\ TypeOK
  /\ UseInv
  /\ QueueInv
  /\ NextInv
  /\ StateInv
  /\ Exclusion
  /\ ReadiedOnce
-----------------------------------------------------------------------------
(* Who is on the queue after the two operations on it                      *)

LEMMA QueueIs == \A p \in Proc : Queued(p) <=> On(queue, p)
  BY DEF Queued, On

LEMMA AppendQueued ==
  ASSUME TypeOK, NEW p \in Proc, NEW q \in Proc, queue' = Append(queue, p)
  PROVE  Queued(q)' <=> Queued(q) \/ q = p
  BY AppendOn DEF TypeOK, Queued, On

LEMMA HeadQueued ==
  ASSUME TypeOK, queue # <<>>
  PROVE  Head(queue) \in Proc /\ Queued(Head(queue))
  BY HeadOn DEF TypeOK, Queued, On

LEMMA TailQueued ==
  ASSUME TypeOK, QueueInv, NEW q \in Proc, queue # <<>>, queue' = Tail(queue)
  PROVE  Queued(q)' <=> Queued(q) /\ q # Head(queue)
<1>1. Distinct(queue)
  BY DEF QueueInv
<1> QED
  BY <1>1, TailOn DEF TypeOK, Queued, On

-----------------------------------------------------------------------------
(* Typing                                                                  *)

LEMMA TypeInit == Init => TypeOK
<1> SUFFICES ASSUME Init PROVE TypeOK
  OBVIOUS
<1>1. state \in [Proc -> ProcState]
  BY DEF Init, SchedInit, ProcState
<1>2. mach \in [Proc -> BOOLEAN] /\ locked \in BOOLEAN
  BY Zenon DEF Init, SchedInit
<1>3. /\ use \in Proc \cup {NoProc}
      /\ queue \in Seq(Proc)
      /\ pc \in [Proc -> Label]
      /\ next \in [Proc -> Proc \cup {NoProc}]
  BY DEF Init, Label
<1> QED
  BY <1>1, <1>2, <1>3 DEF TypeOK, SchedTypeOK

LEMMA TypeStep == TypeOK /\ [Next]_vars => TypeOK'
<1> SUFFICES ASSUME TypeOK, [Next]_vars PROVE TypeOK'
  OBVIOUS
<1> USE DEF TypeOK, SchedTypeOK, ProcState, Blocked, Label, qvars, schedvars,
            Goto, At, Executing
<1>1. ASSUME NEW p \in Proc, Call(p) \/ CallUnlock(p) PROVE TypeOK'
  BY <1>1 DEF Call, CallUnlock
<1>2. ASSUME NEW p \in Proc, QLockUse(p) \/ QUnlockUse(p) \/ CanQLockUse(p)
      PROVE  TypeOK'
  BY <1>2 DEF QLockUse, QUnlockUse, CanQLockUse, Acquire
<1>3. ASSUME NEW p \in Proc, QLockFree(p) \/ CanQLockTry(p) \/ QUnlockFree(p)
      PROVE  TypeOK'
  BY <1>3 DEF QLockFree, CanQLockTry, QUnlockFree
<1>4. ASSUME NEW p \in Proc, QLockQueue(p) PROVE TypeOK'
  BY <1>4 DEF QLockQueue
<1>5. ASSUME NEW p \in Proc, QLockSched(p) \/ QLockReturn(p) PROVE TypeOK'
  BY <1>5 DEF QLockSched, QLockReturn, sched
<1>6. ASSUME NEW p \in Proc, QUnlockPass(p) PROVE TypeOK'
  BY <1>6 DEF QUnlockPass
<1>7. ASSUME NEW p \in Proc, QUnlockReady(p) PROVE TypeOK'
  BY <1>7 DEF QUnlockReady, ready
<1>8. ASSUME NEW p \in Proc, Run(p) \/ Preempt(p) PROVE TypeOK'
  BY <1>8 DEF Run, Preempt, runproc, preempt, sched
<1>9. CASE UNCHANGED vars
  BY <1>9 DEF vars
<1> QED
  BY <1>1, <1>2, <1>3, <1>4, <1>5, <1>6, <1>7, <1>8, <1>9 DEF Next, Step

(* The fields of the lock and of the processes keep their types.           *)
THEOREM QLockTypes == Spec => []TypeOK
  BY TypeInit, TypeStep, PTL DEF Spec

-----------------------------------------------------------------------------
(* The inductive invariant                                                 *)

LEMMA InvInit == Init => IInv
<1> SUFFICES ASSUME Init PROVE IInv
  OBVIOUS
<1>1. TypeOK
  BY TypeInit
<1>2. \A p \in Proc : ~Queued(p) /\ pc[p] = "out" /\ state[p] = "Running"
  <2>1. DOMAIN queue = {}
    BY DEF Init
  <2> QED
    BY <2>1 DEF Init, SchedInit, Queued
<1> QED
  BY <1>1, <1>2, NoProcAssumption DEF Init, IInv, UseInv, QueueInv, Distinct, NextInv,
     StateInv, Exclusion, ReadiedOnce, Owns

(* A step that moves p among labels which say nothing of the queue or of   *)
(* the owner, taking or dropping "use" as the labels say.                  *)
LEMMA MoveStep ==
  ASSUME IInv, TypeOK', NEW p \in Proc, pc[p] \notin {"sched", "asleep", "ready"},
         NEW l \in Label \ {"sched", "asleep", "ready"}, Goto(p, l),
         UNCHANGED <<schedvars, queue, next>>,
         UseInv', Exclusion', locked => locked'
  PROVE  IInv'
<1> USE DEF IInv, TypeOK, Goto
<1>1. \A q \in Proc : Queued(q)' <=> Queued(q)
  BY DEF Queued
<1>2. QueueInv'
  BY <1>1 DEF QueueInv, schedvars
<1>3. NextInv'
  BY DEF NextInv
<1>4. StateInv'
  BY DEF StateInv, schedvars
<1>5. ReadiedOnce'
  BY <1>1 DEF ReadiedOnce, schedvars, NextInv
<1> QED
  BY <1>2, <1>3, <1>4, <1>5

LEMMA InvStep == IInv /\ [Next]_vars => IInv'
<1> SUFFICES ASSUME IInv, [Next]_vars PROVE IInv'
  OBVIOUS
<1>t. TypeOK /\ TypeOK'
  BY TypeStep DEF IInv
<1> USE NoProcAssumption
(* calls, and the taking of "use" *)
<1>1. ASSUME NEW p \in Proc,
             Call(p) \/ CallUnlock(p) \/ QLockUse(p) \/ QUnlockUse(p) \/ CanQLockUse(p)
      PROVE  IInv'
  <2>1. PICK l \in Label \ {"sched", "asleep", "ready"} : Goto(p, l)
    BY <1>1 DEF Call, CallUnlock, QLockUse, QUnlockUse, CanQLockUse, Acquire, Label
  <2>2. pc[p] \notin {"sched", "asleep", "ready"}
        /\ UNCHANGED <<schedvars, queue, next, locked>>
    BY <1>1 DEF Call, CallUnlock, QLockUse, QUnlockUse, CanQLockUse, Acquire, At, qvars
  <2>3. UseInv'
    BY <1>1, <1>t DEF IInv, UseInv, TypeOK, Call, CallUnlock, QLockUse, QUnlockUse,
       CanQLockUse, Acquire, At, Goto, qvars
  <2>4. \A q \in Proc : Owns(q)' <=> Owns(q)
    BY <1>1, <1>t DEF Owns, Queued, TypeOK, Call, CallUnlock, QLockUse, QUnlockUse,
       CanQLockUse, Acquire, At, Goto, qvars
  <2>5. Exclusion'
    BY <2>2, <2>4 DEF IInv, Exclusion
  <2> QED
    BY <1>t, <2>1, <2>2, <2>3, <2>5, MoveStep
(* the lock is free: p takes it; or canqlock finds it taken                *)
<1>2. ASSUME NEW p \in Proc, QLockFree(p) \/ CanQLockTry(p)
      PROVE  IInv'
  <2>1. PICK l \in Label \ {"sched", "asleep", "ready"} : Goto(p, l)
    BY <1>2 DEF QLockFree, CanQLockTry, Label
  <2>2. pc[p] \in {"lock2", "can2"} /\ UNCHANGED <<schedvars, queue, next>> /\ locked'
    BY <1>2 DEF QLockFree, CanQLockTry, At
  <2>3. UseInv'
    BY <1>2, <1>t DEF IInv, UseInv, TypeOK, QLockFree, CanQLockTry, At, Goto
  <2>4. \A q \in Proc : q # p => (Owns(q)' <=> Owns(q))
    BY <1>t, <2>1, <2>2 DEF Owns, Queued, TypeOK, Goto
  <2>5. ~Owns(p)
    BY <2>2 DEF Owns
  <2>6. CASE locked
    <3>1. ~Owns(p)'
      BY <1>2, <1>t, <2>6 DEF QLockFree, CanQLockTry, Owns, TypeOK, Goto
    <3> QED
      BY <1>t, <2>1, <2>2, <2>3, <2>4, <2>5, <2>6, <3>1, MoveStep DEF IInv, Exclusion
  <2>7. CASE ~locked
    <3>1. Owns(p)' /\ \A q \in Proc : ~Owns(q)
      BY <1>2, <1>t, <2>7 DEF QLockFree, CanQLockTry, Owns, TypeOK, Goto, IInv, Exclusion
    <3>2. Exclusion'
      BY <2>2, <2>4, <3>1 DEF Exclusion
    <3> QED
      BY <1>t, <2>1, <2>2, <2>3, <2>7, <3>2, MoveStep
  <2> QED
    BY <2>6, <2>7
(* the lock is taken: p joins the queue                                    *)
<1>3. ASSUME NEW p \in Proc, QLockQueue(p)
      PROVE  IInv'
  <2> USE <1>3, <1>t DEF QLockQueue, Goto, At
  <2>1. ~Queued(p) /\ ~Owns(p) /\ \A q \in Proc : Queued(q) => q # p
    BY DEF IInv, QueueInv, Owns
  <2>2. \A q \in Proc : Queued(q)' <=> Queued(q) \/ q = p
    BY AppendQueued
  <2>3. UseInv'
    BY DEF IInv, UseInv, TypeOK
  <2>4. QueueInv'
    <3>1. Distinct(queue')
      BY <2>1, AppendDistinct, QueueIs DEF IInv, QueueInv, TypeOK
    <3>2. \A q \in Proc : Queued(q)' =>
            pc'[q] \in {"sched", "asleep"} /\ state'[q] = "Queueing"
      BY <2>2 DEF IInv, QueueInv, TypeOK, SchedTypeOK
    <3> QED
      BY <3>1, <3>2 DEF QueueInv
  <2>5. NextInv' /\ StateInv'
    BY DEF IInv, NextInv, StateInv, TypeOK, SchedTypeOK
  <2>6. \A q \in Proc : Owns(q)' <=> Owns(q)
    BY <2>1, <2>2 DEF Owns, TypeOK
  <2>7. Exclusion'
    BY <2>6 DEF IInv, Exclusion
  <2>8. \A q \in Proc : pc'[q] = "ready" => pc[q] = "ready" /\ next[q] # p
    BY DEF IInv, NextInv, TypeOK
  <2>9. ReadiedOnce'
    BY <2>2, <2>8 DEF IInv, ReadiedOnce, NextInv, TypeOK, SchedTypeOK
  <2> QED
    BY <2>3, <2>4, <2>5, <2>7, <2>9 DEF IInv
(* qlock's sched(), and the return from it                                 *)
<1>4. ASSUME NEW p \in Proc, QLockSched(p)
      PROVE  IInv'
  <2> USE <1>4, <1>t DEF QLockSched, sched, Goto, At, qvars
  <2>1. \A q \in Proc : (Queued(q)' <=> Queued(q)) /\ (state'[q] = "Queueing" <=> state[q] = "Queueing")
    BY DEF Queued, TypeOK, SchedTypeOK
  <2>2. UseInv'
    BY DEF IInv, UseInv, TypeOK
  <2>3. QueueInv'
    BY <2>1 DEF IInv, QueueInv, TypeOK
  <2>4. NextInv' /\ StateInv'
    BY DEF IInv, NextInv, StateInv, TypeOK, SchedTypeOK
  <2>5. \A q \in Proc : Owns(q)' <=> Owns(q)
    BY <2>1 DEF Owns, TypeOK
  <2>6. Exclusion'
    BY <2>5 DEF IInv, Exclusion
  <2>7. \A q \in Proc : pc'[q] = "ready" <=> pc[q] = "ready"
    BY DEF TypeOK
  <2>8. ReadiedOnce'
    BY <2>1, <2>7 DEF IInv, ReadiedOnce, NextInv
  <2> QED
    BY <2>2, <2>3, <2>4, <2>6, <2>8 DEF IInv
<1>5. ASSUME NEW p \in Proc, QLockReturn(p)
      PROVE  IInv'
  <2> USE <1>5, <1>t DEF QLockReturn, Goto, At, Executing, qvars, schedvars
  <2>1. state[p] = "Running"
    BY DEF IInv, StateInv
  <2>2. ~Queued(p) /\ \A q \in Proc : pc[q] = "ready" => next[q] # p
    BY <2>1 DEF IInv, QueueInv, ReadiedOnce
  <2>3. \A q \in Proc : Queued(q)' <=> Queued(q)
    BY DEF Queued
  <2>4. UseInv' /\ QueueInv'
    BY <2>2, <2>3 DEF IInv, UseInv, QueueInv, TypeOK
  <2>5. NextInv' /\ StateInv'
    BY <2>1, <2>2 DEF IInv, NextInv, StateInv, TypeOK
  <2>6. \A q \in Proc : Owns(q)' <=> Owns(q)
    BY <2>2, <2>3 DEF Owns, TypeOK
  <2>7. Exclusion'
    BY <2>6 DEF IInv, Exclusion
  <2>8. \A q \in Proc : pc'[q] = "ready" <=> pc[q] = "ready"
    BY DEF TypeOK
  <2>9. ReadiedOnce'
    BY <2>3, <2>8 DEF IInv, ReadiedOnce, NextInv
  <2> QED
    BY <2>4, <2>5, <2>7, <2>9 DEF IInv
(* qunlock, somebody waits: the head is unlinked and owns the lock         *)
<1>6. ASSUME NEW p \in Proc, QUnlockPass(p)
      PROVE  IInv'
  <2> USE <1>6, <1>t DEF QUnlockPass, Goto, At, schedvars
  <2>h. PICK h \in Proc : h = Head(queue) /\ Queued(h)
    BY HeadQueued
  <2>1. h # p /\ state[h] = "Queueing" /\ pc[h] \in {"sched", "asleep"}
    BY <2>h DEF IInv, QueueInv
  <2>2. \A q \in Proc : Queued(q)' <=> Queued(q) /\ q # h
    BY <2>h, TailQueued DEF IInv
  <2>3. UseInv'
    BY DEF IInv, UseInv, TypeOK
  <2>4. QueueInv'
    <3>1. Distinct(queue')
      BY TailDistinct DEF IInv, QueueInv, TypeOK
    <3>2. \A q \in Proc : Queued(q)' =>
            pc'[q] \in {"sched", "asleep"} /\ state'[q] = "Queueing"
      BY <2>2 DEF IInv, QueueInv, TypeOK
    <3>3. locked'
      BY DEF IInv, QueueInv
    <3> QED
      BY <3>1, <3>2, <3>3 DEF QueueInv
  <2>5. next' = [next EXCEPT ![p] = h]
    BY <2>h
  <2>6. NextInv' /\ StateInv'
    <3>1. NextInv'
      BY <2>h, <2>1, <2>5 DEF IInv, NextInv, TypeOK
    <3>2. StateInv'
      BY DEF IInv, StateInv, TypeOK
    <3> QED
      BY <3>1, <3>2
  <2>7. Owns(p) /\ ~Owns(p)' /\ ~Owns(h) /\ Owns(h)'
    BY <2>h, <2>1, <2>2 DEF Owns, TypeOK
  <2>8. \A q \in Proc : q # p /\ q # h => (Owns(q)' <=> Owns(q))
    BY <2>2 DEF Owns, TypeOK
  <2>9. Exclusion'
    <3>1. \A q \in Proc : Owns(q)' <=> q = h
      BY <2>h, <2>1, <2>7, <2>8 DEF IInv, Exclusion
    <3>2. locked'
      BY DEF IInv, QueueInv
    <3> QED
      BY <2>h, <2>1, <3>1, <3>2 DEF Exclusion
  <2>10. /\ pc'[p] = "ready" /\ next'[p] = h
         /\ \A q \in Proc \ {p} : (pc'[q] = "ready" <=> pc[q] = "ready") /\ next'[q] = next[q]
    BY <2>5 DEF TypeOK
  <2>11. \A q \in Proc : pc[q] = "ready" => next[q] # h
    BY <2>h, <2>1 DEF IInv, ReadiedOnce
  <2>12. pc[p] # "ready"
    BY DEF At
  <2>13. ReadiedOnce'
    BY <2>h, <2>1, <2>2, <2>10, <2>11, <2>12 DEF IInv, ReadiedOnce, NextInv
  <2> QED
    BY <2>3, <2>4, <2>6, <2>9, <2>13 DEF IInv
(* qunlock's ready()                                                       *)
<1>7. ASSUME NEW p \in Proc, QUnlockReady(p)
      PROVE  IInv'
  <2> DEFINE h == next[p]
  <2> USE <1>7, <1>t DEF QUnlockReady, ready, Goto, At, Executing, qvars
  <2>1. /\ h \in Proc /\ h # p /\ ~Queued(h)
        /\ state[h] = "Queueing" /\ pc[h] \in {"sched", "asleep"}
        /\ \A q \in Proc : pc[q] = "ready" /\ next[q] = h => q = p
    BY DEF IInv, ReadiedOnce, NextInv
  <2>2. /\ state' = [state EXCEPT ![h] = "Ready"]
        /\ \A q \in Proc : Queued(q)' <=> Queued(q)
    BY DEF Queued
  <2> HIDE DEF h
  <2>3. UseInv'
    BY DEF IInv, UseInv, TypeOK
  <2>4. QueueInv'
    BY <2>1, <2>2 DEF IInv, QueueInv, TypeOK, SchedTypeOK
  <2>5. /\ ~mach[h] \/ pc[h] # "asleep"
        /\ pc' = [pc EXCEPT ![p] = "out"] /\ mach' = mach
        /\ next' = [next EXCEPT ![p] = NoProc]
    BY <2>1 DEF IInv, StateInv
  <2>6. NextInv' /\ StateInv'
    BY <2>1, <2>2, <2>5 DEF IInv, NextInv, StateInv, TypeOK, SchedTypeOK
  <2>7. \A q \in Proc : Owns(q)' <=> Owns(q)
    BY <2>2 DEF Owns, TypeOK
  <2>8. Exclusion'
    BY <2>7 DEF IInv, Exclusion
  <2>9. /\ pc'[p] # "ready"
        /\ \A q \in Proc \ {p} : (pc'[q] = "ready" <=> pc[q] = "ready") /\ next'[q] = next[q]
        /\ state'[h] # "Queueing"
        /\ \A q \in Proc \ {h} : state'[q] = state[q]
    BY <2>1, <2>2, <2>5 DEF TypeOK, SchedTypeOK
  <2>10. next[p] = h
    BY DEF h
  <2>11. ReadiedOnce'
    BY <2>1, <2>2, <2>9, <2>10 DEF IInv, ReadiedOnce, NextInv
  <2> QED
    BY <2>3, <2>4, <2>6, <2>8, <2>11 DEF IInv
(* qunlock, nobody waits                                                   *)
<1>8. ASSUME NEW p \in Proc, QUnlockFree(p)
      PROVE  IInv'
  <2> USE <1>8, <1>t DEF QUnlockFree, Goto, At, Executing, schedvars
  <2>1. \A q \in Proc : ~Queued(q) /\ ~Queued(q)'
    BY DEF Queued
  <2>2. UseInv' /\ QueueInv'
    BY <2>1 DEF IInv, UseInv, QueueInv, TypeOK
  <2>3. NextInv' /\ StateInv'
    BY DEF IInv, NextInv, StateInv, TypeOK
  <2>4. Owns(p) /\ \A q \in Proc : Owns(q)' => Owns(q) /\ q # p
    BY <2>1 DEF Owns, TypeOK
  <2>5. Exclusion'
    BY <2>4 DEF IInv, Exclusion
  <2>6. \A q \in Proc : pc'[q] = "ready" <=> pc[q] = "ready"
    BY DEF TypeOK
  <2>7. ReadiedOnce'
    BY <2>1, <2>6 DEF IInv, ReadiedOnce, NextInv
  <2> QED
    BY <2>2, <2>3, <2>5, <2>7 DEF IInv
(* the scheduler                                                           *)
<1>9. ASSUME NEW p \in Proc, Run(p) \/ Preempt(p)
      PROVE  IInv'
  <2> USE <1>9, <1>t DEF Run, Preempt, runproc, preempt, sched, qvars
  <2>1. \A q \in Proc : (Queued(q)' <=> Queued(q)) /\ (state'[q] = "Queueing" <=> state[q] = "Queueing")
    BY DEF Queued, TypeOK, SchedTypeOK
  <2>2. UseInv' /\ QueueInv' /\ NextInv'
    BY <2>1 DEF IInv, UseInv, QueueInv, NextInv
  <2>3. StateInv'
    BY DEF IInv, StateInv, TypeOK, SchedTypeOK
  <2>4. \A q \in Proc : Owns(q)' <=> Owns(q)
    BY <2>1 DEF Owns
  <2>5. Exclusion'
    BY <2>4 DEF IInv, Exclusion
  <2>6. ReadiedOnce'
    BY <2>1 DEF IInv, ReadiedOnce, NextInv
  <2> QED
    BY <2>2, <2>3, <2>5, <2>6 DEF IInv
<1>10. CASE UNCHANGED vars
  <2>1. UNCHANGED <<state, mach, use, locked, queue, pc, next>>
    BY <1>10 DEF vars
  <2>2. \A q \in Proc : (Queued(q)' <=> Queued(q)) /\ (Owns(q)' <=> Owns(q))
    BY <2>1 DEF Queued, Owns
  <2> QED
    BY <1>t, <2>1, <2>2 DEF IInv, UseInv, QueueInv, NextInv, StateInv, Exclusion, ReadiedOnce
<1> QED
  BY <1>1, <1>2, <1>3, <1>4, <1>5, <1>6, <1>7, <1>8, <1>9, <1>10 DEF Next, Step

LEMMA Invariant == Spec => []IInv
  BY InvInit, InvStep, PTL DEF Spec

(* At most one process has the lock, the time of a hand-over included, and *)
(* "locked" is set exactly when one has (qlock, canqlock, qunlock).        *)
THEOREM QLockExclusion == Spec => []Exclusion
<1>1. IInv => Exclusion
  BY DEF IInv
<1> QED
  BY <1>1, Invariant, PTL

(* A process that queued is readied exactly once, by the qunlock that      *)
(* unlinked it, and only while it is blocked.                              *)
THEOREM QLockReadiedOnce == Spec => []ReadiedOnce
<1>1. IInv => ReadiedOnce
  BY DEF IInv
<1> QED
  BY <1>1, Invariant, PTL

-----------------------------------------------------------------------------
(* QLock implements FifoLock                                               *)

(* owner is the process that owns the lock, before and after a step.       *)
LEMMA OwnerIs ==
  ASSUME IInv, IInv'
  PROVE  /\ \A p \in Proc : Owns(p) => owner = p
         /\ ~locked => owner = NoProc
         /\ \A p \in Proc : Owns(p)' => owner' = p
         /\ ~locked' => owner' = NoProc
<1>1. ASSUME NEW p \in Proc, Owns(p) PROVE owner = p
  BY <1>1 DEF owner, IInv, Exclusion
<1>2. ~locked => owner = NoProc
  BY DEF owner, IInv, Exclusion
<1>3. ASSUME NEW p \in Proc, Owns(p)' PROVE owner' = p
  BY <1>3 DEF owner, IInv, Exclusion
<1>4. ~locked' => owner' = NoProc
  BY DEF owner, IInv, Exclusion
<1> QED
  BY <1>1, <1>2, <1>3, <1>4

(* A step that changes neither who owns the lock nor the queue.            *)
LEMMA OwnerKept ==
  ASSUME IInv, IInv', \A p \in Proc : Owns(p)' <=> Owns(p)
  PROVE  owner' = owner
<1>1. CASE locked
  BY <1>1, OwnerIs DEF IInv, Exclusion
<1>2. CASE ~locked
  BY <1>2, OwnerIs DEF IInv, Exclusion
<1> QED
  BY <1>1, <1>2

LEMMA FifoInit == Init => Fifo!Init
<1> SUFFICES ASSUME Init PROVE Fifo!Init
  OBVIOUS
<1>1. \A p \in Proc : ~Owns(p)
  BY DEF Init, Owns
<1> QED
  BY <1>1 DEF Init, Fifo!Init, owner

LEMMA FifoStep == IInv /\ IInv' /\ [Next]_vars => [Fifo!Next]_(Fifo!vars)
<1> SUFFICES ASSUME IInv, IInv', [Next]_vars PROVE [Fifo!Next]_(Fifo!vars)
  OBVIOUS
<1>t. TypeOK /\ NoProc \notin Proc
  BY NoProcAssumption DEF IInv
<1>s. ASSUME UNCHANGED queue, \A p \in Proc : Owns(p)' <=> Owns(p)
      PROVE  [Fifo!Next]_(Fifo!vars)
  BY <1>s, OwnerKept DEF Fifo!vars
(* steps that move within the calls                                        *)
<1>1. ASSUME NEW p \in Proc,
             Call(p) \/ CallUnlock(p) \/ QLockUse(p) \/ QUnlockUse(p) \/ CanQLockUse(p)
      PROVE  [Fifo!Next]_(Fifo!vars)
  <2>1. UNCHANGED queue /\ \A q \in Proc : Owns(q)' <=> Owns(q)
    BY <1>1, <1>t DEF Owns, Queued, TypeOK, Call, CallUnlock, QLockUse, QUnlockUse,
       CanQLockUse, Acquire, At, Goto, qvars
  <2> QED
    BY <2>1, <1>s
(* steps of the scheduler                                                  *)
<1>2. ASSUME NEW p \in Proc, QLockSched(p) \/ Run(p) \/ Preempt(p) \/ QUnlockReady(p)
      PROVE  [Fifo!Next]_(Fifo!vars)
  <2>1. UNCHANGED queue /\ \A q \in Proc : Owns(q)' <=> Owns(q)
    BY <1>2, <1>t DEF Owns, Queued, TypeOK, QLockSched, QUnlockReady, Run, Preempt,
       At, Goto, qvars
  <2> QED
    BY <2>1, <1>s
<1>3. ASSUME NEW p \in Proc, QLockReturn(p)
      PROVE  [Fifo!Next]_(Fifo!vars)
  <2>1. state[p] # "Queueing" /\ pc[p] = "asleep"
    BY <1>3 DEF IInv, StateInv, QLockReturn, At, Executing
  <2>2. ~Queued(p)
    BY <2>1 DEF IInv, QueueInv
  <2>3. UNCHANGED queue /\ \A q \in Proc : Owns(q)' <=> Owns(q)
    BY <1>3, <1>t, <2>1, <2>2 DEF Owns, Queued, TypeOK, QLockReturn, Goto, qvars
  <2> QED
    BY <2>3, <1>s
(* a process takes the free lock                                           *)
<1>4. ASSUME NEW p \in Proc, QLockFree(p) \/ CanQLockTry(p)
      PROVE  [Fifo!Next]_(Fifo!vars)
  <2>1. CASE locked
    <3>1. UNCHANGED queue /\ \A q \in Proc : Owns(q)' <=> Owns(q)
      BY <1>4, <1>t, <2>1 DEF Owns, Queued, TypeOK, QLockFree, CanQLockTry, At, Goto
    <3> QED
      BY <3>1, <1>s
  <2>2. CASE ~locked
    <3>1. Owns(p)' /\ UNCHANGED queue
      BY <1>4, <1>t, <2>2 DEF Owns, TypeOK, QLockFree, CanQLockTry, Goto
    <3>2. owner = NoProc /\ owner' = p
      BY <2>2, <3>1, OwnerIs
    <3>3. Fifo!Take(p)
      BY <3>1, <3>2 DEF Fifo!Take
    <3> QED
      BY <3>3 DEF Fifo!Next
  <2> QED
    BY <2>1, <2>2
(* a process joins the queue                                               *)
<1>5. ASSUME NEW p \in Proc, QLockQueue(p)
      PROVE  [Fifo!Next]_(Fifo!vars)
  <2>1. ~Queued(p) /\ ~Owns(p) /\ queue' = Append(queue, p) /\ locked
    BY <1>5 DEF QLockQueue, At, IInv, QueueInv, Owns
  <2>2. \A q \in Proc : Queued(q)' <=> Queued(q) \/ q = p
    BY <1>t, <2>1, AppendQueued
  <2>3. \A q \in Proc : Owns(q)' <=> Owns(q)
    BY <1>5, <1>t, <2>1, <2>2 DEF QLockQueue, Goto, Owns, TypeOK
  <2>4. owner' = owner
    BY <2>3, OwnerKept
  <2>5. owner \in Proc /\ Owns(owner)
    BY <2>1, OwnerIs DEF IInv, Exclusion
  <2>6. Fifo!Wait(p)
    BY <1>t, <2>1, <2>4, <2>5 DEF Fifo!Wait, Queued
  <2> QED
    BY <2>6 DEF Fifo!Next
(* the owner hands the lock to the head of the queue                       *)
<1>6. ASSUME NEW p \in Proc, QUnlockPass(p)
      PROVE  [Fifo!Next]_(Fifo!vars)
  <2>1. queue # <<>> /\ queue' = Tail(queue)
    BY <1>6 DEF QUnlockPass
  <2>2. PICK h \in Proc : h = Head(queue) /\ Queued(h)
    BY <1>t, <2>1, HeadQueued
  <2>3. ~Queued(h)'
    BY <1>t, <2>1, <2>2, TailQueued DEF IInv
  <2>4. Owns(h)'
    BY <1>6, <1>t, <2>2, <2>3 DEF QUnlockPass, At, Goto, Owns, IInv, QueueInv, TypeOK
  <2>5. owner' = Head(queue)
    BY <2>2, <2>4, OwnerIs
  <2>6. Fifo!Pass
    BY <2>1, <2>5 DEF Fifo!Pass
  <2> QED
    BY <2>6 DEF Fifo!Next
(* the owner gives the lock up                                             *)
<1>7. ASSUME NEW p \in Proc, QUnlockFree(p)
      PROVE  [Fifo!Next]_(Fifo!vars)
  <2>1. Owns(p) /\ ~locked' /\ queue = <<>> /\ UNCHANGED queue
    BY <1>7 DEF QUnlockFree, At, Owns
  <2>2. owner = p /\ owner' = NoProc
    BY <2>1, OwnerIs
  <2>3. Fifo!Free
    BY <1>t, <2>1, <2>2 DEF Fifo!Free
  <2> QED
    BY <2>3 DEF Fifo!Next
<1>8. CASE UNCHANGED vars
  <2>1. UNCHANGED queue /\ \A q \in Proc : Owns(q)' <=> Owns(q)
    BY <1>8 DEF vars, Owns, Queued
  <2> QED
    BY <2>1, <1>s
<1> QED
  BY <1>1, <1>2, <1>3, <1>4, <1>5, <1>6, <1>7, <1>8 DEF Next, Step

(* qlock and qunlock implement a first-come first-served lock: the safety  *)
(* part of ImplementsFifo.                                                 *)
THEOREM QLockImplementsFifo == Spec => Fifo!Spec
<1>1. Init => Fifo!Init
  BY FifoInit
<1>2. IInv /\ IInv' /\ [Next]_vars => [Fifo!Next]_(Fifo!vars)
  BY FifoStep
<1> QED
  BY <1>1, <1>2, Invariant, PTL DEF Spec, Fifo!Spec
-----------------------------------------------------------------------------
(* RWlock                                                                  *)

Readers == {p \in Proc : Reads(p)}

(* Those to whom "writer" belongs: writers, and a wunlock in its loop.     *)
HasWriter(p) == Writes(p) \/ pc[p] = "wake"

ReaderWaits == {"rsched", "rasleep"}
WriterWaits == {"wsched", "wasleep"}
Waits == ReaderWaits \cup WriterWaits

(* "use" is held across steps by the wunlock in its loop only.             *)
RWUseInv == \A p \in Proc : use = p <=> pc[p] = "wake"

(* A process is on the queue once and blocked there, and its state says    *)
(* which of the two locks it asked for.                                    *)
RWQueueInv ==
  /\ Distinct(queue)
  /\ \A p \in Proc : Queued(p) => state[p] \in {"QueueingR", "QueueingW"}

RWStateInv ==
  \A p \in Proc :
    /\ state[p] \in {"Running", "Ready", "QueueingR", "QueueingW"}
    /\ state[p] = "QueueingR" => pc[p] \in ReaderWaits /\ Queued(p)
    /\ state[p] = "QueueingW" => pc[p] \in WriterWaits
    /\ pc[p] \in {"rasleep", "wasleep"} /\ mach[p] => state[p] = "Running"

(* Only a writer is readied after "use" is dropped, and by one process.    *)
RWNextInv ==
  /\ \A p \in Proc : pc[p] = "ready" =>
       /\ next[p] \in Proc
       /\ ~Queued(next[p])
       /\ state[next[p]] = "QueueingW"
       /\ \A q \in Proc : pc[q] = "ready" /\ next[q] = next[p] => q = p
  /\ \A p \in Proc : state[p] = "QueueingW" =>
       Queued(p) \/ \E q \in Proc : pc[q] = "ready" /\ next[q] = p

(* "writer" is set exactly when it belongs to somebody, and to one only.   *)
WriterInv ==
  /\ \A p, q \in Proc : HasWriter(p) /\ HasWriter(q) => p = q
  /\ writer = 1 <=> \E p \in Proc : HasWriter(p)
  /\ \A p, q \in Proc : Writes(p) => ~Reads(q)

ReadersInv == IsFiniteSet(Readers) /\ readers = Cardinality(Readers)

(* Somebody waits for a lock without a writer only behind a reader, and    *)
(* the first of those who wait is a writer.                                *)
HeadInv ==
  writer = 0 /\ queue # <<>> => readers > 0 /\ state[Head(queue)] = "QueueingW"

(* wunlock's loop has started a reader or is going to.                     *)
WakeInv == \A p \in Proc : pc[p] = "wake" => readers > 0 \/ MoreReaders

(* RWTypeOK but for the sign of readers, which only ReadersInv gives.      *)
RWShape ==
  /\ SchedTypeOK
  /\ use \in Proc \cup {NoProc}
  /\ readers \in Int
  /\ writer \in {0, 1}
  /\ queue \in Seq(Proc)
  /\ pc \in [Proc -> RWLabel]
  /\ next \in [Proc -> Proc \cup {NoProc}]

Blocking == RWShape /\ RWUseInv /\ RWQueueInv /\ RWStateInv /\ RWNextInv
RWInv == Blocking /\ WriterInv /\ ReadersInv /\ HeadInv /\ WakeInv /\ NoPanic

-----------------------------------------------------------------------------
(* Typing                                                                  *)

LEMMA RWTypeInit == RWInit => RWShape
<1> SUFFICES ASSUME RWInit PROVE RWShape
  OBVIOUS
<1>1. state \in [Proc -> ProcState]
  BY DEF RWInit, SchedInit, ProcState
<1>2. mach \in [Proc -> BOOLEAN]
  BY Zenon DEF RWInit, SchedInit
<1>3. /\ use \in Proc \cup {NoProc}
      /\ readers \in Int
      /\ writer \in {0, 1}
      /\ queue \in Seq(Proc)
      /\ pc \in [Proc -> RWLabel]
      /\ next \in [Proc -> Proc \cup {NoProc}]
  BY DEF RWInit, RWLabel
<1> QED
  BY <1>1, <1>2, <1>3 DEF RWShape, SchedTypeOK

LEMMA RWTypeStep == RWShape /\ [RWNext]_rwvars => RWShape'
<1> SUFFICES ASSUME RWShape, [RWNext]_rwvars PROVE RWShape'
  OBVIOUS
<1> USE DEF RWShape, SchedTypeOK, ProcState, Blocked, RWLabel, lockvars, schedvars,
            Goto, At, Section, Executing
<1>1. ASSUME NEW p \in Proc, RLockGo(p) \/ WLockGo(p) PROVE RWShape'
  BY <1>1 DEF RLockGo, WLockGo
<1>2. ASSUME NEW p \in Proc, RLockQueue(p) \/ WLockQueue(p) PROVE RWShape'
  <2>1. PICK s \in {"QueueingR", "QueueingW"}, l \in Waits : Enqueue(p, s, l)
    BY <1>2 DEF RLockQueue, WLockQueue, Waits, ReaderWaits, WriterWaits
  <2>2. use' \in Proc \cup {NoProc}
    BY <1>2 DEF RLockQueue, WLockQueue
  <2> QED
    BY <2>1, <2>2 DEF Enqueue, Waits, ReaderWaits, WriterWaits
<1>3. ASSUME NEW p \in Proc, LockSched(p) PROVE RWShape'
  BY <1>3 DEF LockSched, sched
<1>4. ASSUME NEW p \in Proc, LockReturn(p) \/ RWCallUnlock(p) PROVE RWShape'
  BY <1>4 DEF LockReturn, RWCallUnlock
<1>5. ASSUME NEW p \in Proc, RUnlockLeave(p) \/ WUnlockFree(p) PROVE RWShape'
  BY <1>5 DEF RUnlockLeave, WUnlockFree
<1>6. ASSUME NEW p \in Proc, RUnlockPass(p) \/ WUnlockPass(p) PROVE RWShape'
  <2>1. queue # <<>> /\ UNCHANGED <<state, mach>> /\ use' = use
    BY <1>6 DEF RUnlockPass, WUnlockPass
  <2>2. readers' \in Int /\ writer' \in {0, 1}
    BY <1>6 DEF RUnlockPass, WUnlockPass
  <2>3. CASE Dequeue(p)
    <3>1. Head(queue) \in Proc /\ Tail(queue) \in Seq(Proc)
      BY <2>1, HeadOn
    <3> QED
      BY <2>1, <2>2, <2>3, <3>1 DEF Dequeue
  <2>4. CASE Goto(p, "panic") /\ UNCHANGED <<writer, queue, next>>
    BY <2>1, <2>2, <2>4
  <2> QED
    BY <1>6, <2>3, <2>4 DEF RUnlockPass, WUnlockPass
<1>7. ASSUME NEW p \in Proc, WUnlockReaders(p) \/ WakeDone(p) PROVE RWShape'
  BY <1>7 DEF WUnlockReaders, WakeDone
<1>8. ASSUME NEW p \in Proc, WakeReader(p) PROVE RWShape'
  BY <1>8 DEF WakeReader, MoreReaders, ready
<1>9. ASSUME NEW p \in Proc, UnlockReady(p) PROVE RWShape'
  BY <1>9 DEF UnlockReady, ready
<1>10. ASSUME NEW p \in Proc, RWRun(p) \/ RWPreempt(p) PROVE RWShape'
  BY <1>10 DEF RWRun, RWPreempt, runproc, preempt, sched
<1>11. CASE UNCHANGED rwvars
  BY <1>11 DEF rwvars
<1> QED
  BY <1>1, <1>2, <1>3, <1>4, <1>5, <1>6, <1>7, <1>8, <1>9, <1>10, <1>11
     DEF RWNext, RWCall, RWStep

-----------------------------------------------------------------------------
(* Blocking and readying                                                   *)

LEMMA QueueAppend ==
  ASSUME RWShape, NEW p \in Proc, queue' = Append(queue, p)
  PROVE  \A q \in Proc : Queued(q)' <=> Queued(q) \/ q = p
<1>1. \A q \in Proc : On(Append(queue, p), q) <=> On(queue, q) \/ q = p
  BY AppendOn DEF RWShape
<1> QED
  BY <1>1 DEF Queued, On

LEMMA QueueTail ==
  ASSUME RWShape, Distinct(queue), queue # <<>>, queue' = Tail(queue)
  PROVE  /\ Head(queue) \in Proc /\ Queued(Head(queue))
         /\ \A q \in Proc : Queued(q)' <=> Queued(q) /\ q # Head(queue)
         /\ Distinct(queue')
<1>1. \A q \in Proc : On(Tail(queue), q) <=> On(queue, q) /\ q # Head(queue)
  BY TailOn DEF RWShape
<1>2. Head(queue) \in Proc /\ On(queue, Head(queue)) /\ Distinct(Tail(queue))
  BY HeadOn, TailDistinct DEF RWShape
<1> QED
  BY <1>1, <1>2 DEF Queued, On

LEMMA BlockingInit == RWInit => Blocking
<1> SUFFICES ASSUME RWInit PROVE Blocking
  OBVIOUS
<1>1. \A p \in Proc : ~Queued(p)
  BY QueueIs, NoneOn DEF RWInit
<1>2. RWShape
  BY RWTypeInit
<1>3. RWUseInv /\ RWQueueInv
  BY <1>1, NoProcAssumption DEF RWInit, RWUseInv, RWQueueInv, Distinct
<1>4. RWStateInv /\ RWNextInv
  BY <1>1 DEF RWInit, SchedInit, RWStateInv, RWNextInv, ReaderWaits, WriterWaits
<1> QED
  BY <1>2, <1>3, <1>4 DEF Blocking

(* p moves among labels that say nothing of blocking.                      *)
LEMMA BlockingMove ==
  ASSUME Blocking, RWShape', NEW p \in Proc, pc[p] \notin Waits \cup {"ready"},
         NEW l \in RWLabel \ (Waits \cup {"ready"}), Goto(p, l),
         UNCHANGED <<schedvars, queue, next>>, RWUseInv'
  PROVE  Blocking'
<1> USE DEF Blocking, RWShape, Goto, schedvars, Waits
<1>1. \A q \in Proc : Queued(q)' <=> Queued(q)
  BY DEF Queued
<1>2. RWQueueInv'
  BY <1>1 DEF RWQueueInv
<1>3. \A q \in Proc : q # p => pc'[q] = pc[q]
  OBVIOUS
<1>4. state[p] \notin {"QueueingR", "QueueingW"}
  BY DEF RWStateInv
<1>5. RWStateInv'
  BY <1>1, <1>3, <1>4 DEF RWStateInv, ReaderWaits, WriterWaits
<1>6. RWNextInv'
  BY <1>1, <1>3 DEF RWNextInv
<1> QED
  BY <1>2, <1>5, <1>6

(* p blocks at the tail of the queue.                                      *)
LEMMA BlockingEnqueue ==
  ASSUME Blocking, RWShape', NEW p \in Proc, At(p, "out"), UNCHANGED use,
         NEW s, NEW l, Enqueue(p, s, l),
         \/ s = "QueueingR" /\ l = "rsched"
         \/ s = "QueueingW" /\ l = "wsched"
  PROVE  Blocking' /\ \A q \in Proc : Queued(q)' <=> Queued(q) \/ q = p
<1> USE DEF Blocking, RWShape, SchedTypeOK, Enqueue, Goto, At
<1>1. ~Queued(p) /\ state[p] \notin {"QueueingR", "QueueingW"}
  BY DEF RWQueueInv, RWStateInv, ReaderWaits, WriterWaits
<1>2. \A q \in Proc : Queued(q)' <=> Queued(q) \/ q = p
  BY QueueAppend
<1>3. RWUseInv'
  BY DEF RWUseInv
<1>4. RWQueueInv'
  <2>1. Distinct(queue')
    BY <1>1, AppendDistinct, QueueIs DEF RWQueueInv
  <2> QED
    BY <1>2, <2>1 DEF RWQueueInv
<1>5. RWStateInv'
  BY <1>2 DEF RWStateInv, ReaderWaits, WriterWaits
<1>6. \A q \in Proc : pc'[q] = "ready" <=> pc[q] = "ready"
  OBVIOUS
<1>7. RWNextInv'
  BY <1>1, <1>2, <1>6 DEF RWNextInv
<1> QED
  BY <1>2, <1>3, <1>4, <1>5, <1>7

(* The scheduler writes no blocked state and readies nobody.               *)
LEMMA BlockingSched ==
  ASSUME Blocking, RWShape', NEW p \in Proc, UNCHANGED <<use, queue, next>>,
         \/ sched(p) /\ pc' = pc
         \/ runproc(p) /\ pc' = pc
         \/ LockSched(p)
  PROVE  Blocking'
<1> USE DEF Blocking, RWShape, SchedTypeOK, sched, runproc, LockSched, Goto
<1>1. \A q \in Proc : Queued(q)' <=> Queued(q)
  BY DEF Queued
<1>2. \A q \in Proc : /\ state'[q] = "QueueingR" <=> state[q] = "QueueingR"
                      /\ state'[q] = "QueueingW" <=> state[q] = "QueueingW"
  BY DEF RWStateInv
<1>3. \A q \in Proc : /\ pc'[q] = "ready" <=> pc[q] = "ready"
                      /\ pc'[q] = "wake" <=> pc[q] = "wake"
                      /\ pc'[q] \in ReaderWaits <=> pc[q] \in ReaderWaits
                      /\ pc'[q] \in WriterWaits <=> pc[q] \in WriterWaits
  BY DEF ReaderWaits, WriterWaits
<1>4. RWUseInv'
  BY <1>3 DEF RWUseInv
<1>5. RWQueueInv'
  BY <1>1, <1>2 DEF RWQueueInv
<1>6. RWNextInv'
  BY <1>1, <1>2, <1>3 DEF RWNextInv
<1>7. \A q \in Proc : pc'[q] \in {"rasleep", "wasleep"} /\ mach'[q] => state'[q] = "Running"
  BY DEF RWStateInv
<1>8. \A q \in Proc : state'[q] \in {"Running", "Ready", "QueueingR", "QueueingW"}
  BY DEF RWStateInv
<1>9. RWStateInv'
  BY <1>1, <1>2, <1>3, <1>7, <1>8 DEF RWStateInv
<1> QED
  BY <1>4, <1>5, <1>6, <1>9

(* A process that is back from sched() was unlinked and readied.           *)
LEMMA BlockingReturn ==
  ASSUME Blocking, RWShape', NEW p \in Proc, LockReturn(p)
  PROVE  Blocking' /\ ~Queued(p) /\ \A q \in Proc : Queued(q)' <=> Queued(q)
<1> USE DEF Blocking, RWShape, LockReturn, Goto, Executing, schedvars, lockvars
<1>1. state[p] = "Running" /\ ~Queued(p)
  BY DEF RWStateInv, RWQueueInv
<1>2. \A q \in Proc : Queued(q)' <=> Queued(q)
  BY DEF Queued
<1>3. RWUseInv' /\ RWQueueInv'
  BY <1>2 DEF RWUseInv, RWQueueInv
<1>4. RWStateInv'
  BY <1>1, <1>2 DEF RWStateInv, ReaderWaits, WriterWaits
<1>5. \A q \in Proc : pc'[q] = "ready" <=> pc[q] = "ready"
  OBVIOUS
<1>6. RWNextInv'
  BY <1>2, <1>5 DEF RWNextInv
<1> QED
  BY <1>1, <1>2, <1>3, <1>4, <1>6

(* The head, a writer, is unlinked and will be readied by p.               *)
LEMMA BlockingDequeue ==
  ASSUME Blocking, RWShape', NEW p \in Proc, pc[p] \in {"runlock", "wunlock"},
         queue # <<>>, state[Head(queue)] = "QueueingW", Dequeue(p),
         UNCHANGED <<schedvars, use>>
  PROVE  /\ Blocking'
         /\ Head(queue) \in Proc /\ Queued(Head(queue)) /\ Head(queue) # p
         /\ pc[Head(queue)] \in WriterWaits
         /\ \A q \in Proc : Queued(q)' <=> Queued(q) /\ q # Head(queue)
<1> USE DEF Blocking, RWShape, Dequeue, Goto, schedvars
<1>h. PICK h \in Proc : h = Head(queue) /\ Queued(h)
  BY QueueTail DEF RWQueueInv
<1>1. /\ \A q \in Proc : Queued(q)' <=> Queued(q) /\ q # h
      /\ Distinct(queue')
  BY <1>h, QueueTail DEF RWQueueInv
<1>2. h # p /\ pc[h] \in WriterWaits /\ state[h] = "QueueingW"
  BY <1>h DEF RWStateInv, WriterWaits
<1>3. state[p] \notin {"QueueingR", "QueueingW"}
  BY DEF RWStateInv, ReaderWaits, WriterWaits
<1>4. RWUseInv' /\ RWQueueInv'
  BY <1>1 DEF RWUseInv, RWQueueInv
<1>5. RWStateInv'
  BY <1>1, <1>2, <1>3, <1>h DEF RWStateInv, ReaderWaits, WriterWaits
<1>6. /\ pc'[p] = "ready" /\ next'[p] = h /\ pc[p] # "ready"
      /\ \A q \in Proc \ {p} : (pc'[q] = "ready" <=> pc[q] = "ready") /\ next'[q] = next[q]
  BY <1>h
<1>7. \A q \in Proc : pc[q] = "ready" => next[q] # h
  BY <1>h DEF RWNextInv
<1>8. RWNextInv'
  BY <1>h, <1>1, <1>2, <1>6, <1>7 DEF RWNextInv
<1> QED
  BY <1>h, <1>1, <1>2, <1>4, <1>5, <1>8

(* The head, a reader, is unlinked and readied at once.                    *)
LEMMA BlockingWake ==
  ASSUME Blocking, RWShape', NEW p \in Proc, WakeReader(p)
  PROVE  /\ Blocking'
         /\ Head(queue) \in Proc /\ Queued(Head(queue))
         /\ pc[Head(queue)] \in ReaderWaits
         /\ \A q \in Proc : Queued(q)' <=> Queued(q) /\ q # Head(queue)
<1> USE DEF Blocking, RWShape, SchedTypeOK, WakeReader, MoreReaders
<1>h. PICK h \in Proc : h = Head(queue) /\ Queued(h)
  BY QueueTail DEF RWQueueInv
<1>1. /\ \A q \in Proc : Queued(q)' <=> Queued(q) /\ q # h
      /\ Distinct(queue')
  BY <1>h, QueueTail DEF RWQueueInv
<1>2. state' = [state EXCEPT ![h] = "Ready"] /\ state[h] = "QueueingR"
  BY <1>h DEF ready
<1>3. pc[h] \in ReaderWaits
  BY <1>2 DEF RWStateInv
<1>4. RWUseInv'
  BY DEF RWUseInv
<1>5. RWQueueInv'
  BY <1>1, <1>2 DEF RWQueueInv
<1>6. RWStateInv'
  BY <1>1, <1>2 DEF RWStateInv, ReaderWaits, WriterWaits
<1>7. \A q \in Proc : state'[q] = "QueueingW" <=> state[q] = "QueueingW"
  BY <1>2
<1>8. RWNextInv'
  BY <1>1, <1>2, <1>7 DEF RWNextInv
<1> QED
  BY <1>h, <1>1, <1>3, <1>4, <1>5, <1>6, <1>8

(* The writer that was unlinked is readied.                                *)
LEMMA BlockingReady ==
  ASSUME Blocking, RWShape', NEW p \in Proc, UnlockReady(p)
  PROVE  Blocking' /\ \A q \in Proc : Queued(q)' <=> Queued(q)
<1> USE DEF Blocking, RWShape, SchedTypeOK, UnlockReady, At, Goto, lockvars
<1>h. PICK h \in Proc : h = next[p]
  BY DEF RWNextInv
<1>1. \A q \in Proc : Queued(q)' <=> Queued(q)
  BY DEF Queued
<1>2. /\ state[h] = "QueueingW" /\ ~Queued(h) /\ h # p /\ pc[h] \in WriterWaits
      /\ \A q \in Proc : pc[q] = "ready" /\ next[q] = h => q = p
  BY <1>h DEF RWNextInv, RWStateInv, WriterWaits
<1>3. state' = [state EXCEPT ![h] = "Ready"]
  BY <1>h DEF ready
<1>4. ~mach[h] \/ pc[h] = "wsched"
  BY <1>2 DEF RWStateInv, WriterWaits
<1>5. pc' = [pc EXCEPT ![p] = "out"] /\ mach' = mach /\ next' = [next EXCEPT ![p] = NoProc]
  OBVIOUS
<1>6. RWUseInv' /\ RWQueueInv'
  BY <1>1, <1>2, <1>3 DEF RWUseInv, RWQueueInv
<1>7. RWStateInv'
  BY <1>1, <1>2, <1>3, <1>4, <1>5 DEF RWStateInv, ReaderWaits, WriterWaits
<1>8. /\ pc'[p] # "ready" /\ state'[h] = "Ready"
      /\ \A q \in Proc \ {p} : (pc'[q] = "ready" <=> pc[q] = "ready") /\ next'[q] = next[q]
      /\ \A q \in Proc \ {h} : state'[q] = state[q]
  BY <1>3, <1>5
<1>9. RWNextInv'
  BY <1>h, <1>1, <1>2, <1>8 DEF RWNextInv
<1> QED
  BY <1>1, <1>6, <1>7, <1>9

LEMMA BlockingStep == Blocking /\ [RWNext]_rwvars => Blocking'
<1> SUFFICES ASSUME Blocking, [RWNext]_rwvars PROVE Blocking'
  OBVIOUS
<1>t. RWShape /\ RWShape' /\ NoProc \notin Proc
  BY RWTypeStep, NoProcAssumption DEF Blocking
<1>u. RWUseInv
  BY DEF Blocking
(* moves that say nothing of blocking                                      *)
<1>1. ASSUME NEW p \in Proc, RLockGo(p) \/ WLockGo(p) \/ RWCallUnlock(p) \/ RUnlockLeave(p)
                             \/ WUnlockFree(p) \/ WUnlockReaders(p) \/ WakeDone(p)
      PROVE  Blocking'
  <2> USE DEF RLockGo, WLockGo, RWCallUnlock, RUnlockLeave, WUnlockFree, WUnlockReaders,
              WakeDone, Section, At
  <2>1. PICK l \in RWLabel \ (Waits \cup {"ready"}) : Goto(p, l)
    BY <1>1 DEF RWLabel, Waits, ReaderWaits, WriterWaits
  <2>2. pc[p] \notin Waits \cup {"ready"} /\ UNCHANGED <<schedvars, queue, next>>
    BY <1>1 DEF Waits, ReaderWaits, WriterWaits, lockvars
  <2>3. \/ use' = use /\ pc[p] # "wake" /\ pc'[p] # "wake"
        \/ use = NoProc /\ use' = p /\ pc'[p] = "wake"
        \/ pc[p] = "wake" /\ use' = NoProc /\ pc'[p] # "wake"
    BY <1>1, <1>t DEF Goto, RWShape
  <2>4. \A q \in Proc \ {p} : pc'[q] = pc[q]
    BY <2>1, <1>t DEF Goto, RWShape
  <2>5. RWUseInv'
    BY <1>t, <1>u, <2>3, <2>4 DEF RWUseInv
  <2> QED
    BY <1>t, <2>1, <2>2, <2>5, BlockingMove
<1>2. ASSUME NEW p \in Proc, RLockQueue(p) \/ WLockQueue(p) PROVE Blocking'
  <2>1. At(p, "out") /\ UNCHANGED use
    BY <1>2 DEF RLockQueue, WLockQueue, Section
  <2>2. CASE RLockQueue(p)
    BY <1>t, <2>1, <2>2, BlockingEnqueue DEF RLockQueue
  <2>3. CASE WLockQueue(p)
    BY <1>t, <2>1, <2>3, BlockingEnqueue DEF WLockQueue
  <2> QED
    BY <1>2, <2>2, <2>3
<1>3. ASSUME NEW p \in Proc, LockSched(p) \/ RWRun(p) \/ RWPreempt(p) PROVE Blocking'
  BY <1>3, <1>t, BlockingSched DEF LockSched, RWRun, RWPreempt, preempt, lockvars
<1>4. ASSUME NEW p \in Proc, LockReturn(p) PROVE Blocking'
  BY <1>4, <1>t, BlockingReturn
(* runlock and wunlock with somebody waiting                               *)
<1>5. ASSUME NEW p \in Proc, RUnlockPass(p) \/ WUnlockPass(p) PROVE Blocking'
  <2>1. /\ pc[p] \in {"runlock", "wunlock"} /\ queue # <<>>
        /\ UNCHANGED <<schedvars, use>>
    BY <1>5 DEF RUnlockPass, WUnlockPass, Section, At
  <2>2. CASE state[Head(queue)] = "QueueingW"
    <3>1. Dequeue(p)
      BY <1>5, <2>2 DEF RUnlockPass, WUnlockPass
    <3> QED
      BY <1>t, <2>1, <2>2, <3>1, BlockingDequeue
  <2>3. CASE state[Head(queue)] # "QueueingW"
    <3>1. Goto(p, "panic") /\ UNCHANGED <<schedvars, queue, next>>
      BY <1>5, <2>3 DEF RUnlockPass, WUnlockPass
    <3>2. RWUseInv'
      BY <1>t, <1>u, <2>1, <3>1 DEF RWUseInv, Goto, RWShape
    <3>3. "panic" \in RWLabel \ (Waits \cup {"ready"}) /\ pc[p] \notin Waits \cup {"ready"}
      BY <2>1 DEF RWLabel, Waits, ReaderWaits, WriterWaits
    <3> QED
      BY <1>t, <3>1, <3>2, <3>3, BlockingMove
  <2> QED
    BY <2>2, <2>3
<1>6. ASSUME NEW p \in Proc, WakeReader(p) PROVE Blocking'
  BY <1>6, <1>t, BlockingWake
<1>7. ASSUME NEW p \in Proc, UnlockReady(p) PROVE Blocking'
  BY <1>7, <1>t, BlockingReady
<1>8. CASE UNCHANGED rwvars
  <2>1. UNCHANGED <<state, mach, use, readers, writer, queue, pc, next>>
    BY <1>8 DEF rwvars
  <2>2. \A q \in Proc : Queued(q)' <=> Queued(q)
    BY <2>1 DEF Queued
  <2> QED
    BY <1>t, <2>1, <2>2 DEF Blocking, RWUseInv, RWQueueInv, RWStateInv, RWNextInv
<1> QED
  BY <1>1, <1>2, <1>3, <1>4, <1>5, <1>6, <1>7, <1>8 DEF RWNext, RWCall, RWStep

-----------------------------------------------------------------------------
(* Counting the readers                                                    *)

LEMMA ReadersCount ==
  ASSUME ReadersInv
  PROVE  readers \in Nat /\ (readers = 0 <=> \A q \in Proc : ~Reads(q))
<1>1. readers \in Nat /\ (readers = 0 <=> Readers = {})
  BY FS_CardinalityType, FS_EmptySet DEF ReadersInv
<1> QED
  BY <1>1 DEF Readers

LEMMA ReadersKept ==
  ASSUME ReadersInv, \A q \in Proc : Reads(q)' <=> Reads(q), UNCHANGED readers
  PROVE  ReadersInv'
<1>1. Readers' = Readers
  BY DEF Readers
<1> QED
  BY <1>1 DEF ReadersInv

LEMMA ReaderGained ==
  ASSUME ReadersInv, NEW p \in Proc, ~Reads(p), readers' = readers + 1,
         \A q \in Proc : Reads(q)' <=> Reads(q) \/ q = p
  PROVE  ReadersInv' /\ readers' > 0
<1>1. Readers' = Readers \cup {p} /\ p \notin Readers
  BY DEF Readers
<1>2. IsFiniteSet(Readers \cup {p}) /\ Cardinality(Readers \cup {p}) = readers + 1
  BY <1>1, FS_AddElement DEF ReadersInv
<1>3. readers \in Nat
  BY ReadersCount
<1> QED
  BY <1>1, <1>2, <1>3 DEF ReadersInv

LEMMA ReaderLost ==
  ASSUME ReadersInv, NEW p \in Proc, Reads(p), readers' = readers - 1,
         \A q \in Proc : Reads(q)' <=> Reads(q) /\ q # p
  PROVE  ReadersInv' /\ (readers' <= 0 => \A q \in Proc : ~Reads(q)')
<1>1. Readers' = Readers \ {p} /\ p \in Readers
  BY DEF Readers
<1>2. IsFiniteSet(Readers \ {p}) /\ Cardinality(Readers \ {p}) = readers - 1
  BY <1>1, FS_RemoveElement DEF ReadersInv
<1>3. readers - 1 \in Nat /\ (readers - 1 = 0 <=> Readers \ {p} = {})
  BY <1>2, FS_CardinalityType, FS_EmptySet
<1>4. ReadersInv'
  BY <1>1, <1>2 DEF ReadersInv
<1>5. ASSUME readers' <= 0, NEW q \in Proc PROVE ~Reads(q)'
  <2>1. Readers \ {p} = {}
    BY <1>3, <1>5, ReadersCount
  <2>2. ~(Reads(q) /\ q # p)
    BY <2>1 DEF Readers
  <2> QED
    BY <2>2
<1> QED
  BY <1>4, <1>5

-----------------------------------------------------------------------------
(* The inductive invariant                                                 *)

LEMMA RWInvInit == RWInit => RWInv
<1> SUFFICES ASSUME RWInit PROVE RWInv
  OBVIOUS
<1>1. Blocking
  BY BlockingInit
<1>2. \A p \in Proc : ~Reads(p) /\ ~HasWriter(p) /\ ~Writes(p)
  BY DEF RWInit, Reads, Writes, HasWriter
<1>3. Readers = {}
  BY <1>2 DEF Readers
<1>4. ReadersInv
  BY <1>3, FS_EmptySet DEF RWInit, ReadersInv
<1>5. WriterInv /\ HeadInv
  BY <1>2 DEF RWInit, WriterInv, HeadInv
<1>6. WakeInv /\ NoPanic
  BY DEF RWInit, WakeInv, NoPanic
<1> QED
  BY <1>1, <1>4, <1>5, <1>6 DEF RWInv

(* A step that changes neither the fields of the lock nor who has it.      *)
LEMMA OwnersKept ==
  ASSUME RWInv, Blocking', UNCHANGED <<readers, writer, queue>>,
         \A q \in Proc : /\ Reads(q)' <=> Reads(q)
                         /\ HasWriter(q)' <=> HasWriter(q)
                         /\ Writes(q)' => Writes(q)
                         /\ Queued(q) => state'[q] = state[q],
         WakeInv', NoPanic'
  PROVE  RWInv'
<1> USE DEF RWInv
<1>1. WriterInv'
  BY DEF WriterInv
<1>2. ReadersInv'
  BY ReadersKept
<1>3. queue # <<>> => state'[Head(queue)] = state[Head(queue)]
  <2>1. queue # <<>> => Head(queue) \in Proc /\ Queued(Head(queue))
    BY HeadOn DEF Blocking, RWShape, Queued, On
  <2> QED
    BY <2>1
<1>4. HeadInv'
  BY <1>3 DEF HeadInv
<1> QED
  BY <1>1, <1>2, <1>4

(* wunlock's loop is not disturbed by others.                              *)
LEMMA WakeKept ==
  ASSUME RWInv, UNCHANGED <<readers, queue>>,
         \A q \in Proc : /\ pc'[q] = "wake" => pc[q] = "wake"
                         /\ Queued(q) => state'[q] = state[q]
  PROVE  WakeInv'
<1>1. queue # <<>> => Head(queue) \in Proc /\ Queued(Head(queue))
  BY HeadOn DEF RWInv, Blocking, RWShape, Queued, On
<1>2. MoreReaders => MoreReaders'
  BY <1>1 DEF MoreReaders
<1> QED
  BY <1>2 DEF RWInv, WakeInv

(* While nobody holds "use" there is no wunlock in its loop.               *)
LEMMA NoLoop ==
  ASSUME RWInv, use = NoProc
  PROVE  \A q \in Proc : pc[q] # "wake"
  BY NoProcAssumption DEF RWInv, Blocking, RWUseInv

LEMMA RWInvStep == RWInv /\ [RWNext]_rwvars => RWInv'
<1> SUFFICES ASSUME RWInv, [RWNext]_rwvars PROVE RWInv'
  OBVIOUS
<1>t. Blocking /\ Blocking' /\ RWShape /\ RWShape'
  BY BlockingStep DEF RWInv, Blocking
<1>n. readers \in Nat /\ (readers = 0 <=> \A q \in Proc : ~Reads(q))
  BY ReadersCount DEF RWInv
<1>w. writer \in {0, 1} /\ (writer = 0 <=> \A q \in Proc : ~HasWriter(q))
  BY <1>t DEF RWInv, WriterInv, RWShape
(* a reader gets the lock                                                  *)
<1>1. ASSUME NEW p \in Proc, RLockGo(p) PROVE RWInv'
  <2> USE <1>1, <1>t DEF RLockGo, Section, At, Goto, schedvars
  <2>1. \A q \in Proc : Queued(q)' <=> Queued(q)
    BY DEF Queued
  <2>2. writer = 0 /\ queue = <<>> /\ \A q \in Proc : ~HasWriter(q) /\ pc[q] # "wake"
    BY <1>w DEF MayRead, HasWriter
  <2>3. /\ ~Reads(p)
        /\ \A q \in Proc : Reads(q)' <=> Reads(q) \/ q = p
        /\ \A q \in Proc : ~HasWriter(q)'
    BY <2>1, <2>2 DEF Reads, Writes, HasWriter, RWShape
  <2>4. WriterInv'
    BY <2>2, <2>3 DEF WriterInv, HasWriter
  <2>5. ReadersInv'
    BY <2>3, ReaderGained DEF RWInv
  <2>6. HeadInv'
    BY <2>2 DEF HeadInv
  <2>7. WakeInv' /\ NoPanic'
    BY <2>2 DEF RWInv, WakeInv, NoPanic, RWShape
  <2> QED
    BY <2>4, <2>5, <2>6, <2>7 DEF RWInv
(* a writer gets the lock                                                  *)
<1>2. ASSUME NEW p \in Proc, WLockGo(p) PROVE RWInv'
  <2> USE <1>2, <1>t DEF WLockGo, Section, At, Goto, schedvars
  <2>1. \A q \in Proc : Queued(q)' <=> Queued(q)
    BY DEF Queued
  <2>2. \A q \in Proc : ~HasWriter(q) /\ pc[q] # "wake" /\ ~Reads(q)
    BY <1>w, <1>n DEF MayWrite, HasWriter
  <2>3. \A q \in Proc : /\ ~Reads(q)'
                        /\ HasWriter(q)' <=> q = p
    BY <2>1, <2>2 DEF Reads, Writes, HasWriter, RWShape
  <2>4. WriterInv'
    BY <2>3 DEF WriterInv
  <2>5. ReadersInv'
    BY <2>2, <2>3, ReadersKept DEF RWInv
  <2>6. HeadInv'
    BY DEF HeadInv
  <2>7. WakeInv' /\ NoPanic'
    BY <2>2 DEF RWInv, WakeInv, NoPanic, RWShape
  <2> QED
    BY <2>4, <2>5, <2>6, <2>7 DEF RWInv
(* somebody joins the queue                                                *)
<1>3. ASSUME NEW p \in Proc, RLockQueue(p) \/ WLockQueue(p) PROVE RWInv'
  <2>1. PICK s, l : /\ Enqueue(p, s, l)
                    /\ \/ s = "QueueingR" /\ l = "rsched" /\ ~MayRead
                       \/ s = "QueueingW" /\ l = "wsched" /\ ~MayWrite
    BY <1>3 DEF RLockQueue, WLockQueue
  <2>2. At(p, "out") /\ use = NoProc /\ UNCHANGED use
    BY <1>3 DEF RLockQueue, WLockQueue, Section
  <2>3. \A q \in Proc : Queued(q)' <=> Queued(q) \/ q = p
    BY <1>t, <2>1, <2>2, BlockingEnqueue
  <2> USE <1>t, <2>1 DEF Enqueue, Goto, At
  <2>4. \A q \in Proc : /\ Reads(q)' <=> Reads(q)
                        /\ Writes(q)' <=> Writes(q)
                        /\ HasWriter(q)' <=> HasWriter(q)
    BY <2>2, <2>3 DEF Reads, Writes, HasWriter, RWShape
  <2>5. WriterInv' /\ ReadersInv'
    BY <2>4, ReadersKept DEF RWInv, WriterInv
  <2>6. WakeInv' /\ NoPanic'
    BY <2>2, NoLoop DEF RWInv, WakeInv, NoPanic, RWShape
  <2>7. HeadInv'
    <3>1. CASE queue = <<>>
      <4>1. Head(queue') = p
        BY <3>1
      <4>2. writer = 0 => s = "QueueingW" /\ readers > 0
        BY <1>n, <3>1 DEF MayRead, MayWrite
      <4> QED
        BY <4>1, <4>2 DEF HeadInv, RWShape, SchedTypeOK
    <3>2. CASE queue # <<>>
      <4>1. Head(queue) \in Proc /\ Queued(Head(queue)) /\ Head(queue') = Head(queue)
        BY <3>2, HeadOn DEF RWShape, Queued, On
      <4>2. ~Queued(p)
        BY <2>2 DEF Blocking, RWQueueInv, RWStateInv, ReaderWaits, WriterWaits
      <4>3. state'[Head(queue)] = state[Head(queue)]
        BY <4>1, <4>2 DEF RWShape, SchedTypeOK
      <4> QED
        BY <3>2, <4>1, <4>3 DEF RWInv, HeadInv
    <3> QED
      BY <3>1, <3>2
  <2> QED
    BY <2>5, <2>6, <2>7 DEF RWInv
(* steps that change neither the lock nor who has it                       *)
<1>4. ASSUME NEW p \in Proc, LockSched(p) \/ RWRun(p) \/ RWPreempt(p) PROVE RWInv'
  <2> USE <1>4, <1>t DEF LockSched, RWRun, RWPreempt, preempt, sched, runproc, Goto, lockvars
  <2>1. \A q \in Proc : Queued(q)' <=> Queued(q)
    BY DEF Queued
  <2>2. \A q \in Proc : /\ Reads(q)' <=> Reads(q)
                        /\ Writes(q)' <=> Writes(q)
                        /\ HasWriter(q)' <=> HasWriter(q)
                        /\ pc'[q] = "wake" => pc[q] = "wake"
                        /\ pc'[q] = "panic" => pc[q] = "panic"
    BY <2>1 DEF Reads, Writes, HasWriter, RWShape
  <2>3. \A q \in Proc : Queued(q) => state'[q] = state[q]
    BY DEF Blocking, RWQueueInv, RWShape, SchedTypeOK
  <2>4. WakeInv' /\ NoPanic'
    BY <2>2, <2>3, WakeKept DEF RWInv, NoPanic
  <2> QED
    BY <2>2, <2>3, <2>4, OwnersKept
<1>5. ASSUME NEW p \in Proc, LockReturn(p) \/ RWCallUnlock(p) PROVE RWInv'
  <2> USE <1>5, <1>t DEF LockReturn, RWCallUnlock, Goto, schedvars, lockvars
  <2>1. /\ pc[p] \in {"rasleep", "wasleep"} => ~Queued(p)
        /\ \A q \in Proc : Queued(q)' <=> Queued(q)
    BY BlockingReturn DEF Queued
  <2>2. \A q \in Proc : /\ Reads(q)' <=> Reads(q)
                        /\ Writes(q)' <=> Writes(q)
                        /\ HasWriter(q)' <=> HasWriter(q)
                        /\ pc'[q] = "wake" => pc[q] = "wake"
                        /\ pc'[q] = "panic" => pc[q] = "panic"
    BY <2>1 DEF Reads, Writes, HasWriter, RWShape
  <2>3. WakeInv' /\ NoPanic'
    BY <2>2, WakeKept DEF RWInv, NoPanic
  <2> QED
    BY <2>2, <2>3, OwnersKept
<1>6. ASSUME NEW p \in Proc, UnlockReady(p) PROVE RWInv'
  <2> USE <1>6, <1>t DEF UnlockReady, At, Goto, ready, lockvars
  <2>1. \A q \in Proc : Queued(q)' <=> Queued(q)
    BY DEF Queued
  <2>2. \A q \in Proc : /\ Reads(q)' <=> Reads(q)
                        /\ Writes(q)' <=> Writes(q)
                        /\ HasWriter(q)' <=> HasWriter(q)
                        /\ pc'[q] = "wake" => pc[q] = "wake"
                        /\ pc'[q] = "panic" => pc[q] = "panic"
    BY <2>1 DEF Reads, Writes, HasWriter, RWShape
  <2>3. next[p] \in Proc /\ ~Queued(next[p])
    BY DEF Blocking, RWNextInv
  <2>4. \A q \in Proc : Queued(q) => state'[q] = state[q]
    BY <2>3 DEF RWShape, SchedTypeOK
  <2>5. WakeInv' /\ NoPanic'
    BY <2>2, <2>4, WakeKept DEF RWInv, NoPanic
  <2> QED
    BY <2>2, <2>4, <2>5, OwnersKept
(* wunlock begins to start readers: the lock is its own till the end       *)
<1>7. ASSUME NEW p \in Proc, WUnlockReaders(p) PROVE RWInv'
  <2> USE <1>7, <1>t DEF WUnlockReaders, At, Goto, schedvars, lockvars
  <2>1. \A q \in Proc : Queued(q)' <=> Queued(q)
    BY DEF Queued
  <2>2. state[Head(queue)] = "QueueingR"
    <3>1. Head(queue) \in Proc /\ Queued(Head(queue))
      BY HeadOn DEF RWShape, Queued, On
    <3> QED
      BY <3>1 DEF Blocking, RWQueueInv
  <2>3. pc' = [pc EXCEPT ![p] = "wake"] /\ pc[p] = "wunlock"
    BY <2>2
  <2>4. \A q \in Proc : /\ Reads(q)' <=> Reads(q)
                        /\ Writes(q)' => Writes(q)
                        /\ HasWriter(q)' <=> HasWriter(q)
                        /\ pc'[q] = "panic" => pc[q] = "panic"
    BY <2>1, <2>3 DEF Reads, Writes, HasWriter, RWShape
  <2>5. WakeInv' /\ NoPanic'
    BY <2>2, <2>4 DEF RWInv, WakeInv, MoreReaders, NoPanic
  <2> QED
    BY <2>4, <2>5, OwnersKept
(* runlock, and the lock is not passed on                                  *)
<1>8. ASSUME NEW p \in Proc, RUnlockLeave(p) PROVE RWInv'
  <2> USE <1>8, <1>t DEF RUnlockLeave, Section, At, Goto, schedvars
  <2>1. \A q \in Proc : Queued(q)' <=> Queued(q)
    BY DEF Queued
  <2>2. Reads(p) /\ \A q \in Proc : pc[q] # "wake"
    BY NoLoop DEF Reads
  <2>3. \A q \in Proc : /\ Reads(q)' <=> Reads(q) /\ q # p
                        /\ Writes(q)' <=> Writes(q)
                        /\ HasWriter(q)' <=> HasWriter(q)
    BY <2>1, <2>2 DEF Reads, Writes, HasWriter, RWShape
  <2>4. WriterInv'
    BY <2>3 DEF RWInv, WriterInv
  <2>5. ReadersInv'
    BY <2>2, <2>3, ReaderLost DEF RWInv
  <2>6. HeadInv'
    BY <1>n DEF RWInv, HeadInv
  <2>7. WakeInv' /\ NoPanic'
    BY <2>2 DEF RWInv, WakeInv, NoPanic, RWShape
  <2> QED
    BY <2>4, <2>5, <2>6, <2>7 DEF RWInv
(* the last reader starts the first of those who wait, a writer            *)
<1>9. ASSUME NEW p \in Proc, RUnlockPass(p) PROVE RWInv'
  <2> USE <1>9, <1>t DEF RUnlockPass, Section, At, schedvars
  <2>1. Reads(p) /\ \A q \in Proc : pc[q] # "wake"
    BY NoLoop DEF Reads
  <2>2. writer = 0 /\ \A q \in Proc : ~HasWriter(q)
    BY <1>w, <2>1 DEF RWInv, WriterInv, HasWriter
  <2>3. /\ state[Head(queue)] = "QueueingW" /\ Dequeue(p) /\ writer' = 1
        /\ queue # <<>> /\ pc[p] = "runlock" /\ readers' = readers - 1 /\ readers' <= 0
        /\ UNCHANGED <<state, mach, use>>
    BY <2>2 DEF RWInv, HeadInv
  <2>h. PICK h \in Proc : /\ h # p /\ pc[h] \in WriterWaits /\ Queued(h)
                         /\ \A q \in Proc : Queued(q)' <=> Queued(q) /\ q # h
    BY <2>3, BlockingDequeue
  <2>4. pc' = [pc EXCEPT ![p] = "ready"]
    BY <2>3 DEF Dequeue, Goto
  <2>5. \A q \in Proc : /\ Reads(q)' <=> Reads(q) /\ q # p
                        /\ HasWriter(q)' <=> q = h
    BY <2>1, <2>2, <2>3, <2>h, <2>4 DEF Reads, Writes, HasWriter, WriterWaits, RWShape
  <2>6. ReadersInv' /\ \A q \in Proc : ~Reads(q)'
    BY <2>1, <2>3, <2>5, ReaderLost DEF RWInv
  <2>7. WriterInv'
    BY <2>3, <2>5, <2>6 DEF WriterInv
  <2>8. HeadInv'
    BY <2>3 DEF HeadInv
  <2>9. WakeInv' /\ NoPanic'
    BY <2>1, <2>4 DEF RWInv, WakeInv, NoPanic, RWShape
  <2> QED
    BY <2>6, <2>7, <2>8, <2>9 DEF RWInv
(* wunlock                                                                 *)
<1>10. ASSUME NEW p \in Proc, WUnlockFree(p) PROVE RWInv'
  <2> USE <1>10, <1>t DEF WUnlockFree, Section, At, Goto, schedvars
  <2>1. \A q \in Proc : Queued(q)' <=> Queued(q)
    BY DEF Queued
  <2>2. Writes(p) /\ HasWriter(p) /\ \A q \in Proc : pc[q] # "wake"
    BY NoLoop DEF Writes, HasWriter
  <2>3. \A q \in Proc : HasWriter(q) => q = p
    BY <2>2 DEF RWInv, WriterInv
  <2>4. \A q \in Proc : /\ Reads(q)' <=> Reads(q)
                        /\ ~HasWriter(q)' /\ ~Writes(q)'
    BY <2>1, <2>2, <2>3 DEF Reads, Writes, HasWriter, RWShape
  <2>5. WriterInv' /\ ReadersInv'
    BY <2>4, ReadersKept DEF RWInv, WriterInv
  <2>6. HeadInv'
    BY DEF HeadInv
  <2>7. WakeInv' /\ NoPanic'
    BY <2>2 DEF RWInv, WakeInv, NoPanic, RWShape
  <2> QED
    BY <2>5, <2>6, <2>7 DEF RWInv
<1>11. ASSUME NEW p \in Proc, WUnlockPass(p) PROVE RWInv'
  <2> USE <1>11, <1>t DEF WUnlockPass, Section, At, schedvars
  <2>1. Writes(p) /\ HasWriter(p) /\ \A q \in Proc : pc[q] # "wake"
    BY NoLoop DEF Writes, HasWriter
  <2>2. /\ \A q \in Proc : HasWriter(q) => q = p
        /\ \A q \in Proc : ~Reads(q)
        /\ writer = 1
    BY <2>1 DEF RWInv, WriterInv
  <2>h. PICK h \in Proc : /\ h # p /\ pc[h] \in WriterWaits /\ Queued(h)
                         /\ \A q \in Proc : Queued(q)' <=> Queued(q) /\ q # h
    BY BlockingDequeue
  <2>3. pc' = [pc EXCEPT ![p] = "ready"] /\ pc[p] = "wunlock"
    BY DEF Dequeue, Goto
  <2>4. \A q \in Proc : /\ ~Reads(q)'
                        /\ HasWriter(q)' <=> q = h
    BY <2>1, <2>2, <2>h, <2>3 DEF Reads, Writes, HasWriter, WriterWaits, RWShape
  <2>5. WriterInv'
    BY <2>2, <2>4 DEF WriterInv
  <2>6. ReadersInv'
    BY <2>2, <2>4, ReadersKept DEF RWInv
  <2>7. HeadInv'
    BY <2>2 DEF HeadInv
  <2>8. WakeInv' /\ NoPanic'
    BY <2>1, <2>3 DEF RWInv, WakeInv, NoPanic, RWShape
  <2> QED
    BY <2>5, <2>6, <2>7, <2>8 DEF RWInv
<1>12. ASSUME NEW p \in Proc, WakeReader(p) PROVE RWInv'
  <2> USE <1>12, <1>t DEF WakeReader, At
  <2>1. HasWriter(p) /\ writer = 1
    BY DEF HasWriter, RWInv, WriterInv
  <2>2. \A q \in Proc : ~Writes(q)
    BY <2>1 DEF RWInv, WriterInv, HasWriter, Writes
  <2>h. PICK h \in Proc : /\ pc[h] \in ReaderWaits /\ Queued(h)
                         /\ \A q \in Proc : Queued(q)' <=> Queued(q) /\ q # h
    BY BlockingWake
  <2>3. /\ ~Reads(h)
        /\ \A q \in Proc : Reads(q)' <=> Reads(q) \/ q = h
        /\ \A q \in Proc : ~Writes(q)' /\ (HasWriter(q)' <=> HasWriter(q))
    BY <2>2, <2>h DEF Reads, Writes, HasWriter, ReaderWaits
  <2>4. ReadersInv' /\ readers' > 0
    BY <2>3, ReaderGained DEF RWInv
  <2>5. WriterInv'
    BY <2>3 DEF RWInv, WriterInv
  <2>6. HeadInv' /\ WakeInv'
    BY <2>1, <2>4 DEF HeadInv, WakeInv
  <2>7. NoPanic'
    BY DEF RWInv, NoPanic
  <2> QED
    BY <2>4, <2>5, <2>6, <2>7 DEF RWInv
<1>13. ASSUME NEW p \in Proc, WakeDone(p) PROVE RWInv'
  <2> USE <1>13, <1>t DEF WakeDone, At, Goto, schedvars
  <2>1. \A q \in Proc : Queued(q)' <=> Queued(q)
    BY DEF Queued
  <2>2. HasWriter(p) /\ \A q \in Proc : HasWriter(q) => q = p
    BY DEF HasWriter, RWInv, WriterInv
  <2>3. \A q \in Proc : /\ Reads(q)' <=> Reads(q)
                        /\ ~HasWriter(q)' /\ ~Writes(q)'
    BY <2>1, <2>2 DEF Reads, Writes, HasWriter, RWShape
  <2>4. WriterInv' /\ ReadersInv'
    BY <2>3, ReadersKept DEF RWInv, WriterInv
  <2>5. HeadInv'
    <3>1. ASSUME queue # <<>> PROVE readers > 0 /\ state[Head(queue)] = "QueueingW"
      <4>1. Head(queue) \in Proc /\ Queued(Head(queue))
        BY <3>1, HeadOn DEF RWShape, Queued, On
      <4> QED
        BY <3>1, <4>1 DEF RWInv, WakeInv, MoreReaders, Blocking, RWQueueInv
    <3> QED
      BY <3>1 DEF HeadInv
  <2>6. WakeInv' /\ NoPanic'
    BY <2>3 DEF RWInv, WakeInv, HasWriter, NoPanic, RWShape
  <2> QED
    BY <2>4, <2>5, <2>6 DEF RWInv
<1>14. CASE UNCHANGED rwvars
  <2> USE <1>14, <1>t DEF rwvars
  <2>1. \A q \in Proc : /\ Reads(q)' <=> Reads(q)
                        /\ Writes(q)' <=> Writes(q)
                        /\ HasWriter(q)' <=> HasWriter(q)
    BY DEF Reads, Writes, HasWriter, Queued
  <2>2. WakeInv' /\ NoPanic'
    BY WakeKept DEF RWInv, NoPanic
  <2> QED
    BY <2>1, <2>2, OwnersKept
<1> QED
  BY <1>1, <1>2, <1>3, <1>4, <1>5, <1>6, <1>7, <1>8, <1>9, <1>10, <1>11, <1>12, <1>13, <1>14
     DEF RWNext, RWCall, RWStep

LEMMA RWInvariant == RWSpec => []RWInv
  BY RWInvInit, RWInvStep, PTL DEF RWSpec

(* The fields of the lock and of the processes keep their types; runlock   *)
(* never takes more readers out than rlock and wunlock have put in, so     *)
(* that the count is not negative.                                         *)
THEOREM RWlockTypes == RWSpec => []RWTypeOK
<1>1. ASSUME RWInv PROVE RWTypeOK
  <2>1. RWShape /\ readers \in Nat
    BY <1>1, ReadersCount DEF RWInv, Blocking
  <2> QED
    BY <2>1 DEF RWShape, RWTypeOK
<1> QED
  BY <1>1, RWInvariant, PTL

(* The panics of runlock and wunlock are unreachable: a last reader leaves *)
(* a writer at the head of the queue, and only blocked processes are on it.*)
THEOREM RWlockNoPanic == RWSpec => []NoPanic
<1>1. RWInv => NoPanic
  BY DEF RWInv
<1> QED
  BY <1>1, RWInvariant, PTL

(* A writer that has the lock, its hand-over included, has it to itself.   *)
THEOREM RWlockWriterExcludes == RWSpec => []WriterExcludes
<1>1. RWInv => WriterExcludes
  BY DEF RWInv, WriterInv, HasWriter, WriterExcludes
<1> QED
  BY <1>1, RWInvariant, PTL

(* Whoever is linked waits behind a reader, a writer or a wunlock, and     *)
(* whoever was unlinked is readied exactly once.                           *)
THEOREM RWlockNobodyStranded == RWSpec => []NobodyStranded
<1>1. ASSUME RWInv PROVE NobodyStranded
  <2> USE <1>1 DEF RWInv, Blocking
  <2>1. queue # <<>> => \E p \in Proc : Reads(p) \/ Writes(p) \/ pc[p] = "wake"
    <3>1. CASE writer = 0
      BY <3>1, ReadersCount DEF HeadInv
    <3>2. CASE writer # 0
      BY <3>2 DEF RWShape, WriterInv, HasWriter
    <3> QED
      BY <3>1, <3>2
  <2>2. ASSUME NEW p \in Proc, state[p] \in {"QueueingR", "QueueingW"}, ~Queued(p)
        PROVE  \E q \in Proc :
                 /\ pc[q] = "ready" /\ next[q] = p
                 /\ \A r \in Proc : pc[r] = "ready" /\ next[r] = p => r = q
    <3>1. state[p] = "QueueingW"
      BY <2>2 DEF RWStateInv
    <3> QED
      BY <2>2, <3>1 DEF RWNextInv
  <2> QED
    BY <2>1, <2>2 DEF NobodyStranded
<1> QED
  BY <1>1, RWInvariant, PTL
=============================================================================
