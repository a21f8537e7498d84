-------------------------- MODULE ProcLifeProofs --------------------------
(***************************************************************************)
(* Theorems about ProcLife, for any arena, limits and readers: a process   *)
(* has and collects only records of its own children or of nobody's, each  *)
(* once; its counts are what its children and the strays that exited into  *)
(* them made them; and every sleep for a record ends with one, unless      *)
(* strays spoiled the count that pwait tested.                             *)
(***************************************************************************)
EXTENDS ProcLife, ListLemmas, FiniteSetTheorems

(* It runs and has not reached pexit's test of its parent.                 *)
Young(p) == pc[p] \notin {"free", "new"} \cup Leaving

(* The structures on the free list hold no process, and none is there      *)
(* twice.                                                                  *)
FreeInv ==
  /\ Distinct(free)
  /\ \A p \in Proc : On(free, p) => pc[p] = "free"

(* A structure being filled by sysrfork is in one parent's hands.          *)
MakeInv ==
  /\ Young(Boot)
  /\ \A q \in Proc : pc[q] \in Making => on[q] \in Proc /\ pc[on[q]] = "new"
  /\ \A q, r \in Proc :
       pc[q] \in Making /\ pc[r] \in Making /\ on[q] = on[r] => q = r

(* A pid names one structure, from newproc's last step to pexit's pidunhash *)
PidInv ==
  /\ \A p \in Proc : proc[p].pid <= pidalloc
  /\ \A p, q \in Proc : proc[p].pid # 0 /\ proc[p].pid = proc[q].pid => p = q
  /\ \A p \in Proc : pc[p] \in {"free", "unhashed"} => proc[p].pid = 0
  /\ \A p \in Proc : pc[p] \notin {"free", "new", "unhashed"} => proc[p].pid # 0
  /\ \A q \in Proc : pc[q] = "pid" => proc[on[q]].pid = 0
  /\ \A q \in Proc : pc[q] = "link" => proc[on[q]].pid # 0

(* Nobody is waited for by a process that has no pid yet, or that has not  *)
(* run yet.                                                                *)
OwnerInv ==
  /\ \A c \in Pid : owner[c] <= pidalloc
  /\ \A p \in Proc, c \in Pid :
       pc[p] = "new" /\ proc[p].pid # 0 => owner[c] # proc[p].pid

(* A process's parentpid is the process that may wait for it; while that   *)
(* process has its pid, it is the one in parent.                           *)
ParentInv ==
  \A p \in Proc : Young(p) =>
    /\ owner[proc[p].pid] = proc[p].parentpid
    /\ p # Boot => proc[p].parent \in Proc
    /\ \A t \in Proc :
         proc[t].pid = proc[p].parentpid /\ proc[t].pid # 0 => t = proc[p].parent

(* What newproc leaves in nchild, dissociated children that exit before    *)
(* the structure has its pid may already have taken from.                  *)
NewInv ==
  \A p \in Proc : pc[p] = "new" => proc[p].nchild = 0 - Cardinality(astray[p])

(* A stray is a process that has left.                                     *)
AstrayInv ==
  \A t \in Proc, c \in Pid : c \in astray[t] =>
    /\ c <= pidalloc
    /\ \A p \in Proc : Young(p) \/ pc[p] = "new" => proc[p].pid # c

Holds(t, c) == On(proc[t].waitq, c)

(* The record of c was collected.                                          *)
Gone(c) == \E g \in got : g[2] = c

(* A record is in one queue, its owner's or one it has strayed to, or is   *)
(* gone; a process that has not reached pexit's test has left none.  The   *)
(* records of a dead process lie in its structure until newproc.           *)
RecInv ==
  /\ \A t \in Proc : Distinct(proc[t].waitq)
  /\ \A t \in Proc, c \in Pid : Holds(t, c) => ~Gone(c) /\ c <= pidalloc
  /\ \A t, u \in Proc, c \in Pid : Holds(t, c) /\ Holds(u, c) => t = u
  /\ \A t \in Proc, c \in Pid : Holds(t, c) /\ owner[c] # 0 =>
       proc[t].pid \in {owner[c], 0} /\ pc[t] # "new"
  /\ \A c \in Pid : Gone(c) => c <= pidalloc
  /\ \A p \in Proc : (Young(p) \/ pc[p] = "new") /\ proc[p].pid # 0 =>
       ~Gone(proc[p].pid) /\ \A t \in Proc : ~Holds(t, proc[p].pid)
  /\ \A g \in got : owner[g[2]] # 0 => g[1] \in {owner[g[2]], 0}
  /\ \A g, h \in got : g[2] = h[2] => g = h

(* CountsAreRight, with nwait right whatever the structure is              *)
CountInv ==
  /\ \A t \in Proc : proc[t].nwait = Len(proc[t].waitq)
  /\ \A t \in Proc : Countable(t) =>
       proc[t].nchild = Cardinality(Children(t)) - Cardinality(astray[t])

(* A process in pwait or procread holds the qwaitr of the structure it     *)
(* waits on.                                                               *)
LockInv ==
  /\ \A q \in Proc : pc[q] \in Own \cup Reading =>
       on[q] \in Proc /\ qwaitr[on[q]] = q
  /\ \A q \in Proc : pc[q] \in Own => on[q] = q
  /\ \A t, q \in Proc : qwaitr[t] = q => on[q] = t /\ pc[q] \in Own \cup Reading

(* A child will leave a record, or strays spoiled nchild.                  *)
Due(p) == Children(p) # {} \/ astray[p] # {}

(* WaitsEnd, and pwait before its sleep has what it tested.                *)
WaitInv ==
  /\ \A p \in Proc : pc[p] = "wait" => proc[p].waitq # <<>> \/ Due(p)
  /\ WaitsEnd

(* What does not depend on the waits in progress                           *)
Base ==
  /\ FreeInv /\ MakeInv /\ PidInv /\ OwnerInv /\ ParentInv /\ NewInv
  /\ AstrayInv /\ RecInv /\ CountInv

PInv == TypeOK /\ Base /\ LockInv /\ WaitInv
-----------------------------------------------------------------------------
(* What TypeOK says of the fields of one structure.                        *)
LEMMA FieldTypes ==
  ASSUME TypeOK, NEW p \in Proc
  PROVE  /\ proc[p].pid \in Nat /\ proc[p].pid <= MaxPid
         /\ proc[p].parent \in Proc \cup {Nil}
         /\ proc[p].parentpid \in 0..MaxPid
         /\ proc[p].nchild \in Int
         /\ proc[p].nwait \in 0..Limit
         /\ proc[p].waitq \in Seq(Pid)
         /\ pc[p] \in Places
  BY MaxPidAssumption DEF TypeOK, Fields

(* A structure with a pid has one that can be waited for.                  *)
LEMMA PidIs ==
  ASSUME TypeOK, NEW p \in Proc, proc[p].pid # 0
  PROVE  proc[p].pid \in Pid
  BY FieldTypes, MaxPidAssumption DEF Pid

(* The children of a process are finitely many.                            *)
LEMMA ChildrenFinite ==
  ASSUME NEW t
  PROVE  IsFiniteSet(Children(t)) /\ Cardinality(Children(t)) \in Nat
<1>1. Children(t) \in SUBSET Proc
  BY DEF Children
<1> QED
  BY <1>1, ProcAssumption, FS_Subset, FS_CardinalityType

(* So are the strays of a structure.                                       *)
LEMMA StraysFinite ==
  ASSUME TypeOK, NEW t \in Proc
  PROVE  IsFiniteSet(astray[t]) /\ Cardinality(astray[t]) \in Nat
<1>1. astray[t] \in SUBSET (1..MaxPid)
  BY DEF TypeOK, Pid
<1>2. IsFiniteSet(1..MaxPid)
  BY MaxPidAssumption, FS_Interval
<1> QED
  BY <1>1, <1>2, FS_Subset, FS_CardinalityType

(* What the initial free list is.                                          *)
LEMMA InitFree ==
  ASSUME NEW f \in SetToSeqs(Proc \ {Boot})
  PROVE  /\ f \in Seq(Proc) /\ Distinct(f)
         /\ \A p : On(f, p) => p \in Proc \ {Boot}
<1> DEFINE S == Proc \ {Boot}
           n == Cardinality(S)
<1>1. IsFiniteSet(S) /\ n \in Nat
  BY ProcAssumption, FS_Subset, FS_CardinalityType
<1>2. f \in [1..n -> S] /\ \A i, j \in 1..n : i # j => f[i] # f[j]
  BY DEF SetToSeqs
<1>3. f \in Seq(S)
  <2>1. f = [i \in 1..n |-> f[i]] /\ \A i \in 1..n : f[i] \in S
    BY <1>2
  <2> HIDE DEF n, S
  <2> QED
    BY <1>1, <2>1
<1>4. f \in Seq(Proc)
  BY <1>3
<1>5. DOMAIN f = 1..n
  BY <1>2
<1> QED
  BY <1>2, <1>4, <1>5 DEF Distinct, On

(* The invariant holds when the first process starts.                      *)
LEMMA InitPInv == Init => PInv
<1> SUFFICES ASSUME Init PROVE PInv
  OBVIOUS
<1>1. /\ \A p \in Proc : /\ proc[p].pid = IF p = Boot THEN 1 ELSE 0
                         /\ proc[p].parent = Nil /\ proc[p].parentpid = 0
                         /\ proc[p].nchild = 0 /\ proc[p].nwait = 0
                         /\ proc[p].waitq = <<>>
      /\ proc \in [Proc -> Fields]
  <2> DEFINE b == [NewProc EXCEPT !.pid = 1]
  <2>1. /\ b.pid = 1 /\ b.parent = Nil /\ b.parentpid = 0 /\ b.nchild = 0
        /\ b.nwait = 0 /\ b.waitq = <<>> /\ b \in Fields
    <3>1. b = [pid |-> 1, parent |-> Nil, parentpid |-> 0,
               nchild |-> 0, nwait |-> 0, waitq |-> <<>>]
      BY DEF NewProc
    <3> HIDE DEF b
    <3>2. 1 \in 0..MaxPid /\ 0 \in 0..MaxPid /\ 0 \in 0..Limit /\ <<>> \in Seq(Pid)
      BY MaxPidAssumption, LimitAssumption
    <3>3. b \in Fields
      BY <3>1, <3>2 DEF Fields
    <3> QED
      BY <3>1, <3>3
  <2>2. NewProc \in Fields
    BY MaxPidAssumption, LimitAssumption DEF NewProc, Fields, Pid
  <2>3. proc = [p \in Proc |-> IF p = Boot THEN b ELSE NewProc]
    BY DEF Init
  <2> HIDE DEF b
  <2> QED
    BY <2>1, <2>2, <2>3 DEF NewProc
<1>2. \A p \in Proc : pc[p] = IF p = Boot THEN "run" ELSE "free"
  BY DEF Init
<1>3. free \in Seq(Proc) /\ Distinct(free) /\ \A p : On(free, p) => p \in Proc \ {Boot}
  BY InitFree DEF Init
<1>4. \A c \in Pid : owner[c] = 0
  BY DEF Init
<1>5. TypeOK
  <2>1. 1 \in Pid /\ 0 \in 0..MaxPid
    BY MaxPidAssumption DEF Pid
  <2>2. pc \in [Proc -> Places]
    BY DEF Init, Places
  <2>3. owner \in [Pid -> 0..MaxPid] /\ seen \in [Proc -> 0..MaxPid]
    BY <2>1 DEF Init
  <2> QED
    BY <1>1, <1>3, <2>1, <2>2, <2>3 DEF Init, TypeOK
<1>6. FreeInv
  BY <1>2, <1>3 DEF FreeInv
<1>7. MakeInv
  BY <1>2, ProcAssumption DEF MakeInv, Young, Leaving, Making
<1>8. PidInv
  <2>1. pidalloc = 1
    BY DEF Init
  <2> QED
    BY <1>1, <1>2, <2>1 DEF PidInv
<1>9. OwnerInv
  BY <1>2, <1>4 DEF OwnerInv, Init
<1>10. ParentInv
  <2>1. ASSUME NEW p \in Proc, Young(p) PROVE p = Boot
    BY <1>2, <2>1 DEF Young
  <2>2. 1 \in Pid
    BY MaxPidAssumption DEF Pid
  <2>3. owner[proc[Boot].pid] = 0 /\ proc[Boot].parentpid = 0
    BY <1>1, <1>4, <2>2, ProcAssumption
  <2> QED
    BY <2>1, <2>3 DEF ParentInv
<1>11. NewInv /\ AstrayInv
  BY <1>2 DEF NewInv, AstrayInv, Init
<1>12. RecInv
  <2>1. ASSUME NEW t \in Proc PROVE Distinct(proc[t].waitq) /\ \A c : ~On(proc[t].waitq, c)
    BY <1>1, NoneOn DEF Distinct
  <2>2. got = {}
    BY DEF Init
  <2>3. \A c : ~Gone(c)
    BY <2>2 DEF Gone
  <2> QED
    BY <2>1, <2>2, <2>3 DEF RecInv, Holds
<1>13. CountInv
  <2>1. \A t \in Proc : proc[t].nwait = Len(proc[t].waitq)
    BY <1>1
  <2>2. ASSUME NEW t \in Proc, Countable(t)
        PROVE  Children(t) = {}
    <3>1. t = Boot /\ proc[t].pid = 1
      BY <1>1, <2>2 DEF Countable
    <3>2. 1 \in Pid
      BY MaxPidAssumption DEF Pid
    <3>3. ASSUME NEW p \in Children(t) PROVE FALSE
      <4>1. p \in Proc /\ Young(p) /\ owner[proc[p].pid] = 1
        BY <3>1 DEF Children, Young
      <4>2. p = Boot
        BY <1>2, <4>1 DEF Young
      <4> QED
        BY <1>1, <1>4, <3>2, <4>1, <4>2
    <3> QED
      BY <3>3
  <2>3. Cardinality({}) = 0 /\ \A t \in Proc : astray[t] = {}
    BY FS_EmptySet DEF Init
  <2>4. ASSUME NEW t \in Proc, Countable(t)
        PROVE  proc[t].nchild = Cardinality(Children(t)) - Cardinality(astray[t])
    <3>1. Cardinality(Children(t)) = 0
      BY <2>2, <2>3, <2>4
    <3>2. Cardinality(astray[t]) = 0
      BY <2>3
    <3>3. proc[t].nchild = 0
      BY <1>1
    <3> QED
      BY <3>1, <3>2, <3>3
  <2> QED
    BY <2>1, <2>4 DEF CountInv
<1>14. LockInv /\ WaitInv
  BY <1>2, ProcAssumption DEF LockInv, WaitInv, WaitsEnd, SleepsForOne, TakeFinds, Own, Reading, Init
<1> QED
  BY <1>5, <1>6, <1>7, <1>8, <1>9, <1>10, <1>11, <1>12, <1>13, <1>14 DEF PInv, Base
-----------------------------------------------------------------------------
Busy == {"run"} \cup Own \cup Reading
Stopping == Leaving \ {"unhashed"}

(* Steps that neither start nor end a process.                             *)
Moves ==
  /\ pc' \in [Proc -> Places]
  /\ \A p \in Proc : \/ pc'[p] = pc[p]
                     \/ pc[p] \in Busy /\ pc'[p] \in Busy
                     \/ pc[p] \in Stopping /\ pc'[p] \in Stopping
  /\ \A p \in Proc : pc[p] \in Making => on'[p] = on[p]

(* Such a step leaves every process as far in its life as it was.          *)
LEMMA MovesKeep ==
  ASSUME TypeOK, Moves, NEW p \in Proc
  PROVE  /\ Young(p)' <=> Young(p)
         /\ pc'[p] \in Leaving <=> pc[p] \in Leaving
         /\ \A x \in {"free", "new", "unhashed"} \cup Making : pc'[p] = x <=> pc[p] = x
         /\ pc'[p] \in Making => on'[p] = on[p]
  BY DEF Moves, Young, Busy, Stopping, Leaving, Making, Own, Reading

(* Who the children of t are depends on who runs, and on t's pid.          *)
LEMMA ChildrenSame ==
  ASSUME NEW t \in Proc,
         \A p \in Proc : Young(p)' <=> Young(p),
         \A p \in Proc : Young(p) => owner'[proc'[p].pid] = owner[proc[p].pid],
         proc'[t].pid = proc[t].pid
  PROVE  Children(t)' = Children(t)
<1>1. Children(t) = {p \in Proc : Young(p) /\ owner[proc[p].pid] = proc[t].pid}
  BY DEF Children, Young
<1>2. Children(t)' = {p \in Proc : Young(p)' /\ owner'[proc'[p].pid] = proc'[t].pid}
  BY DEF Children, Young
<1> QED
  BY <1>1, <1>2

(* A stray does not come back.                                             *)
LEMMA AstraySame ==
  ASSUME AstrayInv, UNCHANGED astray, UNCHANGED pidalloc,
         \A p \in Proc : Young(p)' \/ pc'[p] = "new" =>
           (Young(p) \/ pc[p] = "new") /\ proc'[p].pid = proc[p].pid
  PROVE  AstrayInv'
  BY DEF AstrayInv

(* A step that changes no structure, and starts and ends no process.       *)
Quiet == Moves /\ UNCHANGED <<proc, pidalloc, free, owner, got, astray, freed>>

(* It changes nothing that Base is about.                                  *)
LEMMA QuietBase ==
  ASSUME TypeOK, Base, Quiet
  PROVE  Base' /\ \A t \in Proc : Children(t)' = Children(t)
<1>1. \A p \in Proc :
        /\ Young(p)' <=> Young(p)
        /\ pc'[p] \in Leaving <=> pc[p] \in Leaving
        /\ pc'[p] = "free" <=> pc[p] = "free"
        /\ pc'[p] = "new" <=> pc[p] = "new"
        /\ pc'[p] = "unhashed" <=> pc[p] = "unhashed"
        /\ pc'[p] = "pid" <=> pc[p] = "pid"
        /\ pc'[p] = "link" <=> pc[p] = "link"
        /\ pc'[p] \in Making => on'[p] = on[p]
  BY MovesKeep DEF Quiet, Making
<1>2. UNCHANGED proc /\ UNCHANGED pidalloc /\ UNCHANGED free /\ UNCHANGED owner
      /\ UNCHANGED got /\ UNCHANGED astray
      /\ UNCHANGED freed
  BY DEF Quiet
<1>3. \A t \in Proc : Children(t)' = Children(t)
  BY <1>1, <1>2, ChildrenSame
<1>4. FreeInv'
  BY <1>1, <1>2 DEF Base, FreeInv
<1>5. MakeInv'
  BY <1>1, ProcAssumption DEF Base, MakeInv, Making
<1>6. PidInv'
  BY <1>1, <1>2 DEF Base, PidInv, Making
<1>7. OwnerInv'
  BY <1>1, <1>2 DEF Base, OwnerInv
<1>8. ParentInv'
  BY <1>1, <1>2 DEF Base, ParentInv
<1>9. NewInv' /\ AstrayInv'
  BY <1>1, <1>2, AstraySame DEF Base, NewInv
<1>10. RecInv'
  <2>1. \A t \in Proc : \A c : Holds(t, c)' <=> Holds(t, c)
    BY <1>2 DEF Holds
  <2>2. \A c : Gone(c)' <=> Gone(c)
    BY <1>2 DEF Gone
  <2> QED
    BY <1>1, <1>2, <2>1, <2>2 DEF Base, RecInv
<1>11. CountInv'
  BY <1>1, <1>2, <1>3 DEF Base, CountInv, Countable
<1> QED
  BY <1>3, <1>4, <1>5, <1>6, <1>7, <1>8, <1>9, <1>10, <1>11 DEF Base

(* Collecting the first record of t's queue, field by field.               *)
Gets(t, c) ==
  /\ proc[t].waitq # <<>> /\ c = Head(proc[t].waitq)
  /\ proc' \in [Proc -> Fields]
  /\ \A p \in Proc : /\ proc'[p].pid = proc[p].pid /\ proc'[p].parent = proc[p].parent
                     /\ proc'[p].parentpid = proc[p].parentpid
                     /\ proc'[p].nchild = proc[p].nchild
                     /\ p # t => proc'[p].nwait = proc[p].nwait /\ proc'[p].waitq = proc[p].waitq
  /\ proc'[t].waitq = Tail(proc[t].waitq)
  /\ proc'[t].nwait = proc[t].nwait - 1
  /\ got' = got \cup {<<proc[t].pid, c>>}
  /\ Moves /\ UNCHANGED <<pidalloc, free, owner, astray, freed>>

(* The record collected leaves no other queue.                             *)
LEMMA GetsBase ==
  ASSUME TypeOK, Base, NEW t \in Proc, NEW c, Gets(t, c)
  PROVE  Base' /\ \A u \in Proc : Children(u)' = Children(u)
<1>1. \A p \in Proc :
        /\ Young(p)' <=> Young(p)
        /\ pc'[p] \in Leaving <=> pc[p] \in Leaving
        /\ pc'[p] = "free" <=> pc[p] = "free"
        /\ pc'[p] = "new" <=> pc[p] = "new"
        /\ pc'[p] = "unhashed" <=> pc[p] = "unhashed"
        /\ pc'[p] = "pid" <=> pc[p] = "pid"
        /\ pc'[p] = "link" <=> pc[p] = "link"
        /\ pc'[p] \in Making => on'[p] = on[p]
  BY MovesKeep DEF Gets, Making
<1>2. \A p \in Proc : /\ proc'[p].pid = proc[p].pid /\ proc'[p].parent = proc[p].parent
                      /\ proc'[p].parentpid = proc[p].parentpid
                      /\ proc'[p].nchild = proc[p].nchild
                      /\ p # t => proc'[p].nwait = proc[p].nwait /\ proc'[p].waitq = proc[p].waitq
  BY DEF Gets
<1>3. UNCHANGED pidalloc /\ UNCHANGED free /\ UNCHANGED owner /\ UNCHANGED astray
  BY DEF Gets
<1>4. \A u \in Proc : Children(u)' = Children(u)
  BY <1>1, <1>2, <1>3, ChildrenSame
<1>5. /\ proc[t].waitq \in Seq(Pid) /\ proc[t].waitq # <<>> /\ c = Head(proc[t].waitq)
      /\ proc'[t].waitq = Tail(proc[t].waitq)
  BY FieldTypes DEF Gets
<1>6. Distinct(proc[t].waitq) /\ Holds(t, c) /\ c \in Pid
  BY <1>5, HeadOn DEF Base, RecInv, Holds
<1>7. Distinct(proc'[t].waitq) /\ \A d : On(proc'[t].waitq, d) <=> On(proc[t].waitq, d) /\ d # c
  BY <1>5, <1>6, TailOn, TailDistinct
<1>8. FreeInv'
  BY <1>1, <1>3 DEF Base, FreeInv
<1>9. MakeInv'
  BY <1>1, ProcAssumption DEF Base, MakeInv, Making
<1>10. PidInv'
  <2>1. PidInv
    BY DEF Base
  <2>2. \A p \in Proc : pc[p] \in Making => on[p] \in Proc
    BY DEF Base, MakeInv
  <2>3. /\ \A q \in Proc : pc'[q] = "pid" => proc'[on'[q]].pid = 0
        /\ \A q \in Proc : pc'[q] = "link" => proc'[on'[q]].pid # 0
    BY <1>1, <1>2, <2>1, <2>2 DEF PidInv, Making
  <2> QED
    BY <1>1, <1>2, <1>3, <2>1, <2>3 DEF PidInv
<1>11. OwnerInv'
  BY <1>1, <1>2, <1>3 DEF Base, OwnerInv
<1>12. ParentInv'
  BY <1>1, <1>2, <1>3 DEF Base, ParentInv
<1>13. NewInv' /\ AstrayInv'
  BY <1>1, <1>2, <1>3, AstraySame DEF Base, NewInv
<1>14. RecInv'
  <2>1. \A u \in Proc : \A d : Holds(u, d)' <=> Holds(u, d) /\ (u # t \/ d # c)
    BY <1>2, <1>7 DEF Holds
  <2>2. got' = got \cup {<<proc[t].pid, c>>}
    BY DEF Gets
  <2>3. PICK r : r = <<proc[t].pid, c>>
    OBVIOUS
  <2>4. got' = got \cup {r} /\ r[1] = proc[t].pid /\ r[2] = c
    BY <2>2, <2>3
  <2>5. \A d : Gone(d)' <=> Gone(d) \/ d = c
    BY <2>4 DEF Gone
  <2>6. ~Gone(c) /\ c <= pidalloc /\ (owner[c] # 0 => proc[t].pid \in {owner[c], 0})
    BY <1>6 DEF Base, RecInv
  <2>7. \A u \in Proc : Distinct(proc'[u].waitq)
    BY <1>2, <1>7 DEF Base, RecInv
  <2>8. ASSUME NEW u \in Proc, NEW d \in Pid, Holds(u, d)' PROVE ~Gone(d)' /\ d <= pidalloc'
    <3>1. Holds(u, d) /\ (u # t \/ d # c)
      BY <2>1, <2>8
    <3>2. d # c
      BY <1>6, <3>1 DEF Base, RecInv
    <3> QED
      BY <1>3, <2>5, <3>1, <3>2 DEF Base, RecInv
  <2>9. \A u, v \in Proc, d \in Pid : Holds(u, d)' /\ Holds(v, d)' => u = v
    BY <2>1 DEF Base, RecInv
  <2>10. \A u \in Proc, d \in Pid : Holds(u, d)' /\ owner'[d] # 0 =>
           proc'[u].pid \in {owner'[d], 0} /\ pc'[u] # "new"
    BY <1>1, <1>2, <1>3, <2>1 DEF Base, RecInv
  <2>11. \A d \in Pid : Gone(d)' => d <= pidalloc'
    BY <1>3, <2>5, <2>6 DEF Base, RecInv
  <2>12. ASSUME NEW p \in Proc, (Young(p) \/ pc[p] = "new")', proc'[p].pid # 0
         PROVE  ~Gone(proc[p].pid)' /\ \A u \in Proc : ~Holds(u, proc[p].pid)'
    <3>1. Young(p) \/ pc[p] = "new"
      BY <1>1, <2>12
    <3>2. ~Gone(proc[p].pid) /\ \A u \in Proc : ~Holds(u, proc[p].pid)
      BY <1>2, <2>12, <3>1 DEF Base, RecInv
    <3>3. PICK d : d = proc[p].pid
      OBVIOUS
    <3>4. proc'[p].pid = d /\ d # c
      BY <1>2, <1>6, <3>2, <3>3
    <3> QED
      BY <2>1, <2>5, <3>2, <3>3, <3>4
  <2>13. \A g \in got' : owner'[g[2]] # 0 => g[1] \in {owner'[g[2]], 0}
    BY <1>3, <2>4, <2>6 DEF Base, RecInv
  <2>14. \A g, h \in got' : g[2] = h[2] => g = h
    BY <2>4, <2>6 DEF Base, RecInv, Gone
  <2> QED
    BY <2>7, <2>8, <2>9, <2>10, <2>11, <2>12, <2>13, <2>14 DEF RecInv
<1>15. CountInv'
  <2>1. ASSUME NEW u \in Proc PROVE proc'[u].nwait = Len(proc'[u].waitq)
    <3>1. proc[u].nwait = Len(proc[u].waitq)
      BY DEF Base, CountInv
    <3>2. CASE u = t
      <4>1. Len(Tail(proc[t].waitq)) = Len(proc[t].waitq) - 1
        BY <1>5
      <4> QED
        BY <1>5, <3>1, <3>2, <4>1 DEF Gets
    <3> QED
      BY <1>2, <3>1, <3>2
  <2>2. \A u \in Proc : Countable(u)' =>
          proc'[u].nchild = Cardinality(Children(u)') - Cardinality(astray'[u])
    BY <1>1, <1>2, <1>3, <1>4 DEF Base, CountInv, Countable
  <2> QED
    BY <2>1, <2>2 DEF CountInv
<1> QED
  BY <1>4, <1>8, <1>9, <1>10, <1>11, <1>12, <1>13, <1>14, <1>15 DEF Base
-----------------------------------------------------------------------------
(* Waking t's sleeper: it is the holder of t's qwaitr, and nobody else's   *)
(* place changes.                                                          *)
LEMMA WokenIs ==
  ASSUME TypeOK, LockInv, NEW t \in Proc, NEW w, w = Woken(t)
  PROVE  /\ w \in [Proc -> Places]
         /\ \A q \in Proc : \/ w[q] = pc[q]
                            \/ on[q] = t /\ pc[q] = "sleep" /\ w[q] = "take"
                            \/ on[q] = t /\ pc[q] = "rsleep" /\ w[q] = "woken"
         /\ \A q \in Proc : on[q] = t => w[q] \notin {"sleep", "rsleep"}
<1>1. \A q \in Proc : qwaitr[t] = q => on[q] = t
  BY DEF LockInv
<1>2. \A q \in Proc : on[q] = t /\ pc[q] \in {"sleep", "rsleep"} => qwaitr[t] = q
  BY DEF LockInv, Own, Reading
<1>3. qwaitr[t] \in Proc \cup {Nil} /\ pc \in [Proc -> Places]
  BY DEF TypeOK
<1>4. CASE qwaitr[t] = Nil
  <2>1. w = pc
    BY <1>4 DEF Woken
  <2> QED
    BY <1>2, <1>3, <1>4, <2>1, ProcAssumption
<1>5. ASSUME NEW h \in Proc, h = qwaitr[t]
      PROVE  /\ w \in [Proc -> Places]
             /\ \A q \in Proc : \/ w[q] = pc[q]
                                \/ on[q] = t /\ pc[q] = "sleep" /\ w[q] = "take"
                                \/ on[q] = t /\ pc[q] = "rsleep" /\ w[q] = "woken"
             /\ \A q \in Proc : on[q] = t => w[q] \notin {"sleep", "rsleep"}
  <2>1. h # Nil
    BY ProcAssumption
  <2>2. w = IF pc[h] = "sleep" THEN [pc EXCEPT ![h] = "take"]
            ELSE IF pc[h] = "rsleep" THEN [pc EXCEPT ![h] = "woken"] ELSE pc
    BY <1>5, <2>1 DEF Woken
  <2>3. w \in [Proc -> Places]
    BY <1>3, <2>2 DEF Places, Own, Reading
  <2>4. on[h] = t
    BY <1>1, <1>5
  <2> QED
    BY <1>2, <1>3, <1>5, <2>2, <2>3, <2>4
<1> QED
  BY <1>3, <1>4, <1>5

(* Nobody takes or gives back a qwaitr.                                    *)
LEMMA LockSame ==
  ASSUME LockInv, UNCHANGED qwaitr,
         \A p \in Proc : pc[p] \in Own \cup Reading \/ pc'[p] \in Own \cup Reading
            => /\ pc'[p] \in Own <=> pc[p] \in Own
               /\ pc'[p] \in Reading <=> pc[p] \in Reading
               /\ on'[p] = on[p]
  PROVE  LockInv'
<1>1. \A p \in Proc : pc'[p] \in Own \cup Reading => pc[p] \in Own \cup Reading
  OBVIOUS
<1>2. \A q \in Proc : pc'[q] \in Own \cup Reading => on'[q] \in Proc /\ qwaitr'[on'[q]] = q
  BY <1>1 DEF LockInv
<1>3. \A q \in Proc : pc'[q] \in Own => on'[q] = q
  BY DEF LockInv
<1>4. \A t, q \in Proc : qwaitr'[t] = q => on'[q] = t /\ pc'[q] \in Own \cup Reading
  BY DEF LockInv
<1> QED
  BY <1>2, <1>3, <1>4 DEF LockInv

(* q takes t's.                                                            *)
LEMMA LockTaken ==
  ASSUME TypeOK, LockInv, NEW q \in Proc, NEW t \in Proc,
         pc[q] = "run", qwaitr[t] = Nil,
         qwaitr' = [qwaitr EXCEPT ![t] = q], on' = [on EXCEPT ![q] = t],
         \A p \in Proc : p # q => pc'[p] = pc[p],
         pc'[q] \in Own \cup Reading, pc'[q] \in Own => t = q
  PROVE  LockInv' /\ qwaitr' \in [Proc -> Proc \cup {Nil}]
         /\ on' \in [Proc -> Proc \cup {Nil}]
<1>1. qwaitr \in [Proc -> Proc \cup {Nil}] /\ on \in [Proc -> Proc \cup {Nil}]
  BY DEF TypeOK
<1>2. pc[q] \notin Own \cup Reading
  BY DEF Own, Reading
<1>3. \A p \in Proc : qwaitr'[p] = IF p = t THEN q ELSE qwaitr[p]
  BY <1>1
<1>4. \A p \in Proc : on'[p] = IF p = q THEN t ELSE on[p]
  BY <1>1
<1>5. \A p \in Proc : pc'[p] \in Own \cup Reading => on'[p] \in Proc /\ qwaitr'[on'[p]] = p
  BY <1>3, <1>4, ProcAssumption DEF LockInv
<1>6. \A p \in Proc : pc'[p] \in Own => on'[p] = p
  BY <1>4 DEF LockInv
<1>7. \A u, p \in Proc : qwaitr'[u] = p => on'[p] = u /\ pc'[p] \in Own \cup Reading
  BY <1>2, <1>3, <1>4 DEF LockInv
<1> QED
  BY <1>1, <1>5, <1>6, <1>7 DEF LockInv

(* q gives back the one it holds.                                          *)
LEMMA LockFreed ==
  ASSUME TypeOK, LockInv, NEW q \in Proc, pc[q] \in Own \cup Reading, Release(q)
  PROVE  /\ LockInv' /\ Moves
         /\ qwaitr' \in [Proc -> Proc \cup {Nil}] /\ on' \in [Proc -> Proc \cup {Nil}]
         /\ pc'[q] = "run" /\ \A p \in Proc : p # q => pc'[p] = pc[p] /\ on'[p] = on[p]
<1>1. /\ qwaitr \in [Proc -> Proc \cup {Nil}] /\ on \in [Proc -> Proc \cup {Nil}]
      /\ pc \in [Proc -> Places]
  BY DEF TypeOK
<1>2. PICK t \in Proc : t = on[q]
  BY DEF LockInv
<1>3. qwaitr[t] = q
  BY <1>2 DEF LockInv
<1>4. \A p \in Proc : qwaitr'[p] = IF p = t THEN Nil ELSE qwaitr[p]
  BY <1>1, <1>2 DEF Release
<1>5. \A p \in Proc : on'[p] = IF p = q THEN Nil ELSE on[p]
  BY <1>1 DEF Release
<1>6. pc' \in [Proc -> Places] /\ \A p \in Proc : pc'[p] = IF p = q THEN "run" ELSE pc[p]
  BY <1>1 DEF Release, Go, Places
<1>7. pc'[q] \notin Own \cup Reading
  BY <1>6 DEF Own, Reading
<1>8. \A p \in Proc : pc'[p] \in Own \cup Reading => on'[p] \in Proc /\ qwaitr'[on'[p]] = p
  BY <1>2, <1>3, <1>4, <1>5, <1>6, <1>7 DEF LockInv
<1>9. \A p \in Proc : pc'[p] \in Own => on'[p] = p
  BY <1>5, <1>6, <1>7 DEF LockInv
<1>10. \A u, p \in Proc : qwaitr'[u] = p => on'[p] = u /\ pc'[p] \in Own \cup Reading
  BY <1>2, <1>4, <1>5, <1>6, ProcAssumption DEF LockInv
<1>11. Moves
  BY <1>5, <1>6 DEF Moves, Busy, Making, Own, Reading
<1>12. qwaitr' \in [Proc -> Proc \cup {Nil}] /\ on' \in [Proc -> Proc \cup {Nil}]
  BY <1>1, <1>2 DEF Release
<1> QED
  BY <1>5, <1>6, <1>8, <1>9, <1>10, <1>11, <1>12 DEF LockInv

(* Who goes on waiting still has what it waits with.                       *)
LEMMA WaitSame ==
  ASSUME WaitInv,
         \A p \in Proc : pc'[p] \in Own => /\ pc'[p] = pc[p]
                                           /\ proc'[p].waitq = proc[p].waitq
                                           /\ Due(p) => Due(p)'
  PROVE  WaitInv'
<1>1. \A p \in Proc : pc'[p] = "wait" => proc'[p].waitq # <<>> \/ Due(p)'
  BY DEF WaitInv, Own
<1>2. \A p \in Proc : pc'[p] = "sleep" => proc'[p].waitq = <<>> /\ Due(p)'
  BY DEF WaitInv, WaitsEnd, SleepsForOne, Due, Own
<1>3. \A p \in Proc : pc'[p] = "take" => proc'[p].waitq # <<>>
  BY DEF WaitInv, WaitsEnd, TakeFinds, Own
<1> QED
  BY <1>1, <1>2, <1>3 DEF WaitInv, WaitsEnd, SleepsForOne, TakeFinds, Due
-----------------------------------------------------------------------------
(* Collecting a record leaves everything in order.                         *)
LEMMA CollectInv ==
  ASSUME PInv, NEW q \in Proc, pc[q] \in Own \cup Reading, NEW t, t = on[q],
         proc[t].waitq # <<>>, Collect(q),
         UNCHANGED <<pidalloc, free, broken, owner, astray, freed>>,
         seen' \in [Proc -> 0..MaxPid]
  PROVE  PInv'
<1>1. TypeOK /\ Base /\ LockInv /\ WaitInv
  BY DEF PInv
<1>2. t \in Proc /\ qwaitr[t] = q
  BY <1>1 DEF LockInv
<1>3. /\ LockInv' /\ Moves
      /\ qwaitr' \in [Proc -> Proc \cup {Nil}] /\ on' \in [Proc -> Proc \cup {Nil}]
      /\ pc'[q] = "run" /\ \A p \in Proc : p # q => pc'[p] = pc[p] /\ on'[p] = on[p]
  BY <1>1, LockFreed DEF Collect
<1>4. PICK c : c = Head(proc[t].waitq)
  OBVIOUS
<1>5. /\ proc[t].waitq \in Seq(Pid) /\ proc[t].pid \in 0..MaxPid
      /\ c \in Pid /\ proc[t].nwait \in 0..Limit
  <2>1. proc[t].waitq \in Seq(Pid) /\ proc[t].nwait \in 0..Limit
    BY <1>1, <1>2, FieldTypes
  <2>2. proc[t].pid \in 0..MaxPid
    BY <1>1, <1>2 DEF TypeOK, Fields
  <2> QED
    BY <1>4, <2>1, <2>2, HeadOn
<1>6. proc[t].nwait = Len(proc[t].waitq) /\ proc[t].nwait - 1 \in 0..Limit
  <2>1. proc[t].nwait = Len(proc[t].waitq)
    BY <1>1, <1>2 DEF Base, CountInv
  <2>2. Len(proc[t].waitq) # 0 /\ Len(proc[t].waitq) \in Nat
    BY <1>5
  <2> QED
    BY <1>5, <2>1, <2>2, LimitAssumption
<1>7. Gets(t, c)
  <2>1. PICK v : v = [proc[t] EXCEPT !.waitq = Tail(proc[t].waitq), !.nwait = proc[t].nwait - 1]
    OBVIOUS
  <2>2. proc[t] \in Fields /\ proc \in [Proc -> Fields]
    BY <1>1, <1>2 DEF TypeOK
  <2>3. proc' = [proc EXCEPT ![t] = v]
    <3>1. proc' = [proc EXCEPT ![t].waitq = Tail(@), ![t].nwait = @ - 1]
      BY DEF Collect
    <3> QED
      BY <1>2, <2>1, <2>2, <3>1 DEF Fields
  <2>4. /\ v \in Fields /\ v.pid = proc[t].pid /\ v.parent = proc[t].parent
        /\ v.parentpid = proc[t].parentpid /\ v.nchild = proc[t].nchild
        /\ v.waitq = Tail(proc[t].waitq) /\ v.nwait = proc[t].nwait - 1
    <3>1. Tail(proc[t].waitq) \in Seq(Pid)
      BY <1>5
    <3> QED
      BY <1>6, <2>1, <2>2, <3>1 DEF Fields
  <2>5. proc' \in [Proc -> Fields] /\ proc'[t] = v /\ \A p \in Proc : p # t => proc'[p] = proc[p]
    BY <1>2, <2>2, <2>3, <2>4
  <2>6. got' = got \cup {<<proc[t].pid, c>>}
    BY <1>4 DEF Collect
  <2>7. \A p \in Proc :
          /\ proc'[p].pid = proc[p].pid /\ proc'[p].parent = proc[p].parent
          /\ proc'[p].parentpid = proc[p].parentpid
          /\ proc'[p].nchild = proc[p].nchild
          /\ p # t => proc'[p].nwait = proc[p].nwait /\ proc'[p].waitq = proc[p].waitq
    BY <2>4, <2>5
  <2>8. proc'[t].waitq = Tail(proc[t].waitq) /\ proc'[t].nwait = proc[t].nwait - 1
    BY <2>4, <2>5
  <2> QED
    BY <1>3, <1>4, <2>5, <2>6, <2>7, <2>8 DEF Gets
<1>8. Base' /\ \A u \in Proc : Children(u)' = Children(u)
  BY <1>1, <1>2, <1>7, GetsBase
<1>9. WaitInv'
  <2>1. ASSUME NEW p \in Proc, pc'[p] \in Own
        PROVE  pc'[p] = pc[p] /\ p # q /\ p # t
    <3>1. p # q
      BY <1>3, <2>1 DEF Own
    <3>2. pc'[p] = pc[p]
      BY <1>3, <3>1
    <3>3. on[p] = p /\ qwaitr[p] = p
      BY <1>1, <2>1, <3>2 DEF LockInv
    <3> QED
      BY <1>2, <3>1, <3>2, <3>3
  <2>2. \A p \in Proc : pc'[p] \in Own => /\ pc'[p] = pc[p]
                                          /\ proc'[p].waitq = proc[p].waitq
                                          /\ Due(p) => Due(p)'
    BY <1>7, <1>8, <2>1 DEF Gets, Due
  <2> QED
    BY <1>1, <2>2, WaitSame
<1>11. TypeOK'
  <2>1. /\ proc' \in [Proc -> Fields] /\ pc' \in [Proc -> Places]
        /\ UNCHANGED pidalloc /\ UNCHANGED free /\ UNCHANGED owner
        /\ UNCHANGED astray /\ UNCHANGED freed
        /\ got' = got \cup {<<proc[t].pid, c>>}
    BY <1>7 DEF Gets, Moves
  <2>2. got' \subseteq (0..MaxPid) \X Pid
    <3>1. <<proc[t].pid, c>> \in (0..MaxPid) \X Pid
      BY <1>5
    <3>2. got \subseteq (0..MaxPid) \X Pid
      BY <1>1 DEF TypeOK
    <3> QED
      BY <2>1, <3>1, <3>2
  <2> QED
    BY <1>1, <1>3, <2>1, <2>2 DEF TypeOK
<1> QED
  BY <1>3, <1>8, <1>9, <1>11 DEF PInv
-----------------------------------------------------------------------------
(* The type invariant after a quiet step.                                  *)
LEMMA QuietType ==
  ASSUME TypeOK, Quiet, broken' \in Seq(Proc),
         qwaitr' \in [Proc -> Proc \cup {Nil}], on' \in [Proc -> Proc \cup {Nil}],
         seen' \in [Proc -> 0..MaxPid]
  PROVE  TypeOK'
<1>1. /\ UNCHANGED proc /\ UNCHANGED pidalloc /\ UNCHANGED free /\ UNCHANGED owner
      /\ UNCHANGED got /\ UNCHANGED astray
      /\ UNCHANGED freed /\ pc' \in [Proc -> Places]
  BY DEF Quiet, Moves
<1> QED
  BY <1>1 DEF TypeOK

(* A step by which broken processes only are moved.                        *)
LEMMA BreaksInv ==
  ASSUME PInv, broken' \in Seq(Proc), pc' \in [Proc -> Places],
         \A p \in Proc : pc'[p] = pc[p] \/ (pc[p] \in Stopping /\ pc'[p] \in Stopping),
         UNCHANGED <<proc, pidalloc, free, qwaitr, on, seen, history>>
  PROVE  PInv'
<1>1. TypeOK /\ Base /\ LockInv /\ WaitInv
  BY DEF PInv
<1>2. Quiet
  BY DEF Quiet, Moves, history
<1>3. UNCHANGED qwaitr /\ UNCHANGED on /\ UNCHANGED seen /\ UNCHANGED proc
  OBVIOUS
<1>4. TypeOK'
  BY <1>1, <1>2, <1>3, QuietType DEF TypeOK
<1>5. Base' /\ \A t \in Proc : Children(t)' = Children(t)
  BY <1>1, <1>2, QuietBase
<1>6. \A p \in Proc : pc[p] \in Own \cup Reading \/ pc'[p] \in Own \cup Reading => pc'[p] = pc[p]
  BY DEF Stopping, Leaving, Own, Reading
<1>7. LockInv'
  BY <1>1, <1>3, <1>6, LockSame
<1>8. WaitInv'
  BY <1>1, <1>3, <1>5, <1>6, WaitSame DEF Due, history
<1> QED
  BY <1>4, <1>5, <1>7, <1>8 DEF PInv

(* Readying a broken process moves nobody else.                            *)
LEMMA ReadyIs ==
  ASSUME TypeOK, NEW b
  PROVE  /\ Ready(b) \in [Proc -> Places]
         /\ \A p \in Proc : Ready(b)[p] = pc[p] \/ (pc[p] = "broken" /\ Ready(b)[p] = "gone")
  BY DEF TypeOK, Ready, Places, Leaving

(* addbroken and unbreak move stopped processes only, whichever is         *)
(* readied.                                                                *)
LEMMA AddBrokenInv ==
  ASSUME PInv, NEW p \in Proc, AddBroken(p)
  PROVE  PInv'
<1>1. TypeOK
  BY DEF PInv
<1>2. broken \in Seq(Proc) /\ NBROKEN \in Nat \ {0}
  BY <1>1, LimitAssumption DEF TypeOK
<1>3. CASE Len(broken) = NBROKEN
  <2>1. PICK w : w = Ready(Head(broken))
    OBVIOUS
  <2>2. /\ broken' = Append(Tail(broken), p) /\ pc' = [w EXCEPT ![p] = "adding"]
        /\ UNCHANGED <<proc, pidalloc, free, qwaitr, on, seen, history>> /\ pc[p] = "left"
    BY <1>3, <2>1 DEF AddBroken
  <2>3. broken' \in Seq(Proc)
    BY <1>2, <1>3, <2>2
  <2>4. w \in [Proc -> Places]
        /\ \A x \in Proc : w[x] = pc[x] \/ (pc[x] = "broken" /\ w[x] = "gone")
    BY <1>1, <2>1, ReadyIs
  <2>5. pc' \in [Proc -> Places]
        /\ \A x \in Proc : pc'[x] = pc[x] \/ (pc[x] \in Stopping /\ pc'[x] \in Stopping)
    BY <2>2, <2>4 DEF Places, Leaving, Stopping
  <2> QED
    BY <2>2, <2>3, <2>5, BreaksInv
<1>4. CASE Len(broken) # NBROKEN
  <2>1. /\ broken' = Append(broken, p) /\ pc' = [pc EXCEPT ![p] = "adding"]
        /\ UNCHANGED <<proc, pidalloc, free, qwaitr, on, seen, history>> /\ pc[p] = "left"
    BY <1>4 DEF AddBroken, Go
  <2>2. broken' \in Seq(Proc)
    BY <1>2, <2>1
  <2>3. pc' \in [Proc -> Places]
        /\ \A x \in Proc : pc'[x] = pc[x] \/ (pc[x] \in Stopping /\ pc'[x] \in Stopping)
    BY <1>1, <2>1 DEF TypeOK, Places, Leaving, Stopping
  <2> QED
    BY <2>1, <2>2, <2>3, BreaksInv
<1> QED
  BY <1>3, <1>4

(* sched leaves the process in the state Broken.                           *)
LEMMA BreakInv ==
  ASSUME PInv, NEW p \in Proc, Break(p)
  PROVE  PInv'
<1>1. /\ pc' = [pc EXCEPT ![p] = "broken"] /\ pc[p] = "adding"
      /\ UNCHANGED <<proc, pidalloc, free, qwaitr, on, seen, history>> /\ UNCHANGED broken
  BY DEF Break, Go
<1>2. pc' \in [Proc -> Places] /\ broken' \in Seq(Proc)
      /\ \A x \in Proc : pc'[x] = pc[x] \/ (pc[x] \in Stopping /\ pc'[x] \in Stopping)
  BY <1>1 DEF PInv, TypeOK, Places, Leaving, Stopping
<1> QED
  BY <1>1, <1>2, BreaksInv

(* A broken process that was readied goes on to exit.                      *)
LEMMA ResumeInv ==
  ASSUME PInv, NEW p \in Proc, Resume(p)
  PROVE  PInv'
<1>1. /\ pc' = [pc EXCEPT ![p] = "gone"] /\ pc[p] = "broken"
      /\ UNCHANGED <<proc, pidalloc, free, qwaitr, on, seen, history>> /\ UNCHANGED broken
  BY DEF Resume, Go
<1>2. pc' \in [Proc -> Places] /\ broken' \in Seq(Proc)
      /\ \A x \in Proc : pc'[x] = pc[x] \/ (pc[x] \in Stopping /\ pc'[x] \in Stopping)
  BY <1>1 DEF PInv, TypeOK, Places, Leaving, Stopping
<1> QED
  BY <1>1, <1>2, BreaksInv

(* What is left of a list when one of its elements is unlinked             *)
LEMMA RemoveFirstType ==
  ASSUME NEW S, NEW s \in Seq(S), NEW x
  PROVE  RemoveFirst(s, x) \in Seq(S)
<1> DEFINE I == {i \in 1..Len(s) : s[i] = x}
           i == SelectInSeq(s, LAMBDA v : v = x)
<1>1. i = IF I # {} THEN Min(I) ELSE 0
  BY DEF SelectInSeq
<1>2. RemoveFirst(s, x) = IF I # {} THEN SubSeq(s, 1, i - 1) \o SubSeq(s, i + 1, Len(s)) ELSE s
  BY DEF RemoveFirst, RemoveAt
<1> HIDE DEF i
<1>3. CASE I # {}
  <2>1. \E z \in I : \A y \in I : z <= y
    <3>1. I \subseteq Nat
      OBVIOUS
    <3> QED
      BY <1>3, <3>1, LeastNat
  <2>2. i \in I
    BY <1>1, <1>3, <2>1 DEF Min
  <2>3. i \in 1..Len(s)
    BY <2>2
  <2>4. SubSeq(s, 1, i - 1) \in Seq(S) /\ SubSeq(s, i + 1, Len(s)) \in Seq(S)
    BY <2>3
  <2> QED
    BY <1>2, <1>3, <2>4
<1> QED
  BY <1>2, <1>3

(* unbreak takes it from the table and readies it if it has stopped.       *)
LEMMA UnbreakInv ==
  ASSUME PInv, NEW p \in Proc, Unbreak(p)
  PROVE  PInv'
<1>1. PICK w : w = Ready(p)
  OBVIOUS
<1>2. /\ pc' = w /\ broken' = RemoveFirst(broken, p)
      /\ UNCHANGED <<proc, pidalloc, free, qwaitr, on, seen, history>>
  BY <1>1 DEF Unbreak
<1>3. TypeOK
  BY DEF PInv
<1>4. w \in [Proc -> Places]
      /\ \A x \in Proc : w[x] = pc[x] \/ (pc[x] = "broken" /\ w[x] = "gone")
  BY <1>1, <1>3, ReadyIs
<1>5. broken' \in Seq(Proc)
  BY <1>2, <1>3, RemoveFirstType DEF TypeOK
<1>6. \A x \in Proc : pc'[x] = pc[x] \/ (pc[x] \in Stopping /\ pc'[x] \in Stopping)
  BY <1>2, <1>4 DEF Stopping, Leaving
<1> QED
  BY <1>2, <1>4, <1>5, <1>6, BreaksInv
-----------------------------------------------------------------------------
(* One running process goes from one of its places to another.             *)
LEMMA GoBusy ==
  ASSUME TypeOK, NEW q \in Proc, pc[q] \in Busy, NEW x \in Busy, Go(q, x)
  PROVE  /\ pc' \in [Proc -> Places] /\ pc'[q] = x
         /\ \A p \in Proc : p # q => pc'[p] = pc[p]
         /\ \A p \in Proc : pc'[p] = pc[p] \/ (pc[p] \in Busy /\ pc'[p] \in Busy)
<1>1. x \in Places
  BY DEF Busy, Places
<1> QED
  BY <1>1 DEF TypeOK, Go

(* A reader or waiter goes on holding its qwaitr, and changes no structure. *)
LEMMA HoldInv ==
  ASSUME PInv, NEW q \in Proc, NEW x,
         pc[q] \in Own => x \in Own, pc[q] \in Reading => x \in Reading,
         pc[q] \in Own \cup Reading, Go(q, x),
         UNCHANGED <<proc, pidalloc, free, broken, qwaitr, on, history>>,
         seen' \in [Proc -> 0..MaxPid],
         x = "wait" => proc[q].waitq # <<>> \/ Due(q),
         x = "sleep" => proc[q].waitq = <<>> /\ Due(q),
         x = "take" => proc[q].waitq # <<>>
  PROVE  PInv'
<1>1. TypeOK /\ Base /\ LockInv /\ WaitInv
  BY DEF PInv
<1>2. pc[q] \in Busy /\ x \in Busy
  BY DEF Busy
<1>3. /\ pc' \in [Proc -> Places] /\ pc'[q] = x
      /\ \A p \in Proc : p # q => pc'[p] = pc[p]
      /\ \A p \in Proc : pc'[p] = pc[p] \/ (pc[p] \in Busy /\ pc'[p] \in Busy)
  BY <1>1, <1>2, GoBusy
<1>4. UNCHANGED on /\ UNCHANGED qwaitr /\ UNCHANGED proc /\ UNCHANGED broken
  OBVIOUS
<1>5. Quiet
  BY <1>3, <1>4 DEF Quiet, Moves, history
<1>6. Base' /\ \A t \in Proc : Due(t)' = Due(t)
  BY <1>1, <1>5, QuietBase DEF Due, history
<1>7. TypeOK'
  BY <1>1, <1>4, <1>5, QuietType DEF TypeOK
<1>8. Own \cap Reading = {}
  BY DEF Own, Reading
<1>9. LockInv'
  BY <1>1, <1>3, <1>4, <1>8, LockSame
<1>10. WaitInv'
  <2>1. \A p \in Proc : pc'[p] = "wait" => proc'[p].waitq # <<>> \/ Due(p)'
    BY <1>1, <1>3, <1>4, <1>6 DEF WaitInv
  <2>2. \A p \in Proc : pc'[p] = "sleep" => proc'[p].waitq = <<>> /\ Due(p)'
    BY <1>1, <1>3, <1>4, <1>6 DEF WaitInv, WaitsEnd, SleepsForOne, Due
  <2>3. \A p \in Proc : pc'[p] = "take" => proc'[p].waitq # <<>>
    BY <1>1, <1>3, <1>4 DEF WaitInv, WaitsEnd, TakeFinds
  <2> QED
    BY <2>1, <2>2, <2>3 DEF WaitInv, WaitsEnd, SleepsForOne, TakeFinds, Due
<1> QED
  BY <1>6, <1>7, <1>9, <1>10 DEF PInv

(* It ends with nothing.                                                   *)
LEMMA EndInv ==
  ASSUME PInv, NEW q \in Proc, pc[q] \in Own \cup Reading, Release(q),
         UNCHANGED <<proc, pidalloc, free, broken, seen, history>>
  PROVE  PInv'
<1>1. TypeOK /\ Base /\ LockInv /\ WaitInv
  BY DEF PInv
<1>2. /\ LockInv' /\ Moves
      /\ qwaitr' \in [Proc -> Proc \cup {Nil}] /\ on' \in [Proc -> Proc \cup {Nil}]
      /\ pc'[q] = "run" /\ \A p \in Proc : p # q => pc'[p] = pc[p] /\ on'[p] = on[p]
  BY <1>1, LockFreed
<1>3. UNCHANGED proc /\ UNCHANGED broken /\ UNCHANGED seen
  OBVIOUS
<1>4. Quiet
  BY <1>2 DEF Quiet, history
<1>5. Base' /\ \A t \in Proc : Children(t)' = Children(t)
  BY <1>1, <1>4, QuietBase
<1>6. TypeOK'
  BY <1>1, <1>2, <1>3, <1>4, QuietType DEF TypeOK
<1>7. \A p \in Proc : pc'[p] \in Own \cup Reading => p # q
  BY <1>2 DEF Own, Reading
<1>8. WaitInv'
  BY <1>1, <1>2, <1>3, <1>5, <1>7, WaitSame DEF Due, history
<1> QED
  BY <1>2, <1>5, <1>6, <1>8 DEF PInv

(* It begins, with t's qwaitr.                                             *)
LEMMA BeginInv ==
  ASSUME PInv, NEW q \in Proc, NEW t \in Proc, NEW x, pc[q] = "run", qwaitr[t] = Nil,
         \/ x = "wait" /\ t = q /\ (proc[q].waitq # <<>> \/ Due(q))
         \/ x = "first",
         qwaitr' = [qwaitr EXCEPT ![t] = q], on' = [on EXCEPT ![q] = t], Go(q, x),
         UNCHANGED <<proc, pidalloc, free, broken, seen, history>>
  PROVE  PInv'
<1>1. TypeOK /\ Base /\ LockInv /\ WaitInv
  BY DEF PInv
<1>2. pc[q] \in Busy /\ x \in Busy /\ x \in Own \cup Reading /\ (x \in Own => t = q)
  BY DEF Busy, Own, Reading
<1>3. /\ pc' \in [Proc -> Places] /\ pc'[q] = x
      /\ \A p \in Proc : p # q => pc'[p] = pc[p]
      /\ \A p \in Proc : pc'[p] = pc[p] \/ (pc[p] \in Busy /\ pc'[p] \in Busy)
  BY <1>1, <1>2, GoBusy
<1>4. \A p \in Proc : on'[p] = IF p = q THEN t ELSE on[p]
  BY <1>1 DEF TypeOK
<1>5. UNCHANGED proc /\ UNCHANGED broken /\ UNCHANGED seen
  OBVIOUS
<1>6. LockInv' /\ qwaitr' \in [Proc -> Proc \cup {Nil}] /\ on' \in [Proc -> Proc \cup {Nil}]
  BY <1>1, <1>2, <1>3, LockTaken
<1>7. Quiet
  <2>1. pc[q] \notin Making
    BY DEF Making
  <2>2. Moves
    BY <1>3, <1>4, <2>1 DEF Moves
  <2> QED
    BY <2>2 DEF Quiet, history
<1>8. Base' /\ \A u \in Proc : Due(u)' = Due(u)
  BY <1>1, <1>7, QuietBase DEF Due, history
<1>9. TypeOK'
  BY <1>1, <1>5, <1>6, <1>7, QuietType DEF TypeOK
<1>10. WaitInv'
  <2>1. \A p \in Proc : pc'[p] = "wait" => proc'[p].waitq # <<>> \/ Due(p)'
    BY <1>1, <1>3, <1>5, <1>8 DEF WaitInv
  <2>2. \A p \in Proc : pc'[p] = "sleep" => proc'[p].waitq = <<>> /\ Due(p)'
    BY <1>1, <1>3, <1>5, <1>8 DEF WaitInv, WaitsEnd, SleepsForOne, Due
  <2>3. \A p \in Proc : pc'[p] = "take" => proc'[p].waitq # <<>>
    BY <1>1, <1>3, <1>5 DEF WaitInv, WaitsEnd, TakeFinds
  <2> QED
    BY <2>1, <2>2, <2>3 DEF WaitInv, WaitsEnd, SleepsForOne, TakeFinds, Due
<1> QED
  BY <1>6, <1>8, <1>9, <1>10 DEF PInv

(* A process that pwait does not turn away has a record or a child, or its *)
(* count is spoiled.                                                       *)
LEMMA WaitStep ==
  ASSUME PInv, NEW p \in Proc, Wait(p)
  PROVE  PInv'
<1>1. TypeOK /\ Base
  BY DEF PInv
<1>2. pc[p] = "run" /\ qwaitr[p] = Nil /\ ~Childless(p)
  BY DEF Wait, canqlock
<1>3. proc[p].waitq # <<>> \/ Due(p)
  <2>1. Countable(p)
    BY <1>1, <1>2 DEF Countable, Leaving, Base, PidInv
  <2>2. proc[p].nchild = Cardinality(Children(p)) - Cardinality(astray[p])
    BY <1>1, <2>1 DEF Base, CountInv
  <2>3. Cardinality({}) = 0
    BY FS_EmptySet
  <2>4. proc[p].nchild # 0 \/ proc[p].waitq # <<>>
    BY <1>2 DEF Childless
  <2>5. CASE Children(p) = {} /\ astray[p] = {}
    <3>1. Cardinality(Children(p)) = 0
      BY <2>3, <2>5
    <3>2. Cardinality(astray[p]) = 0
      BY <2>3, <2>5
    <3>3. proc[p].nchild = 0
      BY <2>2, <3>1, <3>2
    <3> QED
      BY <2>4, <3>3
  <2> QED
    BY <2>5 DEF Due
<1>4. /\ qwaitr' = [qwaitr EXCEPT ![p] = p] /\ on' = [on EXCEPT ![p] = p] /\ Go(p, "wait")
      /\ UNCHANGED <<proc, pidalloc, free, broken, seen, history>>
  BY DEF Wait
<1> QED
  BY <1>2, <1>3, <1>4, BeginInv

(* A reader finds a process with a pid, and takes its qwaitr.              *)
LEMMA OpenStep ==
  ASSUME PInv, NEW q \in Proc, NEW t \in Proc, Open(q, t)
  PROVE  PInv'
<1>1. /\ pc[q] = "run" /\ qwaitr[t] = Nil
      /\ qwaitr' = [qwaitr EXCEPT ![t] = q] /\ on' = [on EXCEPT ![q] = t] /\ Go(q, "first")
      /\ UNCHANGED <<proc, pidalloc, free, broken, seen, history>>
  BY DEF Open, canqlock
<1> QED
  BY <1>1, BeginInv

(* pwait sleeps only without a record, and so for what it tested.          *)
LEMMA SleepStep ==
  ASSUME PInv, NEW p \in Proc, Sleep(p)
  PROVE  PInv'
<1>1. pc[p] = "wait" /\ (proc[p].waitq # <<>> \/ Due(p))
  BY DEF Sleep, PInv, WaitInv
<1>2. PICK x : x = IF proc[p].waitq = <<>> THEN "sleep" ELSE "take"
  OBVIOUS
<1>3. /\ Go(p, x) /\ UNCHANGED <<proc, pidalloc, free, broken, qwaitr, on, history>>
      /\ UNCHANGED seen
  BY <1>2 DEF Sleep
<1>4. /\ pc[p] \in Own /\ pc[p] \notin Reading /\ x \in Own
      /\ x # "wait"
  BY <1>1, <1>2 DEF Own, Reading
<1>5. seen' \in [Proc -> 0..MaxPid]
  BY <1>3 DEF PInv, TypeOK
<1> QED
  BY <1>1, <1>2, <1>3, <1>4, <1>5, HoldInv

(* A note ends a wait with nothing.                                        *)
LEMMA InterruptStep ==
  ASSUME PInv, NEW q \in Proc, Interrupt(q)
  PROVE  PInv'
  BY EndInv DEF Interrupt, Own, Reading

(* A reader sleeps, or is woken, whosever the structure is by now.         *)
LEMMA TestStep ==
  ASSUME PInv, NEW q \in Proc, Test(q)
  PROVE  PInv'
<1>1. pc[q] = "test"
  BY DEF Test
<1>2. PICK x : x = IF proc[on[q]].waitq = <<>> THEN "rsleep" ELSE "woken"
  OBVIOUS
<1>3. /\ Go(q, x) /\ UNCHANGED <<proc, pidalloc, free, broken, qwaitr, on, history>>
      /\ UNCHANGED seen
  BY <1>2 DEF Test
<1>4. /\ pc[q] \in Reading /\ pc[q] \notin Own /\ x \in Reading
      /\ x \notin {"wait", "sleep", "take"}
  BY <1>1, <1>2 DEF Own, Reading
<1>5. seen' \in [Proc -> 0..MaxPid]
  BY <1>3 DEF PInv, TypeOK
<1> QED
  BY <1>1, <1>3, <1>4, <1>5, HoldInv

(* Once woken, the reader goes on only if the pid is the one it saw.       *)
LEMMA CheckStep ==
  ASSUME PInv, NEW q \in Proc, Check(q)
  PROVE  PInv'
<1>1. pc[q] = "woken" /\ UNCHANGED seen
      /\ UNCHANGED <<proc, pidalloc, free, broken, seen, history>>
  BY DEF Check
<1>2. CASE proc[on[q]].pid # seen[q]
  BY <1>1, <1>2, EndInv DEF Check, Reading
<1>3. CASE proc[on[q]].pid = seen[q]
  <2>1. PICK x : x = "again"
    OBVIOUS
  <2>2. Go(q, x) /\ UNCHANGED <<proc, pidalloc, free, broken, qwaitr, on, history>>
    BY <1>3, <2>1 DEF Check
  <2>3. /\ pc[q] \in Reading /\ pc[q] \notin Own /\ x \in Reading
        /\ x \notin {"wait", "sleep", "take"}
    BY <1>1, <2>1 DEF Own, Reading
  <2>4. seen' \in [Proc -> 0..MaxPid]
    BY <1>1 DEF PInv, TypeOK
  <2> QED
    BY <1>1, <1>3, <2>2, <2>3, <2>4, HoldInv
<1> QED
  BY <1>2, <1>3

(* pwait takes a record that is there: TakeFinds.                          *)
LEMMA TakeStep ==
  ASSUME PInv, NEW p \in Proc, Take(p)
  PROVE  PInv'
<1>1. TypeOK /\ Base /\ LockInv /\ WaitInv
  BY DEF PInv
<1>2. /\ pc[p] = "take" /\ Collect(p) /\ UNCHANGED <<pidalloc, free, broken, owner, astray, freed>>
      /\ UNCHANGED seen
  BY DEF Take
<1>3. pc[p] \in Own
  BY <1>2 DEF Own
<1>4. on[p] = p /\ proc[p].waitq # <<>>
  BY <1>1, <1>2, <1>3 DEF LockInv, WaitInv, WaitsEnd, TakeFinds
<1>5. seen' \in [Proc -> 0..MaxPid]
  BY <1>1, <1>2 DEF TypeOK
<1> QED
  BY <1>2, <1>3, <1>4, <1>5, CollectInv

(* The reader looks again at the structure.                                *)
LEMMA AgainStep ==
  ASSUME PInv, NEW q \in Proc, Again(q)
  PROVE  PInv'
<1>1. TypeOK /\ LockInv
  BY DEF PInv
<1>2. PICK t : t = on[q]
  OBVIOUS
<1>3. /\ pc[q] = "again" /\ UNCHANGED <<pidalloc, free, broken, owner, astray, freed>>
      /\ UNCHANGED seen
  BY DEF Again
<1>4. seen' \in [Proc -> 0..MaxPid] /\ pc[q] \in Reading /\ pc[q] \notin Own
  BY <1>1, <1>3 DEF TypeOK, Reading, Own
<1>5. CASE proc[t].waitq # <<>>
  <2>1. Collect(q)
    BY <1>2, <1>5 DEF Again
  <2> QED
    BY <1>2, <1>3, <1>4, <1>5, <2>1, CollectInv
<1>6. CASE proc[t].waitq = <<>>
  <2>1. PICK x : x = "test"
    OBVIOUS
  <2>2. Go(q, x) /\ UNCHANGED <<proc, pidalloc, free, broken, qwaitr, on, history>>
    BY <1>2, <1>6, <2>1 DEF Again, history
  <2>3. x \in Reading /\ x \notin {"wait", "sleep", "take"}
    BY <2>1 DEF Reading
  <2> QED
    BY <1>2, <1>3, <1>4, <2>2, <2>3, HoldInv
<1> QED
  BY <1>5, <1>6

(* The reader's first look notes the pid the structure has.                *)
LEMMA FirstStep ==
  ASSUME PInv, NEW q \in Proc, First(q)
  PROVE  PInv'
<1>1. TypeOK /\ LockInv
  BY DEF PInv
<1>2. PICK t : t = on[q]
  OBVIOUS
<1>3. pc[q] = "first" /\ UNCHANGED <<pidalloc, free, broken, owner, astray, freed>>
  BY DEF First
<1>4. pc[q] \in Reading /\ pc[q] \notin Own
  BY <1>3 DEF Reading, Own
<1>5. t \in Proc /\ proc[t].pid \in 0..MaxPid
  BY <1>1, <1>2, <1>4 DEF LockInv, TypeOK, Fields
<1>6. CASE q = t /\ Childless(t)
  <2>1. Release(q) /\ UNCHANGED <<proc, pidalloc, free, broken, seen, history>>
    BY <1>2, <1>6 DEF First, history
  <2> QED
    BY <1>4, <2>1, EndInv
<1>7. CASE ~(q = t /\ Childless(t))
  <2>1. seen' = [seen EXCEPT ![q] = proc[t].pid]
    BY <1>2, <1>7 DEF First
  <2>2. seen' \in [Proc -> 0..MaxPid]
    BY <1>1, <1>5, <2>1 DEF TypeOK
  <2>3. CASE proc[t].waitq # <<>>
    <3>1. Collect(q)
      BY <1>2, <1>7, <2>3 DEF First
    <3> QED
      BY <1>2, <1>3, <1>4, <2>2, <2>3, <3>1, CollectInv
  <2>4. CASE proc[t].waitq = <<>>
    <3>1. PICK x : x = "test"
      OBVIOUS
    <3>2. Go(q, x) /\ UNCHANGED <<proc, pidalloc, free, broken, qwaitr, on, history>>
      BY <1>2, <1>7, <2>4, <3>1 DEF First, history
    <3>3. x \in Reading /\ x \notin {"wait", "sleep", "take"}
      BY <3>1 DEF Reading
    <3> QED
      BY <1>2, <1>3, <1>4, <2>2, <3>2, <3>3, HoldInv
  <2> QED
    BY <2>3, <2>4
<1> QED
  BY <1>6, <1>7
-----------------------------------------------------------------------------
(* What newproc does to a free structure, field by field.                  *)
Fills(q, p) ==
  /\ pc[q] = "run" /\ free # <<>> /\ p = Head(free) /\ p \in Proc
  /\ proc' \in [Proc -> Fields]
  /\ \A x \in Proc : /\ proc'[x].pid = proc[x].pid
                     /\ proc'[x].parentpid = proc[x].parentpid
                     /\ x # p => proc'[x] = proc[x]
  /\ proc'[p].waitq = <<>> /\ proc'[p].nchild = 0 /\ proc'[p].nwait = 0
  /\ pc' \in [Proc -> Places] /\ on' \in [Proc -> Proc \cup {Nil}]
  /\ \A x \in Proc : pc'[x] = IF x = p THEN "new" ELSE IF x = q THEN "pid" ELSE pc[x]
  /\ \A x \in Proc : on'[x] = IF x = q THEN p ELSE on[x]
  /\ free' = Tail(free)
  /\ UNCHANGED pidalloc /\ UNCHANGED broken /\ UNCHANGED qwaitr /\ UNCHANGED seen
  /\ astray' = [astray EXCEPT ![p] = {}]
  /\ UNCHANGED owner /\ UNCHANGED got /\ UNCHANGED freed

(* TakeFree does that, to a structure with no process.                     *)
LEMMA TakeFreeFills ==
  ASSUME PInv, NEW q \in Proc, TakeFree(q), NEW p, p = Head(free)
  PROVE  Fills(q, p)
<1>1. TypeOK /\ FreeInv
  BY DEF PInv, Base
<1>2. /\ pc[q] = "run" /\ free # <<>> /\ free' = Tail(free)
      /\ proc' = [proc EXCEPT ![p] = Reset(@)]
      /\ pc' = [pc EXCEPT ![q] = "pid", ![p] = "new"]
      /\ on' = [on EXCEPT ![q] = p]
      /\ UNCHANGED pidalloc /\ UNCHANGED broken /\ UNCHANGED qwaitr /\ UNCHANGED seen
      /\ astray' = [astray EXCEPT ![p] = {}]
      /\ UNCHANGED owner /\ UNCHANGED got /\ UNCHANGED freed
  BY DEF TakeFree, history
<1>3. p \in Proc /\ On(free, p)
  BY <1>1, <1>2, HeadOn DEF TypeOK
<1>4. pc[p] = "free" /\ p # q
  BY <1>1, <1>2, <1>3 DEF FreeInv
<1>5. PICK v : v = Reset(proc[p])
  OBVIOUS
<1>6. /\ v \in Fields /\ v.pid = proc[p].pid /\ v.parentpid = proc[p].parentpid
      /\ v.waitq = <<>> /\ v.nchild = 0 /\ v.nwait = 0
  <2>1. proc[p] \in Fields
    BY <1>1, <1>3 DEF TypeOK
  <2>2. 0 \in 0..Limit /\ <<>> \in Seq(Pid)
    BY LimitAssumption
  <2>3. v = [pid |-> proc[p].pid, parent |-> Nil, parentpid |-> proc[p].parentpid,
             nchild |-> 0, nwait |-> 0, waitq |-> <<>>]
    BY <1>5, <2>1 DEF Reset, Fields
  <2>4. proc[p].pid \in 0..MaxPid /\ proc[p].parentpid \in 0..MaxPid
    BY <2>1 DEF Fields
  <2> QED
    BY <2>2, <2>3, <2>4 DEF Fields
<1>7. proc' = [proc EXCEPT ![p] = v]
  BY <1>2, <1>5
<1>8. proc \in [Proc -> Fields]
  BY <1>1 DEF TypeOK
<1>9. proc' \in [Proc -> Fields] /\ proc'[p] = v /\ \A x \in Proc : x # p => proc'[x] = proc[x]
  BY <1>3, <1>6, <1>7, <1>8
<1>10. /\ pc' \in [Proc -> Places] /\ on' \in [Proc -> Proc \cup {Nil}]
       /\ \A x \in Proc : pc'[x] = IF x = p THEN "new" ELSE IF x = q THEN "pid" ELSE pc[x]
       /\ \A x \in Proc : on'[x] = IF x = q THEN p ELSE on[x]
  BY <1>1, <1>2, <1>3, <1>4 DEF TypeOK, Places, Making
<1>11. \A x \in Proc : /\ proc'[x].pid = proc[x].pid
                       /\ proc'[x].parentpid = proc[x].parentpid
                       /\ x # p => proc'[x] = proc[x]
  BY <1>6, <1>9
<1> QED
  BY <1>2, <1>3, <1>6, <1>9, <1>10, <1>11 DEF Fills

(* newproc's structure was nobody's.                                       *)
LEMMA TakeFreeStep ==
  ASSUME PInv, NEW q \in Proc, TakeFree(q)
  PROVE  PInv'
<1>1. TypeOK /\ Base /\ LockInv /\ WaitInv
  BY DEF PInv
<1>2. PICK p : p = Head(free)
  OBVIOUS
<1>3. Fills(q, p)
  BY <1>2, TakeFreeFills
<1>4. /\ pc[q] = "run" /\ free # <<>> /\ p = Head(free) /\ p \in Proc /\ free' = Tail(free)
      /\ UNCHANGED pidalloc /\ UNCHANGED broken /\ UNCHANGED qwaitr /\ UNCHANGED seen
      /\ astray' = [astray EXCEPT ![p] = {}]
      /\ UNCHANGED owner /\ UNCHANGED got /\ UNCHANGED freed
  BY <1>3 DEF Fills
<1>5. \A x \in Proc : /\ proc'[x].pid = proc[x].pid
                      /\ proc'[x].parentpid = proc[x].parentpid
                      /\ x # p => proc'[x] = proc[x]
  BY <1>3 DEF Fills
<1>6. proc'[p].waitq = <<>> /\ proc'[p].nchild = 0 /\ proc'[p].nwait = 0
  BY <1>3 DEF Fills
<1>7. /\ \A x \in Proc : pc'[x] = IF x = p THEN "new" ELSE IF x = q THEN "pid" ELSE pc[x]
      /\ \A x \in Proc : on'[x] = IF x = q THEN p ELSE on[x]
  BY <1>3 DEF Fills
<1>8. free \in Seq(Proc) /\ Distinct(free) /\ On(free, p)
  BY <1>1, <1>4, HeadOn DEF TypeOK, Base, FreeInv
<1>9. /\ pc[p] = "free" /\ p # q /\ proc[p].pid = 0
      /\ astray' \in [Proc -> SUBSET Pid]
      /\ \A x \in Proc : astray'[x] = IF x = p THEN {} ELSE astray[x]
  BY <1>1, <1>4, <1>8 DEF Base, FreeInv, PidInv, TypeOK
<1>10. \A x \in Proc : Young(x)' <=> Young(x)
  BY <1>4, <1>7, <1>9 DEF Young, Leaving
<1>11. \A x \in Proc : pc'[x] \in Leaving <=> pc[x] \in Leaving
  BY <1>4, <1>7, <1>9 DEF Leaving
<1>12. \A t \in Proc : Children(t)' = Children(t)
  BY <1>4, <1>5, <1>10, ChildrenSame
<1>13. FreeInv'
  BY <1>4, <1>7, <1>8, TailOn, TailDistinct, <1>1 DEF Base, FreeInv
<1>14. MakeInv'
  <2>1. \A x \in Proc : pc'[x] \in Making <=> x = q \/ pc[x] \in Making
    BY <1>4, <1>7, <1>9 DEF Making
  <2>2. pc[q] \notin Making /\ Young(Boot)
    BY <1>1, <1>4 DEF Making, Base, MakeInv
  <2>3. ASSUME NEW x \in Proc, pc'[x] \in Making PROVE on'[x] \in Proc /\ pc'[on'[x]] = "new"
    BY <1>1, <1>4, <1>7, <2>1, <2>3 DEF Base, MakeInv
  <2>4. ASSUME NEW x \in Proc, pc[x] \in Making PROVE on[x] # p
    BY <1>1, <1>9, <2>4 DEF Base, MakeInv
  <2>5. \A x, y \in Proc : pc'[x] \in Making /\ pc'[y] \in Making /\ on'[x] = on'[y] => x = y
    BY <1>1, <1>7, <2>1, <2>4 DEF Base, MakeInv
  <2> QED
    BY <1>10, <2>2, <2>3, <2>5, ProcAssumption DEF MakeInv
<1>15. PidInv'
  <2>1. PidInv /\ MakeInv
    BY <1>1 DEF Base
  <2>2. /\ \A x \in Proc : proc'[x].pid <= pidalloc'
        /\ \A x, y \in Proc : proc'[x].pid # 0 /\ proc'[x].pid = proc'[y].pid => x = y
    BY <1>4, <1>5, <2>1 DEF PidInv
  <2>3. /\ \A x \in Proc : pc'[x] \in {"free", "unhashed"} => proc'[x].pid = 0
        /\ \A x \in Proc : pc'[x] \notin {"free", "new", "unhashed"} => proc'[x].pid # 0
    BY <1>4, <1>5, <1>7, <2>1 DEF PidInv
  <2>4. \A x \in Proc : pc'[x] = "pid" => proc'[on'[x]].pid = 0
    BY <1>4, <1>5, <1>7, <1>9, <2>1 DEF PidInv, MakeInv, Making
  <2>5. \A x \in Proc : pc'[x] = "link" => proc'[on'[x]].pid # 0
    BY <1>4, <1>5, <1>7, <1>9, <2>1 DEF PidInv, MakeInv, Making
  <2> QED
    BY <2>2, <2>3, <2>4, <2>5 DEF PidInv
<1>16. OwnerInv'
  BY <1>1, <1>4, <1>5, <1>7, <1>9 DEF Base, OwnerInv
<1>17. ParentInv'
  <2>1. \A x \in Proc : Young(x) => x # p
    BY <1>9 DEF Young
  <2> QED
    BY <1>1, <1>4, <1>5, <1>10, <2>1 DEF Base, ParentInv
<1>18. NewInv' /\ AstrayInv'
  <2>1. NewInv'
    <3>1. Cardinality({}) = 0
      BY FS_EmptySet
    <3>2. ASSUME NEW x \in Proc, pc'[x] = "new"
          PROVE  proc'[x].nchild = 0 - Cardinality(astray'[x])
      <4>1. CASE x = p
        <5>1. astray'[x] = {} /\ proc'[x].nchild = 0
          BY <1>6, <1>9, <4>1
        <5>2. Cardinality(astray'[x]) = 0
          BY <3>1, <5>1
        <5> QED
          BY <5>1, <5>2
      <4>2. CASE x # p
        <5>1. pc[x] = "new" /\ astray'[x] = astray[x] /\ proc'[x] = proc[x]
          BY <1>5, <1>7, <1>9, <3>2, <4>2
        <5> QED
          BY <1>1, <5>1 DEF Base, NewInv
      <4> QED
        BY <4>1, <4>2
    <3> QED
      BY <3>2 DEF NewInv
  <2>2. ASSUME NEW t \in Proc, NEW c \in Pid, c \in astray'[t]
        PROVE  /\ c <= pidalloc'
               /\ \A x \in Proc : Young(x)' \/ pc'[x] = "new" => proc'[x].pid # c
    <3>1. c \in astray[t] /\ c # 0
      BY <1>9, <2>2 DEF Pid
    <3> QED
      BY <1>1, <1>4, <1>5, <1>7, <1>9, <1>10, <3>1 DEF Base, AstrayInv
  <2> QED
    BY <2>1, <2>2 DEF AstrayInv
<1>19. RecInv'
  <2>1. \A x : ~On(<<>>, x)
    BY NoneOn
  <2>2. \A t \in Proc : \A c : Holds(t, c)' <=> Holds(t, c) /\ t # p
    BY <1>5, <1>6, <2>1 DEF Holds
  <2>3. \A c : Gone(c)' <=> Gone(c)
    BY <1>4 DEF Gone
  <2>4. \A x \in Proc : (Young(x) \/ pc[x] = "new")' /\ proc'[x].pid # 0 => Young(x) \/ pc[x] = "new"
    BY <1>5, <1>7, <1>9, <1>10
  <2>5. \A t \in Proc : Distinct(proc'[t].waitq)
    BY <1>1, <1>5, <1>6 DEF Base, RecInv, Distinct
  <2>6. \A t \in Proc : t # p /\ pc'[t] = "new" => pc[t] = "new"
    BY <1>7
  <2> QED
    BY <1>1, <1>4, <1>5, <2>2, <2>3, <2>4, <2>5, <2>6 DEF Base, RecInv
<1>20. CountInv'
  <2>1. \A t \in Proc : proc'[t].nwait = Len(proc'[t].waitq)
    BY <1>1, <1>5, <1>6 DEF Base, CountInv
  <2>2. \A t \in Proc : Countable(t)' => Countable(t) /\ t # p
    BY <1>5, <1>9, <1>11 DEF Countable
  <2> QED
    BY <1>1, <1>5, <1>9, <1>12, <2>1, <2>2 DEF Base, CountInv
<1>21. LockInv'
  <2>1. \A x \in Proc : pc[x] \in Own \cup Reading \/ pc'[x] \in Own \cup Reading => x # p /\ x # q
    BY <1>4, <1>7, <1>9 DEF Own, Reading
  <2> QED
    BY <1>1, <1>4, <1>7, <2>1, LockSame
<1>22. WaitInv'
  <2>1. \A x \in Proc : pc'[x] \in Own => x # p /\ x # q
    BY <1>4, <1>7, <1>9 DEF Own
  <2> QED
    BY <1>1, <1>5, <1>7, <1>9, <1>12, <2>1, WaitSame DEF Due
<1>24. TypeOK'
  <2>1. free' \in Seq(Proc)
    BY <1>4, <1>8
  <2>2. proc' \in [Proc -> Fields] /\ pc' \in [Proc -> Places] /\ on' \in [Proc -> Proc \cup {Nil}]
    BY <1>3 DEF Fills
  <2> QED
    BY <1>1, <1>4, <1>9, <2>1, <2>2 DEF TypeOK
<1> QED
  BY <1>13, <1>14, <1>15, <1>16, <1>17, <1>18, <1>19, <1>20, <1>21, <1>22, <1>24 DEF PInv, Base
-----------------------------------------------------------------------------
(* newproc's structure c gets a pid no structure and no record has.        *)
LEMMA GivePidStep ==
  ASSUME PInv, NEW q \in Proc, GivePid(q)
  PROVE  PInv'
<1>1. TypeOK /\ Base /\ LockInv /\ WaitInv
  BY DEF PInv
<1>2. PICK c : c = on[q]
  OBVIOUS
<1>3. PICK n : n = pidalloc + 1
  OBVIOUS
<1>4. /\ pc[q] = "pid" /\ pidalloc < MaxPid /\ pidalloc' = n
      /\ proc' = [proc EXCEPT ![c].pid = n] /\ pc' = [pc EXCEPT ![q] = "link"]
      /\ UNCHANGED free /\ UNCHANGED broken /\ UNCHANGED qwaitr /\ UNCHANGED on
      /\ UNCHANGED seen /\ UNCHANGED owner /\ UNCHANGED got /\ UNCHANGED astray
      /\ UNCHANGED freed
  BY <1>2, <1>3 DEF GivePid, Go, history
<1>5. /\ pidalloc \in Nat /\ n \in Pid /\ n > pidalloc
  <2>1. pidalloc \in Nat /\ pidalloc \in 1..MaxPid /\ MaxPid \in Nat
    BY <1>1, MaxPidAssumption DEF TypeOK, Pid
  <2> QED
    BY <1>3, <1>4, <2>1 DEF Pid
<1>6. c \in Proc /\ pc[c] = "new" /\ proc[c].pid = 0 /\ c # q
  BY <1>1, <1>2, <1>4 DEF Base, MakeInv, PidInv, Making
<1>7. proc' \in [Proc -> Fields]
      /\ \A x \in Proc : /\ proc'[x].pid = IF x = c THEN n ELSE proc[x].pid
                         /\ proc'[x].parent = proc[x].parent
                         /\ proc'[x].parentpid = proc[x].parentpid
                         /\ proc'[x].nchild = proc[x].nchild
                         /\ proc'[x].nwait = proc[x].nwait
                         /\ proc'[x].waitq = proc[x].waitq
  <2>1. PICK v : v = [proc[c] EXCEPT !.pid = n]
    OBVIOUS
  <2>2. proc \in [Proc -> Fields] /\ proc[c] \in Fields
    BY <1>1, <1>6 DEF TypeOK
  <2>3. proc' = [proc EXCEPT ![c] = v]
    BY <1>4, <2>1
  <2>4. /\ v \in Fields /\ v.pid = n /\ v.parent = proc[c].parent
        /\ v.parentpid = proc[c].parentpid /\ v.nchild = proc[c].nchild
        /\ v.waitq = proc[c].waitq /\ v.nwait = proc[c].nwait
    <3>1. n \in 0..MaxPid
      BY <1>5, MaxPidAssumption DEF Pid
    <3> QED
      BY <2>1, <2>2, <3>1 DEF Fields
  <2>5. proc' \in [Proc -> Fields] /\ proc'[c] = v /\ \A x \in Proc : x # c => proc'[x] = proc[x]
    BY <1>6, <2>2, <2>3, <2>4
  <2> QED
    BY <2>4, <2>5
<1>8. pc' \in [Proc -> Places] /\ \A x \in Proc : pc'[x] = IF x = q THEN "link" ELSE pc[x]
  BY <1>1, <1>4 DEF TypeOK, Places, Making
<1>9. /\ \A x \in Proc : Young(x)' <=> Young(x)
      /\ \A x \in Proc : pc'[x] \in Leaving <=> pc[x] \in Leaving
      /\ \A x \in Proc : pc'[x] \in Making <=> pc[x] \in Making
  BY <1>4, <1>8 DEF Young, Leaving, Making
<1>10. \A x \in Proc : Young(x) => x # c /\ proc[x].pid # 0
  BY <1>1, <1>6 DEF Young, Base, PidInv, Leaving
<1>11. \A x \in Proc : proc[x].pid <= pidalloc /\ proc[x].pid \in Nat
  BY <1>1, FieldTypes DEF Base, PidInv
<1>12. \A x \in Proc : x # c => Children(x)' = Children(x)
  BY <1>4, <1>7, <1>9, <1>10, ChildrenSame
<1>13. Children(c)' = {}
  <2>1. ASSUME NEW x \in Proc, Young(x)', owner'[proc'[x].pid] = n PROVE FALSE
    <3>1. Young(x) /\ x # c /\ proc[x].pid # 0
      BY <1>9, <1>10, <2>1
    <3>2. proc[x].pid \in Pid
      BY <1>1, <3>1, PidIs
    <3>3. owner[proc[x].pid] <= pidalloc /\ owner[proc[x].pid] \in 0..MaxPid
      BY <1>1, <3>2 DEF Base, OwnerInv, TypeOK
    <3>4. owner[proc[x].pid] = n
      BY <1>4, <1>7, <2>1, <3>1
    <3> QED
      BY <1>5, <3>3, <3>4
  <2>2. Children(c)' = {x \in Proc : Young(x)' /\ owner'[proc'[x].pid] = proc'[c].pid}
    BY DEF Children, Young
  <2>3. proc'[c].pid = n
    BY <1>6, <1>7
  <2> QED
    BY <2>1, <2>2, <2>3
<1>14. FreeInv'
  BY <1>1, <1>4, <1>8 DEF Base, FreeInv
<1>15. MakeInv'
  <2>1. \A x \in Proc : pc[x] = "new" => pc'[x] = "new"
    BY <1>4, <1>8
  <2> QED
    BY <1>1, <1>4, <1>9, <2>1, ProcAssumption DEF Base, MakeInv
<1>16. PidInv'
  <2>1. \A x \in Proc : proc'[x].pid <= pidalloc'
    BY <1>3, <1>4, <1>5, <1>7, <1>11
  <2>2. ASSUME NEW x \in Proc, NEW y \in Proc, proc'[x].pid # 0, proc'[x].pid = proc'[y].pid
        PROVE  x = y
    <3>1. \A z \in Proc : proc[z].pid # n
      BY <1>5, <1>11
    <3>2. CASE x # c /\ y # c
      BY <1>1, <1>7, <2>2, <3>2 DEF Base, PidInv
    <3>3. CASE x = c \/ y = c
      BY <1>7, <2>2, <3>1, <3>3
    <3> QED
      BY <3>2, <3>3
  <2>3. /\ \A x \in Proc : pc'[x] \in {"free", "unhashed"} => proc'[x].pid = 0
        /\ \A x \in Proc : pc'[x] \notin {"free", "new", "unhashed"} => proc'[x].pid # 0
    BY <1>1, <1>4, <1>6, <1>7, <1>8 DEF Base, PidInv
  <2>4. ASSUME NEW x \in Proc, pc'[x] = "pid" PROVE proc'[on'[x]].pid = 0
    <3>1. x # q /\ pc[x] = "pid"
      BY <1>8, <2>4
    <3>2. on[x] # c /\ on[x] \in Proc
      BY <1>1, <1>2, <1>4, <3>1 DEF Base, MakeInv, Making
    <3> QED
      BY <1>1, <1>4, <1>7, <3>1, <3>2 DEF Base, PidInv
  <2>5. ASSUME NEW x \in Proc, pc'[x] = "link" PROVE proc'[on'[x]].pid # 0
    <3>1. CASE x = q
      BY <1>2, <1>4, <1>5, <1>6, <1>7, <3>1
    <3>2. CASE x # q
      <4>1. pc[x] = "link"
        BY <1>8, <2>5, <3>2
      <4>2. on[x] # c /\ on[x] \in Proc
        BY <1>1, <1>2, <1>4, <3>2, <4>1 DEF Base, MakeInv, Making
      <4> QED
        BY <1>1, <1>4, <1>7, <4>1, <4>2 DEF Base, PidInv
    <3> QED
      BY <3>1, <3>2
  <2> QED
    BY <2>1, <2>2, <2>3, <2>4, <2>5 DEF PidInv
<1>17. OwnerInv'
  <2>1. \A d \in Pid : owner[d] <= pidalloc /\ owner[d] \in Nat
    BY <1>1 DEF Base, OwnerInv, TypeOK
  <2>2. \A d \in Pid : owner'[d] <= pidalloc' /\ owner'[d] # n
    BY <1>3, <1>4, <1>5, <2>1
  <2>3. ASSUME NEW x \in Proc, NEW d \in Pid, pc'[x] = "new", proc'[x].pid # 0
        PROVE  owner'[d] # proc'[x].pid
    <3>1. pc[x] = "new"
      BY <1>8, <2>3
    <3>2. CASE x = c
      BY <1>7, <2>2, <3>2
    <3>3. CASE x # c
      BY <1>1, <1>4, <1>7, <2>3, <3>1, <3>3 DEF Base, OwnerInv
    <3> QED
      BY <3>2, <3>3
  <2> QED
    BY <2>2, <2>3 DEF OwnerInv
<1>18. ParentInv'
  <2>1. ASSUME NEW x \in Proc, Young(x)
        PROVE  /\ owner[proc[x].pid] = proc[x].parentpid
               /\ x # Boot => proc[x].parent \in Proc
               /\ \A t \in Proc :
                    proc[t].pid = proc[x].parentpid /\ proc[t].pid # 0 => t = proc[x].parent
               /\ proc[x].parentpid # n
    <3>1. owner[proc[x].pid] = proc[x].parentpid
      BY <1>1, <2>1 DEF Base, ParentInv
    <3>2. proc[x].pid \in Pid
      BY <1>1, <1>10, <2>1, PidIs
    <3>3. owner[proc[x].pid] <= pidalloc /\ owner[proc[x].pid] \in Nat
      BY <1>1, <3>2 DEF Base, OwnerInv, TypeOK
    <3> QED
      BY <1>1, <1>5, <2>1, <3>1, <3>3 DEF Base, ParentInv
  <2> QED
    BY <1>4, <1>7, <1>9, <1>10, <2>1 DEF ParentInv
<1>19. NewInv' /\ AstrayInv'
  <2>1. NewInv'
    BY <1>1, <1>4, <1>7, <1>8 DEF Base, NewInv
  <2>2. ASSUME NEW t \in Proc, NEW d \in Pid, d \in astray'[t]
        PROVE  /\ d <= pidalloc'
               /\ \A x \in Proc : Young(x)' \/ pc'[x] = "new" => proc'[x].pid # d
    <3>1. d \in astray[t] /\ d <= pidalloc
      BY <1>1, <1>4, <2>2 DEF Base, AstrayInv
    <3>2. d # n /\ d <= n
      BY <1>3, <1>5, <3>1 DEF Pid
    <3> QED
      BY <1>1, <1>4, <1>7, <1>8, <1>9, <3>1, <3>2 DEF Base, AstrayInv
  <2> QED
    BY <2>1, <2>2 DEF AstrayInv
<1>20. RecInv'
  <2>1. \A t \in Proc : \A d : Holds(t, d)' <=> Holds(t, d)
    BY <1>7 DEF Holds
  <2>2. \A d : Gone(d)' <=> Gone(d)
    BY <1>4 DEF Gone
  <2>3. \A t \in Proc : Distinct(proc'[t].waitq)
    BY <1>1, <1>7 DEF Base, RecInv
  <2>4. \A d \in Pid : Gone(d) => d <= pidalloc
    BY <1>1 DEF Base, RecInv
  <2>5. \A t \in Proc, d \in Pid : Holds(t, d) => ~Gone(d) /\ d <= pidalloc
    BY <1>1 DEF Base, RecInv
  <2>6. ~Gone(n) /\ \A t \in Proc : ~Holds(t, n)
    <3>1. ~(n <= pidalloc)
      BY <1>5 DEF Pid
    <3> QED
      BY <1>5, <2>4, <2>5, <3>1
  <2>7. \A d \in Pid : d <= pidalloc => d <= pidalloc'
    BY <1>3, <1>4, <1>5 DEF Pid
  <2>8. \A t, u \in Proc, d \in Pid : Holds(t, d)' /\ Holds(u, d)' => t = u
    BY <1>1, <2>1 DEF Base, RecInv
  <2>9. \A t \in Proc, d \in Pid : Holds(t, d)' /\ owner'[d] # 0 =>
           proc'[t].pid \in {owner'[d], 0} /\ pc'[t] # "new"
    <3>1. \A t \in Proc, d \in Pid : Holds(t, d) /\ owner[d] # 0 =>
            proc[t].pid \in {owner[d], 0} /\ pc[t] # "new"
      BY <1>1 DEF Base, RecInv
    <3>2. \A t \in Proc, d \in Pid : Holds(t, d) /\ owner[d] # 0 => t # c
      BY <1>6, <3>1
    <3>3. \A t \in Proc : pc'[t] = "new" => pc[t] = "new"
      BY <1>8
    <3> QED
      BY <1>4, <1>7, <2>1, <3>1, <3>2, <3>3
  <2>10. ASSUME NEW x \in Proc, (Young(x) \/ pc[x] = "new")', proc'[x].pid # 0,
                NEW d, d = proc'[x].pid
         PROVE  ~Gone(d)' /\ \A t \in Proc : ~Holds(t, d)'
    <3>1. CASE x = c
      BY <1>7, <2>1, <2>2, <2>6, <2>10, <3>1
    <3>2. CASE x # c
      <4>1. (Young(x) \/ pc[x] = "new") /\ proc[x].pid # 0 /\ d = proc[x].pid
        BY <1>7, <1>8, <1>9, <2>10, <3>2
      <4>2. ~Gone(d) /\ \A t \in Proc : ~Holds(t, d)
        BY <1>1, <4>1 DEF Base, RecInv
      <4> QED
        BY <2>1, <2>2, <4>2
    <3> QED
      BY <3>1, <3>2
  <2>11. /\ \A g \in got' : owner'[g[2]] # 0 => g[1] \in {owner'[g[2]], 0}
         /\ \A g, h \in got' : g[2] = h[2] => g = h
    BY <1>1, <1>4 DEF Base, RecInv
  <2>12. \A t \in Proc, d \in Pid : Holds(t, d)' => ~Gone(d)' /\ d <= pidalloc'
    BY <2>1, <2>2, <2>5, <2>7
  <2>13. \A d \in Pid : Gone(d)' => d <= pidalloc'
    BY <2>2, <2>4, <2>7
  <2> QED
    BY <2>3, <2>8, <2>9, <2>10, <2>11, <2>12, <2>13 DEF RecInv
<1>21. CountInv'
  <2>1. proc[c].nchild = 0 - Cardinality(astray[c])
    BY <1>1, <1>6 DEF Base, NewInv
  <2>2. Cardinality({}) = 0
    BY FS_EmptySet
  <2>3. \A t \in Proc : proc'[t].nwait = Len(proc'[t].waitq)
    BY <1>1, <1>7 DEF Base, CountInv
  <2>4. ASSUME NEW t \in Proc, Countable(t)'
        PROVE  proc'[t].nchild = Cardinality(Children(t)') - Cardinality(astray'[t])
    <3>1. CASE t = c
      BY <1>4, <1>7, <1>13, <2>1, <2>2, <3>1
    <3>2. CASE t # c
      BY <1>1, <1>4, <1>7, <1>9, <1>12, <2>4, <3>2 DEF Base, CountInv, Countable
    <3> QED
      BY <3>1, <3>2
  <2> QED
    BY <2>3, <2>4 DEF CountInv
<1>22. LockInv'
  BY <1>1, <1>4, <1>8, LockSame DEF Own, Reading
<1>23. WaitInv'
  <2>1. \A x \in Proc : pc'[x] \in Own => x # q /\ x # c
    BY <1>6, <1>8 DEF Own
  <2> QED
    BY <1>1, <1>4, <1>7, <1>8, <1>12, <2>1, WaitSame DEF Due
<1>25. TypeOK'
  <2>1. pidalloc' \in Pid
    BY <1>4, <1>5
  <2> QED
    BY <1>1, <1>4, <1>7, <1>8, <2>1 DEF TypeOK
<1> QED
  BY <1>14, <1>15, <1>16, <1>17, <1>18, <1>19, <1>20, <1>21, <1>22, <1>23, <1>25 DEF PInv, Base
-----------------------------------------------------------------------------
(* What sysrfork does to its new child c, field by field: id is the pid    *)
(* that may wait for it, 0 with RFNOWAIT.                                  *)
Links(q, c, id, d) ==
  /\ proc' \in [Proc -> Fields]
  /\ \A x \in Proc : /\ proc'[x].pid = proc[x].pid
                     /\ proc'[x].parent = IF x = c THEN q ELSE proc[x].parent
                     /\ proc'[x].parentpid = IF x = c THEN id ELSE proc[x].parentpid
                     /\ proc'[x].nchild = IF x = q THEN d ELSE proc[x].nchild
                     /\ proc'[x].nwait = proc[x].nwait
                     /\ proc'[x].waitq = proc[x].waitq

(* The assignments of sysrfork do that.                                    *)
LEMMA LinkLinks ==
  ASSUME TypeOK, NEW q \in Proc, NEW c \in Proc, c # q, NEW id \in 0..MaxPid, NEW d \in Int,
         proc' = [proc EXCEPT ![c].parent = q, ![c].parentpid = id, ![q].nchild = d]
  PROVE  Links(q, c, id, d)
<1>1. proc \in [Proc -> Fields] /\ proc[c] \in Fields /\ proc[q] \in Fields
  BY DEF TypeOK
<1>2. PICK v : v = [proc[c] EXCEPT !.parent = q, !.parentpid = id]
  OBVIOUS
<1>3. PICK w : w = [proc[q] EXCEPT !.nchild = d]
  OBVIOUS
<1>4. proc' = [[proc EXCEPT ![c] = v] EXCEPT ![q] = w]
  BY <1>1, <1>2, <1>3 DEF Fields
<1>5. /\ v \in Fields /\ v.pid = proc[c].pid /\ v.parent = q /\ v.parentpid = id
      /\ v.nchild = proc[c].nchild /\ v.nwait = proc[c].nwait /\ v.waitq = proc[c].waitq
  BY <1>1, <1>2 DEF Fields
<1>6. /\ w \in Fields /\ w.pid = proc[q].pid /\ w.parent = proc[q].parent
      /\ w.parentpid = proc[q].parentpid /\ w.nchild = d /\ w.nwait = proc[q].nwait
      /\ w.waitq = proc[q].waitq
  BY <1>1, <1>3 DEF Fields
<1>7. /\ proc' \in [Proc -> Fields]
      /\ \A x \in Proc : proc'[x] = IF x = c THEN v ELSE IF x = q THEN w ELSE proc[x]
  BY <1>1, <1>4, <1>5, <1>6
<1> QED
  BY <1>5, <1>6, <1>7 DEF Links

(* The new child is its parent's, and counted.                             *)
LEMMA LinkStep ==
  ASSUME PInv, NEW q \in Proc, NEW nowait \in BOOLEAN, Link(q, nowait)
  PROVE  PInv'
<1>1. TypeOK /\ Base /\ LockInv /\ WaitInv
  BY DEF PInv
<1>2. PICK c : c = on[q]
  OBVIOUS
<1>3. PICK id : id = IF nowait THEN 0 ELSE proc[q].pid
  OBVIOUS
<1>4. PICK d : d = IF nowait THEN proc[q].nchild ELSE proc[q].nchild + 1
  OBVIOUS
<1>5. PICK n : n = proc[c].pid
  OBVIOUS
<1>6. pc[q] = "link" /\ c \in Proc /\ pc[c] = "new" /\ c # q /\ n # 0 /\ n \in Pid
  <2>1. pc[q] = "link" /\ pc[q] \in Making
    BY DEF Link, Making
  <2>2. c \in Proc /\ pc[c] = "new"
    BY <1>1, <1>2, <2>1 DEF Base, MakeInv
  <2>3. n # 0
    BY <1>1, <1>2, <1>5, <2>1 DEF Base, PidInv
  <2> QED
    BY <1>1, <1>5, <2>1, <2>2, <2>3, PidIs
<1>7. /\ proc' = [proc EXCEPT ![c].parent = q, ![c].parentpid = id, ![q].nchild = d]
      /\ pc' = [pc EXCEPT ![q] = "run", ![c] = "run"]
      /\ owner' = [owner EXCEPT ![n] = id]
      /\ on' = [on EXCEPT ![q] = Nil]
      /\ UNCHANGED pidalloc /\ UNCHANGED free /\ UNCHANGED broken /\ UNCHANGED qwaitr
      /\ UNCHANGED seen /\ UNCHANGED got /\ UNCHANGED astray
      /\ UNCHANGED freed
  <2>1. proc' = [proc EXCEPT ![c].parent = q, ![c].parentpid = id,
                             ![q].nchild = IF nowait THEN @ ELSE @ + 1]
    BY <1>2, <1>3 DEF Link
  <2>2. proc \in [Proc -> Fields]
    BY <1>1 DEF TypeOK
  <2>3. proc' = [proc EXCEPT ![c].parent = q, ![c].parentpid = id, ![q].nchild = d]
    BY <1>4, <1>6, <2>1, <2>2 DEF Fields
  <2> QED
    BY <1>2, <1>3, <1>5, <2>3 DEF Link
<1>8. proc[q].pid \in Pid /\ proc[q].pid # 0 /\ proc[q].pid # n
  <2>1. proc[q].pid # 0
    BY <1>1, <1>6 DEF Base, PidInv
  <2> QED
    BY <1>1, <1>5, <1>6, <2>1, PidIs DEF Base, PidInv
<1>9. /\ id \in 0..MaxPid /\ id \in Nat /\ id <= pidalloc /\ d \in Int /\ id # n
      /\ id # 0 => id = proc[q].pid
  <2>1. proc[q].pid \in 0..MaxPid /\ proc[q].nchild \in Int /\ proc[q].pid <= pidalloc
        /\ proc[q].pid \in Nat
    BY <1>1, FieldTypes DEF Base, PidInv
  <2>2. pidalloc \in Nat /\ 0 <= pidalloc
    BY <1>1 DEF TypeOK, Pid
  <2> QED
    BY <1>3, <1>4, <1>6, <1>8, <2>1, <2>2, MaxPidAssumption
<1>10. Links(q, c, id, d)
  BY <1>1, <1>6, <1>7, <1>9, LinkLinks
<1>11. \A x \in Proc : /\ proc'[x].pid = proc[x].pid
                       /\ proc'[x].parent = IF x = c THEN q ELSE proc[x].parent
                       /\ proc'[x].parentpid = IF x = c THEN id ELSE proc[x].parentpid
                       /\ proc'[x].nchild = IF x = q THEN d ELSE proc[x].nchild
                       /\ proc'[x].nwait = proc[x].nwait
                       /\ proc'[x].waitq = proc[x].waitq
  BY <1>10 DEF Links
<1>12. /\ pc' \in [Proc -> Places] /\ on' \in [Proc -> Proc \cup {Nil}]
       /\ \A x \in Proc : pc'[x] = IF x = q \/ x = c THEN "run" ELSE pc[x]
       /\ \A x \in Proc : on'[x] = IF x = q THEN Nil ELSE on[x]
  BY <1>1, <1>6, <1>7 DEF TypeOK, Places
<1>13. /\ owner' \in [Pid -> 0..MaxPid]
       /\ \A x \in Pid : owner'[x] = IF x = n THEN id ELSE owner[x]
  BY <1>1, <1>6, <1>7, <1>9 DEF TypeOK
<1>14. /\ \A x \in Proc : Young(x)' <=> Young(x) \/ x = c
       /\ ~Young(c) /\ Young(q)
       /\ \A x \in Proc : pc'[x] \in Leaving <=> pc[x] \in Leaving
  BY <1>6, <1>12 DEF Young, Leaving
<1>15. ASSUME NEW x \in Proc, Young(x)
       PROVE  x # c /\ proc[x].pid \in Pid /\ proc[x].pid # n
              /\ owner'[proc'[x].pid] = owner[proc[x].pid]
  <2>1. x # c
    BY <1>14, <1>15
  <2>2. proc[x].pid # 0
    BY <1>1, <1>15 DEF Young, Leaving, Base, PidInv
  <2>3. proc[x].pid \in Pid
    BY <1>1, <2>2, PidIs
  <2>4. proc[x].pid # n
    BY <1>1, <1>5, <1>6, <2>1, <2>2 DEF Base, PidInv
  <2> QED
    BY <1>11, <1>13, <2>1, <2>3, <2>4
<1>16. ASSUME NEW t \in Proc, proc[t].pid # 0
       PROVE  Children(t)' = Children(t) \cup {x \in {c} : proc[t].pid = id}
  <2>1. Children(t) = {x \in Proc : Young(x) /\ owner[proc[x].pid] = proc[t].pid}
    BY DEF Children, Young
  <2>2. Children(t)' = {x \in Proc : Young(x)' /\ owner'[proc'[x].pid] = proc'[t].pid}
    BY DEF Children, Young
  <2>3. owner'[proc'[c].pid] = id
    BY <1>5, <1>6, <1>11, <1>13
  <2>4. proc'[t].pid = proc[t].pid
    BY <1>11
  <2>5. ASSUME NEW x \in Proc
        PROVE  x \in Children(t)' <=> x \in Children(t) \/ (x = c /\ proc[t].pid = id)
    <3>1. CASE x = c
      BY <1>14, <2>1, <2>2, <2>3, <2>4, <3>1
    <3>2. CASE x # c
      BY <1>14, <1>15, <2>1, <2>2, <2>4, <3>2
    <3> QED
      BY <3>1, <3>2
  <2> QED
    BY <1>6, <2>1, <2>2, <2>5
<1>17. FreeInv'
  BY <1>1, <1>6, <1>7, <1>12 DEF Base, FreeInv
<1>18. MakeInv'
  <2>1. \A x \in Proc : pc'[x] \in Making => pc[x] \in Making /\ x # q /\ on'[x] = on[x]
    BY <1>12 DEF Making
  <2>2. ASSUME NEW x \in Proc, pc'[x] \in Making PROVE on'[x] \in Proc /\ pc'[on'[x]] = "new"
    <3>1. on[x] \in Proc /\ pc[on[x]] = "new" /\ on[x] # c
      BY <1>1, <1>2, <1>6, <2>1, <2>2 DEF Base, MakeInv, Making
    <3> QED
      BY <1>6, <1>12, <2>1, <2>2, <3>1
  <2>3. \A x, y \in Proc : pc'[x] \in Making /\ pc'[y] \in Making /\ on'[x] = on'[y] => x = y
    BY <1>1, <2>1 DEF Base, MakeInv
  <2>4. Young(Boot)'
    BY <1>1, <1>14, ProcAssumption DEF Base, MakeInv
  <2> QED
    BY <2>2, <2>3, <2>4 DEF MakeInv
<1>19. PidInv'
  <2>1. /\ \A x \in Proc : proc'[x].pid <= pidalloc'
        /\ \A x, y \in Proc : proc'[x].pid # 0 /\ proc'[x].pid = proc'[y].pid => x = y
    <3>1. \A x \in Proc : proc'[x].pid = proc[x].pid
      BY <1>11
    <3>2. /\ \A x \in Proc : proc[x].pid <= pidalloc
          /\ \A x, y \in Proc : proc[x].pid # 0 /\ proc[x].pid = proc[y].pid => x = y
      BY <1>1 DEF Base, PidInv
    <3> QED
      BY <1>7, <3>1, <3>2
  <2>2. /\ \A x \in Proc : pc'[x] \in {"free", "unhashed"} => proc'[x].pid = 0
        /\ \A x \in Proc : pc'[x] \notin {"free", "new", "unhashed"} => proc'[x].pid # 0
    BY <1>1, <1>5, <1>6, <1>8, <1>11, <1>12 DEF Base, PidInv
  <2>3. \A x \in Proc : pc'[x] \in Making => pc[x] = pc'[x] /\ on'[x] = on[x] /\ on[x] \in Proc
    BY <1>1, <1>12 DEF Making, Base, MakeInv
  <2>4. /\ \A x \in Proc : pc'[x] = "pid" => proc'[on'[x]].pid = 0
        /\ \A x \in Proc : pc'[x] = "link" => proc'[on'[x]].pid # 0
    BY <1>1, <1>11, <2>3 DEF Base, PidInv, Making
  <2> QED
    BY <2>1, <2>2, <2>4 DEF PidInv
<1>20. OwnerInv'
  <2>1. \A x \in Pid : owner'[x] <= pidalloc'
    BY <1>1, <1>7, <1>9, <1>13 DEF Base, OwnerInv
  <2>2. ASSUME NEW x \in Proc, NEW y \in Pid, pc'[x] = "new", proc'[x].pid # 0
        PROVE  owner'[y] # proc'[x].pid
    <3>1. pc[x] = "new" /\ x # q /\ proc[x].pid # 0
      BY <1>11, <1>12, <2>2
    <3>2. owner[y] # proc[x].pid
      BY <1>1, <3>1 DEF Base, OwnerInv
    <3>3. id # proc[x].pid
      BY <1>1, <1>9, <3>1 DEF Base, PidInv
    <3> QED
      BY <1>11, <1>13, <3>2, <3>3
  <2> QED
    BY <2>1, <2>2 DEF OwnerInv
<1>21. ParentInv'
  <2>1. ASSUME NEW x \in Proc, Young(x)'
        PROVE  /\ owner'[proc'[x].pid] = proc'[x].parentpid
               /\ x # Boot => proc'[x].parent \in Proc
               /\ \A t \in Proc :
                    proc'[t].pid = proc'[x].parentpid /\ proc'[t].pid # 0 => t = proc'[x].parent
    <3>1. CASE x = c
      <4>1. \A t \in Proc : proc[t].pid = id /\ proc[t].pid # 0 => t = q
        BY <1>1, <1>9 DEF Base, PidInv
      <4> QED
        BY <1>5, <1>6, <1>11, <1>13, <3>1, <4>1
    <3>2. CASE x # c
      <4>1. Young(x)
        BY <1>14, <2>1, <3>2
      <4> QED
        BY <1>1, <1>11, <1>15, <3>2, <4>1 DEF Base, ParentInv
    <3> QED
      BY <3>1, <3>2
  <2> QED
    BY <2>1 DEF ParentInv
<1>22. NewInv' /\ AstrayInv'
  <2>1. \A x \in Proc : pc'[x] = "new" => pc[x] = "new" /\ x # q
    BY <1>6, <1>12
  <2>2. \A x \in Proc : Young(x)' \/ pc'[x] = "new" => Young(x) \/ pc[x] = "new"
    BY <1>6, <1>14, <2>1
  <2> QED
    BY <1>1, <1>7, <1>11, <2>1, <2>2, AstraySame DEF Base, NewInv
<1>23. RecInv'
  <2>1. \A t \in Proc : \A x : Holds(t, x)' <=> Holds(t, x)
    BY <1>11 DEF Holds
  <2>2. \A x : Gone(x)' <=> Gone(x)
    BY <1>7 DEF Gone
  <2>3. ~Gone(n) /\ \A t \in Proc : ~Holds(t, n)
    BY <1>1, <1>5, <1>6 DEF Base, RecInv
  <2>4. \A t \in Proc : Distinct(proc'[t].waitq)
    BY <1>1, <1>11 DEF Base, RecInv
  <2>5. \A t \in Proc, x \in Pid : Holds(t, x)' => ~Gone(x)' /\ x <= pidalloc'
    BY <1>1, <1>7, <2>1, <2>2 DEF Base, RecInv
  <2>6. \A t, u \in Proc, x \in Pid : Holds(t, x)' /\ Holds(u, x)' => t = u
    BY <1>1, <2>1 DEF Base, RecInv
  <2>7. ASSUME NEW t \in Proc, NEW x \in Pid, Holds(t, x)', owner'[x] # 0
        PROVE  proc'[t].pid \in {owner'[x], 0} /\ pc'[t] # "new"
    <3>1. Holds(t, x) /\ x # n /\ owner'[x] = owner[x]
      BY <1>13, <2>1, <2>3, <2>7
    <3>2. pc'[t] = "new" => pc[t] = "new"
      BY <1>12
    <3> QED
      BY <1>1, <1>11, <2>7, <3>1, <3>2 DEF Base, RecInv
  <2>8. \A x \in Pid : Gone(x)' => x <= pidalloc'
    BY <1>1, <1>7, <2>2 DEF Base, RecInv
  <2>9. ASSUME NEW x \in Proc, (Young(x) \/ pc[x] = "new")', proc'[x].pid # 0,
               NEW y, y = proc'[x].pid
        PROVE  ~Gone(y)' /\ \A t \in Proc : ~Holds(t, y)'
    <3>1. (Young(x) \/ pc[x] = "new") /\ proc[x].pid # 0 /\ y = proc[x].pid
      BY <1>6, <1>11, <1>12, <1>14, <2>9
    <3>2. ~Gone(y) /\ \A t \in Proc : ~Holds(t, y)
      BY <1>1, <3>1 DEF Base, RecInv
    <3> QED
      BY <2>1, <2>2, <3>2
  <2>10. ASSUME NEW g \in got' PROVE owner'[g[2]] # 0 => g[1] \in {owner'[g[2]], 0}
    <3>1. g \in got
      BY <1>7, <2>10
    <3>2. Gone(g[2]) /\ g[2] \in Pid
      BY <1>1, <3>1 DEF Gone, TypeOK
    <3>3. g[2] # n
      BY <2>3, <3>2
    <3> QED
      BY <1>1, <1>13, <3>1, <3>2, <3>3 DEF Base, RecInv
  <2>11. \A g, h \in got' : g[2] = h[2] => g = h
    BY <1>1, <1>7 DEF Base, RecInv
  <2> QED
    BY <2>4, <2>5, <2>6, <2>7, <2>8, <2>9, <2>10, <2>11 DEF RecInv
<1>24. CountInv'
  <2>1. \A t \in Proc : proc'[t].nwait = Len(proc'[t].waitq)
    BY <1>1, <1>11 DEF Base, CountInv
  <2>2. ASSUME NEW t \in Proc, Countable(t)'
        PROVE  proc'[t].nchild = Cardinality(Children(t)') - Cardinality(astray'[t])
    <3>1. Countable(t) /\ proc[t].pid # 0
      BY <1>11, <1>14, <2>2 DEF Countable
    <3>2. /\ proc[t].nchild = Cardinality(Children(t)) - Cardinality(astray[t])
          /\ Cardinality(astray[t]) \in Nat /\ Cardinality(Children(t)) \in Nat
          /\ astray' = astray
      BY <1>1, <1>7, <3>1, ChildrenFinite, StraysFinite DEF Base, CountInv
    <3>3. Children(t)' = Children(t) \cup {x \in {c} : proc[t].pid = id}
      BY <1>16, <3>1
    <3>4. CASE proc[t].pid = id
      <4>1. t = q /\ ~nowait
        BY <1>1, <1>3, <1>9, <3>1, <3>4 DEF Base, PidInv
      <4>2. Children(t)' = Children(t) \cup {c}
        BY <3>3, <3>4
      <4>3. c \notin Children(t)
        BY <1>14 DEF Children, Young
      <4>4. Cardinality(Children(t) \cup {c}) = Cardinality(Children(t)) + 1
        BY <4>3, ChildrenFinite, FS_AddElement
      <4> QED
        BY <1>4, <1>11, <3>2, <4>1, <4>2, <4>4
    <3>5. CASE proc[t].pid # id
      <4>1. Children(t)' = Children(t)
        BY <3>3, <3>5
      <4>2. t = q => nowait
        BY <1>3, <3>5
      <4>3. proc'[t].nchild = proc[t].nchild
        BY <1>4, <1>11, <4>2
      <4> QED
        BY <3>2, <4>1, <4>3
    <3> QED
      BY <3>4, <3>5
  <2> QED
    BY <2>1, <2>2 DEF CountInv
<1>25. LockInv'
  <2>1. \A x \in Proc : pc[x] \in Own \cup Reading \/ pc'[x] \in Own \cup Reading => x # c /\ x # q
    BY <1>6, <1>12 DEF Own, Reading
  <2> QED
    BY <1>1, <1>7, <1>12, <2>1, LockSame
<1>26. WaitInv'
  <2>1. ASSUME NEW x \in Proc, pc'[x] \in Own
        PROVE  /\ pc'[x] = pc[x] /\ proc'[x].waitq = proc[x].waitq
               /\ Due(x) => Due(x)'
    <3>1. x # q /\ x # c /\ pc'[x] = pc[x]
      BY <1>12, <2>1 DEF Own
    <3>2. proc[x].pid # 0
      BY <1>1, <2>1, <3>1 DEF Own, Base, PidInv
    <3> QED
      BY <1>7, <1>11, <1>16, <3>1, <3>2 DEF Due
  <2> QED
    BY <1>1, <2>1, WaitSame
<1>28. TypeOK'
  <2>1. proc' \in [Proc -> Fields]
    BY <1>10 DEF Links
  <2> QED
    BY <1>1, <1>7, <1>12, <1>13, <2>1 DEF TypeOK
<1> QED
  BY <1>17, <1>18, <1>19, <1>20, <1>21, <1>22, <1>23, <1>24, <1>25, <1>26, <1>28 DEF PInv, Base
-----------------------------------------------------------------------------
(* pexit's pidunhash: the pid names no structure any more; whoever slept   *)
(* on p's wait file is woken.                                              *)
LEMMA UnhashStep ==
  ASSUME PInv, NEW p \in Proc, Unhash(p)
  PROVE  PInv'
<1>1. TypeOK /\ Base /\ LockInv /\ WaitInv
  BY DEF PInv
<1>2. PICK w : w = Woken(p)
  OBVIOUS
<1>3. /\ pc[p] \in {"left", "gone"}
      /\ proc' = [proc EXCEPT ![p].pid = 0]
      /\ pc' = [w EXCEPT ![p] = "unhashed"]
      /\ UNCHANGED pidalloc /\ UNCHANGED free /\ UNCHANGED broken /\ UNCHANGED qwaitr
      /\ UNCHANGED on /\ UNCHANGED seen /\ UNCHANGED owner /\ UNCHANGED got /\ UNCHANGED astray
      /\ UNCHANGED freed
  BY <1>2 DEF Unhash, history
<1>4. /\ w \in [Proc -> Places]
      /\ \A q \in Proc : \/ w[q] = pc[q]
                         \/ on[q] = p /\ pc[q] = "sleep" /\ w[q] = "take"
                         \/ on[q] = p /\ pc[q] = "rsleep" /\ w[q] = "woken"
      /\ \A q \in Proc : on[q] = p => w[q] \notin {"sleep", "rsleep"}
  BY <1>1, <1>2, WokenIs
<1>5. \A q \in Proc : pc[q] = "sleep" => on[q] = q /\ on[q] # p
  BY <1>1, <1>3 DEF LockInv, Own
<1>6. /\ pc' \in [Proc -> Places] /\ pc'[p] = "unhashed"
      /\ \A q \in Proc : q # p => \/ pc'[q] = pc[q]
                                  \/ on[q] = p /\ pc[q] = "rsleep" /\ pc'[q] = "woken"
      /\ \A q \in Proc : on[q] = p => pc'[q] # "rsleep"
  BY <1>3, <1>4, <1>5 DEF Places, Leaving
<1>7. proc' \in [Proc -> Fields]
      /\ \A x \in Proc : /\ proc'[x].pid = IF x = p THEN 0 ELSE proc[x].pid
                         /\ proc'[x].parent = proc[x].parent
                         /\ proc'[x].parentpid = proc[x].parentpid
                         /\ proc'[x].nchild = proc[x].nchild
                         /\ proc'[x].nwait = proc[x].nwait
                         /\ proc'[x].waitq = proc[x].waitq
  <2>1. PICK v : v = [proc[p] EXCEPT !.pid = 0]
    OBVIOUS
  <2>2. proc \in [Proc -> Fields] /\ proc[p] \in Fields
    BY <1>1 DEF TypeOK
  <2>3. proc' = [proc EXCEPT ![p] = v]
    BY <1>3, <2>1
  <2>4. /\ v \in Fields /\ v.pid = 0 /\ v.parent = proc[p].parent
        /\ v.parentpid = proc[p].parentpid /\ v.nchild = proc[p].nchild
        /\ v.waitq = proc[p].waitq /\ v.nwait = proc[p].nwait
    <3>1. 0 \in 0..MaxPid
      BY MaxPidAssumption
    <3> QED
      BY <2>1, <2>2, <3>1 DEF Fields
  <2>5. proc' \in [Proc -> Fields] /\ proc'[p] = v /\ \A x \in Proc : x # p => proc'[x] = proc[x]
    BY <2>2, <2>3, <2>4
  <2> QED
    BY <2>4, <2>5
<1>8. /\ \A x \in Proc : Young(x)' <=> Young(x)
      /\ \A x \in Proc : pc'[x] \in Leaving <=> pc[x] \in Leaving
      /\ \A x \in Proc : pc'[x] \in Making => pc'[x] = pc[x] /\ x # p
      /\ \A x \in Proc : pc'[x] = "new" <=> pc[x] = "new"
      /\ \A x \in Proc : pc'[x] = "free" <=> pc[x] = "free"
      /\ \A x \in Proc : pc'[x] = "unhashed" <=> x = p \/ pc[x] = "unhashed"
      /\ ~Young(p) /\ pc[p] # "new"
  BY <1>3, <1>6 DEF Young, Leaving, Making
<1>9. \A x \in Proc : Young(x) => x # p
  BY <1>8
<1>10. \A x \in Proc : x # p => Children(x)' = Children(x)
  BY <1>3, <1>7, <1>8, <1>9, ChildrenSame
<1>11. FreeInv'
  BY <1>1, <1>3, <1>8 DEF Base, FreeInv
<1>12. MakeInv'
  <2>1. \A x \in Proc : pc'[x] \in Making => on'[x] \in Proc /\ pc'[on'[x]] = "new"
    BY <1>1, <1>3, <1>8 DEF Base, MakeInv
  <2>2. \A x, y \in Proc : pc'[x] \in Making /\ pc'[y] \in Making /\ on'[x] = on'[y] => x = y
    BY <1>1, <1>3, <1>8 DEF Base, MakeInv
  <2> QED
    BY <1>1, <1>8, <2>1, <2>2, ProcAssumption DEF Base, MakeInv
<1>13. PidInv'
  <2>1. \A x \in Proc : proc'[x].pid <= pidalloc'
    <3>1. 0 <= pidalloc
      BY <1>1 DEF TypeOK, Pid
    <3> QED
      BY <1>1, <1>3, <1>7, <3>1 DEF Base, PidInv
  <2>2. \A x, y \in Proc : proc'[x].pid # 0 /\ proc'[x].pid = proc'[y].pid => x = y
    BY <1>1, <1>7 DEF Base, PidInv
  <2>3. /\ \A x \in Proc : pc'[x] \in {"free", "unhashed"} => proc'[x].pid = 0
        /\ \A x \in Proc : pc'[x] \notin {"free", "new", "unhashed"} => proc'[x].pid # 0
    BY <1>1, <1>7, <1>8 DEF Base, PidInv
  <2>4. ASSUME NEW x \in Proc, pc'[x] \in Making
        PROVE  pc[x] = pc'[x] /\ on'[x] = on[x] /\ on[x] \in Proc /\ on[x] # p
    BY <1>1, <1>3, <1>8, <2>4 DEF Base, MakeInv
  <2>5. /\ \A x \in Proc : pc'[x] = "pid" => proc'[on'[x]].pid = 0
        /\ \A x \in Proc : pc'[x] = "link" => proc'[on'[x]].pid # 0
    BY <1>1, <1>7, <2>4 DEF Base, PidInv, Making
  <2> QED
    BY <2>1, <2>2, <2>3, <2>5 DEF PidInv
<1>14. OwnerInv'
  BY <1>1, <1>3, <1>7, <1>8 DEF Base, OwnerInv
<1>15. ParentInv'
  BY <1>1, <1>3, <1>7, <1>8, <1>9 DEF Base, ParentInv
<1>16. NewInv' /\ AstrayInv'
  <2>1. \A x \in Proc : Young(x)' \/ pc'[x] = "new" => (Young(x) \/ pc[x] = "new") /\ x # p
    BY <1>8
  <2> QED
    BY <1>1, <1>3, <1>7, <1>8, <2>1, AstraySame DEF Base, NewInv
<1>17. RecInv'
  <2>1. \A t \in Proc : \A x : Holds(t, x)' <=> Holds(t, x)
    BY <1>7 DEF Holds
  <2>2. \A x : Gone(x)' <=> Gone(x)
    BY <1>3 DEF Gone
  <2>3. \A t \in Proc : Distinct(proc'[t].waitq)
    BY <1>1, <1>7 DEF Base, RecInv
  <2>4. \A t \in Proc, x \in Pid : Holds(t, x)' /\ owner'[x] # 0 =>
          proc'[t].pid \in {owner'[x], 0} /\ pc'[t] # "new"
    BY <1>1, <1>3, <1>7, <1>8, <2>1 DEF Base, RecInv
  <2>5. ASSUME NEW x \in Proc, (Young(x) \/ pc[x] = "new")', proc'[x].pid # 0,
               NEW y, y = proc'[x].pid
        PROVE  ~Gone(y)' /\ \A t \in Proc : ~Holds(t, y)'
    <3>1. (Young(x) \/ pc[x] = "new") /\ proc[x].pid # 0 /\ y = proc[x].pid
      BY <1>7, <1>8, <2>5
    <3>2. ~Gone(y) /\ \A t \in Proc : ~Holds(t, y)
      BY <1>1, <3>1 DEF Base, RecInv
    <3> QED
      BY <2>1, <2>2, <3>2
  <2>6. \A t \in Proc, x \in Pid : Holds(t, x)' => ~Gone(x)' /\ x <= pidalloc'
    BY <1>1, <1>3, <2>1, <2>2 DEF Base, RecInv
  <2>7. \A t, u \in Proc, x \in Pid : Holds(t, x)' /\ Holds(u, x)' => t = u
    BY <1>1, <2>1 DEF Base, RecInv
  <2>8. \A x \in Pid : Gone(x)' => x <= pidalloc'
    BY <1>1, <1>3, <2>2 DEF Base, RecInv
  <2>9. /\ \A g \in got' : owner'[g[2]] # 0 => g[1] \in {owner'[g[2]], 0}
        /\ \A g, h \in got' : g[2] = h[2] => g = h
    BY <1>1, <1>3 DEF Base, RecInv
  <2> QED
    BY <2>3, <2>4, <2>5, <2>6, <2>7, <2>8, <2>9 DEF RecInv
<1>18. CountInv'
  <2>1. \A t \in Proc : Countable(t)' => t # p /\ Countable(t)
    BY <1>7, <1>8 DEF Countable
  <2>2. \A t \in Proc : proc'[t].nwait = Len(proc'[t].waitq)
    BY <1>1, <1>7 DEF Base, CountInv
  <2> QED
    BY <1>1, <1>3, <1>7, <1>10, <2>1, <2>2 DEF Base, CountInv
<1>19. LockInv'
  <2>1. \A x \in Proc : pc[x] \in Own \cup Reading \/ pc'[x] \in Own \cup Reading => x # p
    BY <1>3, <1>6 DEF Own, Reading
  <2> QED
    BY <1>1, <1>3, <1>6, <2>1, LockSame DEF Own, Reading
<1>20. WaitInv'
  <2>1. \A x \in Proc : pc'[x] \in Own => x # p /\ pc'[x] = pc[x]
    BY <1>6 DEF Own
  <2> QED
    BY <1>1, <1>3, <1>7, <1>10, <2>1, WaitSame DEF Due
<1>22. TypeOK'
  BY <1>1, <1>3, <1>6, <1>7 DEF TypeOK
<1> QED
  BY <1>11, <1>12, <1>13, <1>14, <1>15, <1>16, <1>17, <1>18, <1>19, <1>20, <1>22 DEF PInv, Base

(* pexit frees the records nobody collected, and leaves them in waitq.     *)
LEMMA DieStep ==
  ASSUME PInv, NEW p \in Proc, Die(p)
  PROVE  PInv'
<1>1. TypeOK /\ Base /\ LockInv /\ WaitInv
  BY DEF PInv
<1>2. /\ pc[p] = "unhashed" /\ freed' = freed \cup Range(proc[p].waitq)
      /\ free' = <<p>> \o free /\ pc' = [pc EXCEPT ![p] = "free"]
      /\ UNCHANGED proc /\ UNCHANGED pidalloc /\ UNCHANGED broken /\ UNCHANGED qwaitr
      /\ UNCHANGED on /\ UNCHANGED seen /\ UNCHANGED owner /\ UNCHANGED got
      /\ UNCHANGED astray
  BY DEF Die, Go
<1>3. pc' \in [Proc -> Places] /\ \A x \in Proc : pc'[x] = IF x = p THEN "free" ELSE pc[x]
  BY <1>1, <1>2 DEF TypeOK, Places
<1>4. proc[p].pid = 0 /\ proc[p].waitq \in Seq(Pid)
  BY <1>1, <1>2, FieldTypes DEF Base, PidInv
<1>5. Range(proc[p].waitq) \subseteq Pid
  BY <1>4 DEF Range
<1>7. /\ \A x \in Proc : Young(x)' <=> Young(x)
      /\ \A x \in Proc : x # p => (pc'[x] \in Leaving <=> pc[x] \in Leaving)
      /\ \A x \in Proc : pc'[x] \in Making \cup {"new"} \cup Own \cup Reading
                           => pc'[x] = pc[x] /\ x # p
      /\ \A x \in Proc : pc[x] \in Making \cup {"new"} \cup Own \cup Reading => x # p
  BY <1>2, <1>3 DEF Young, Leaving, Making, Own, Reading
<1>8. \A x \in Proc : Children(x)' = Children(x)
  BY <1>2, <1>7, ChildrenSame
<1>9. FreeInv' /\ free' \in Seq(Proc)
  <2>1. free \in Seq(Proc) /\ Distinct(free) /\ ~On(free, p)
    BY <1>1, <1>2 DEF TypeOK, Base, FreeInv
  <2>2. free' \in Seq(Proc) /\ Distinct(free') /\ \A y : On(free', y) <=> y = p \/ On(free, y)
    BY <1>2, <2>1, ConsOn
  <2> QED
    BY <1>1, <1>3, <2>2 DEF Base, FreeInv
<1>10. MakeInv'
  <2>1. \A x \in Proc : pc'[x] \in Making => pc[x] \in Making
    BY <1>7
  <2>2. \A x \in Proc : pc[x] = "new" => pc'[x] = "new"
    BY <1>2, <1>3
  <2> QED
    BY <1>1, <1>2, <1>7, <2>1, <2>2, ProcAssumption DEF Base, MakeInv
<1>11. PidInv'
  BY <1>1, <1>2, <1>3, <1>4 DEF Base, PidInv
<1>12. OwnerInv'
  BY <1>1, <1>2, <1>3 DEF Base, OwnerInv
<1>13. ParentInv'
  BY <1>1, <1>2, <1>7 DEF Base, ParentInv
<1>14. NewInv' /\ AstrayInv'
  <2>1. \A x \in Proc : Young(x)' \/ pc'[x] = "new" => Young(x) \/ pc[x] = "new"
    BY <1>3, <1>7
  <2> QED
    BY <1>1, <1>2, <1>3, <2>1, AstraySame DEF Base, NewInv
<1>15. RecInv'
  <2>1. \A t \in Proc : \A x : Holds(t, x)' <=> Holds(t, x)
    BY <1>2 DEF Holds
  <2>2. \A x : Gone(x)' <=> Gone(x)
    BY <1>2 DEF Gone
  <2>3. \A x \in Proc : pc'[x] = "new" => pc[x] = "new"
    BY <1>3
  <2> QED
    BY <1>1, <1>2, <1>7, <2>1, <2>2, <2>3 DEF Base, RecInv
<1>16. CountInv'
  <2>1. \A t \in Proc : Countable(t)' => Countable(t)
    BY <1>2, <1>4, <1>7 DEF Countable
  <2> QED
    BY <1>1, <1>2, <1>8, <2>1 DEF Base, CountInv
<1>17. LockInv'
  BY <1>1, <1>2, <1>3, <1>7, LockSame
<1>18. WaitInv'
  BY <1>1, <1>2, <1>7, <1>8, WaitSame DEF Due
<1>20. TypeOK'
  BY <1>1, <1>2, <1>3, <1>5, <1>9 DEF TypeOK
<1> QED
  BY <1>9, <1>10, <1>11, <1>12, <1>13, <1>14, <1>15, <1>16, <1>17, <1>18, <1>20 DEF PInv, Base
-----------------------------------------------------------------------------
(* Told of n, whose parentpid is 0, t counts a stray.                      *)
Strays(t, n, told) ==
  /\ astray' \in [Proc -> SUBSET Pid]
  /\ \A x \in Proc : astray'[x] = IF told /\ owner[n] = 0 /\ x = t THEN astray[x] \cup {n}
                                                                ELSE astray[x]

(* pexit up to the parent's exl released, field by field: t, the parent,   *)
(* is told or not, and a record of n, the pid, is kept or not.             *)
Leaves(p, t, n, told, kept) ==
  /\ proc' \in [Proc -> Fields]
  /\ \A x \in Proc :
       /\ proc'[x].pid = proc[x].pid
       /\ proc'[x].parent = proc[x].parent
       /\ proc'[x].parentpid = proc[x].parentpid
       /\ proc'[x].nchild = IF told /\ x = t THEN proc[x].nchild - 1 ELSE proc[x].nchild
       /\ proc'[x].nwait = IF kept /\ x = t THEN proc[x].nwait + 1 ELSE proc[x].nwait
       /\ proc'[x].waitq = IF kept /\ x = t THEN <<n>> \o proc[x].waitq ELSE proc[x].waitq
  /\ pc' \in [Proc -> Places] /\ pc'[p] = "left"
  /\ \A x \in Proc : x # p =>
       \/ pc'[x] = pc[x]
       \/ kept /\ on[x] = t /\ pc[x] = "sleep" /\ pc'[x] = "take"
       \/ kept /\ on[x] = t /\ pc[x] = "rsleep" /\ pc'[x] = "woken"
  /\ kept => \A x \in Proc : x # p /\ on[x] = t => pc'[x] \notin {"sleep", "rsleep"}
  /\ UNCHANGED pidalloc /\ UNCHANGED free /\ UNCHANGED broken /\ UNCHANGED qwaitr
  /\ UNCHANGED on /\ UNCHANGED seen /\ UNCHANGED owner /\ UNCHANGED got /\ UNCHANGED freed
  /\ Strays(t, n, told)

(* pexit's child is t's stray when it has no parentpid.                    *)
LEMMA StraysIs ==
  ASSUME TypeOK, NEW p \in Proc, NEW t \in Proc, NEW n \in Pid,
         t = proc[p].parent, n = proc[p].pid, owner[n] = proc[p].parentpid,
         Leave(p), Alive(t, p)
  PROVE  Strays(t, n, TRUE)
<1>1. astray' = [astray EXCEPT ![t] = IF owner[n] = 0 THEN astray[t] \cup {n} ELSE astray[t]]
  BY DEF Leave
<1>2. astray \in [Proc -> SUBSET Pid]
  BY DEF TypeOK
<1> QED
  BY <1>1, <1>2 DEF Strays

(* The parent has room for the record.                                     *)
LEMMA LeaveKept ==
  ASSUME TypeOK, LockInv, NEW p \in Proc, NEW t \in Proc, NEW n \in Pid,
         t = proc[p].parent, n = proc[p].pid, owner[n] = proc[p].parentpid,
         Leave(p), Alive(t, p), Room(t)
  PROVE  Leaves(p, t, n, TRUE, TRUE)
<1>1. PICK w : w = Woken(t)
  OBVIOUS
<1>2. /\ proc' = [proc EXCEPT ![t].nchild = @ - 1, ![t].nwait = @ + 1,
                              ![t].waitq = <<n>> \o @]
      /\ pc' = [w EXCEPT ![p] = "left"]
      /\ UNCHANGED pidalloc /\ UNCHANGED free /\ UNCHANGED broken /\ UNCHANGED qwaitr
      /\ UNCHANGED on /\ UNCHANGED seen /\ UNCHANGED owner /\ UNCHANGED got /\ UNCHANGED freed
  BY <1>1 DEF Leave, history
<1>3. /\ w \in [Proc -> Places]
      /\ \A q \in Proc : \/ w[q] = pc[q]
                         \/ on[q] = t /\ pc[q] = "sleep" /\ w[q] = "take"
                         \/ on[q] = t /\ pc[q] = "rsleep" /\ w[q] = "woken"
      /\ \A q \in Proc : on[q] = t => w[q] \notin {"sleep", "rsleep"}
  BY <1>1, WokenIs
<1>4. proc \in [Proc -> Fields] /\ proc[t] \in Fields
  BY DEF TypeOK
<1>5. PICK v : v = [proc[t] EXCEPT !.nchild = proc[t].nchild - 1, !.nwait = proc[t].nwait + 1,
                                   !.waitq = <<n>> \o proc[t].waitq]
  OBVIOUS
<1>6. proc' = [proc EXCEPT ![t] = v]
  BY <1>2, <1>4, <1>5 DEF Fields
<1>7. /\ v \in Fields /\ v.pid = proc[t].pid /\ v.parent = proc[t].parent
      /\ v.parentpid = proc[t].parentpid /\ v.nchild = proc[t].nchild - 1
      /\ v.nwait = proc[t].nwait + 1 /\ v.waitq = <<n>> \o proc[t].waitq
  <2>1. <<n>> \o proc[t].waitq \in Seq(Pid) /\ proc[t].nwait + 1 \in 0..Limit
        /\ proc[t].nchild - 1 \in Int
    <3>1. proc[t].waitq \in Seq(Pid) /\ proc[t].nwait \in 0..Limit /\ proc[t].nchild \in Int
      BY FieldTypes
    <3>2. <<n>> \o proc[t].waitq \in Seq(Pid)
      BY <3>1, ConsOn
    <3> QED
      BY <3>1, <3>2, LimitAssumption DEF Room
  <2> QED
    BY <1>4, <1>5, <2>1 DEF Fields
<1>8. /\ proc' \in [Proc -> Fields] /\ proc'[t] = v
      /\ \A x \in Proc : x # t => proc'[x] = proc[x]
  BY <1>4, <1>6, <1>7
<1>9. \A x \in Proc :
        /\ proc'[x].pid = proc[x].pid
        /\ proc'[x].parent = proc[x].parent
        /\ proc'[x].parentpid = proc[x].parentpid
        /\ proc'[x].nchild = IF x = t THEN proc[x].nchild - 1 ELSE proc[x].nchild
        /\ proc'[x].nwait = IF x = t THEN proc[x].nwait + 1 ELSE proc[x].nwait
        /\ proc'[x].waitq = IF x = t THEN <<n>> \o proc[x].waitq ELSE proc[x].waitq
  BY <1>7, <1>8
<1>10. /\ pc' \in [Proc -> Places] /\ pc'[p] = "left"
       /\ \A x \in Proc : x # p => pc'[x] = w[x]
  BY <1>2, <1>3 DEF Places, Leaving
<1>11. /\ \A x \in Proc : x # p =>
            \/ pc'[x] = pc[x]
            \/ on[x] = t /\ pc[x] = "sleep" /\ pc'[x] = "take"
            \/ on[x] = t /\ pc[x] = "rsleep" /\ pc'[x] = "woken"
       /\ \A x \in Proc : x # p /\ on[x] = t => pc'[x] \notin {"sleep", "rsleep"}
  BY <1>3, <1>10
<1>12. proc' \in [Proc -> Fields] /\ pc' \in [Proc -> Places] /\ pc'[p] = "left"
  BY <1>8, <1>10
<1>13. UNCHANGED pidalloc /\ UNCHANGED free /\ UNCHANGED broken /\ UNCHANGED qwaitr
       /\ UNCHANGED on /\ UNCHANGED seen /\ UNCHANGED owner /\ UNCHANGED got /\ UNCHANGED freed
  BY <1>2
<1>14. Strays(t, n, TRUE)
  BY StraysIs
<1> QED
  BY <1>9, <1>11, <1>12, <1>13, <1>14 DEF Leaves

(* The parent has too many records.                                        *)
LEMMA LeaveTold ==
  ASSUME TypeOK, NEW p \in Proc, NEW t \in Proc, NEW n \in Pid,
         t = proc[p].parent, n = proc[p].pid, owner[n] = proc[p].parentpid,
         Leave(p), Alive(t, p), ~Room(t)
  PROVE  Leaves(p, t, n, TRUE, FALSE)
<1>1. /\ proc' = [proc EXCEPT ![t].nchild = @ - 1]
      /\ pc' = [pc EXCEPT ![p] = "left"]
      /\ UNCHANGED pidalloc /\ UNCHANGED free /\ UNCHANGED broken /\ UNCHANGED qwaitr
      /\ UNCHANGED on /\ UNCHANGED seen /\ UNCHANGED owner /\ UNCHANGED got /\ UNCHANGED freed
  BY DEF Leave, Go, history
<1>2. proc \in [Proc -> Fields] /\ proc[t] \in Fields
  BY DEF TypeOK
<1>3. PICK v : v = [proc[t] EXCEPT !.nchild = proc[t].nchild - 1]
  OBVIOUS
<1>4. proc' = [proc EXCEPT ![t] = v]
  BY <1>1, <1>2, <1>3 DEF Fields
<1>5. /\ v \in Fields /\ v.pid = proc[t].pid /\ v.parent = proc[t].parent
      /\ v.parentpid = proc[t].parentpid /\ v.nchild = proc[t].nchild - 1
      /\ v.nwait = proc[t].nwait /\ v.waitq = proc[t].waitq
  <2>1. proc[t].nchild - 1 \in Int
    BY FieldTypes
  <2> QED
    BY <1>2, <1>3, <2>1 DEF Fields
<1>6. /\ proc' \in [Proc -> Fields] /\ proc'[t] = v
      /\ \A x \in Proc : x # t => proc'[x] = proc[x]
  BY <1>2, <1>4, <1>5
<1>7. \A x \in Proc :
        /\ proc'[x].pid = proc[x].pid
        /\ proc'[x].parent = proc[x].parent
        /\ proc'[x].parentpid = proc[x].parentpid
        /\ proc'[x].nchild = IF x = t THEN proc[x].nchild - 1 ELSE proc[x].nchild
        /\ proc'[x].nwait = proc[x].nwait
        /\ proc'[x].waitq = proc[x].waitq
  BY <1>5, <1>6
<1>8. /\ pc' \in [Proc -> Places] /\ pc'[p] = "left"
      /\ \A x \in Proc : x # p => pc'[x] = pc[x]
  BY <1>1 DEF TypeOK, Places, Leaving
<1>9. Strays(t, n, TRUE)
  BY StraysIs
<1>10. UNCHANGED pidalloc /\ UNCHANGED free /\ UNCHANGED broken /\ UNCHANGED qwaitr
       /\ UNCHANGED on /\ UNCHANGED seen /\ UNCHANGED owner /\ UNCHANGED got /\ UNCHANGED freed
  BY <1>1
<1>11. proc' \in [Proc -> Fields]
  BY <1>6
<1> QED
  BY <1>7, <1>8, <1>9, <1>10, <1>11 DEF Leaves

(* The parent is gone.                                                     *)
LEMMA LeaveAlone ==
  ASSUME TypeOK, NEW p \in Proc, NEW t \in Proc, NEW n,
         t = proc[p].parent, Leave(p), ~Alive(t, p)
  PROVE  Leaves(p, t, n, FALSE, FALSE)
<1>1. /\ UNCHANGED proc /\ UNCHANGED astray
      /\ pc' = [pc EXCEPT ![p] = "left"]
      /\ UNCHANGED pidalloc /\ UNCHANGED free /\ UNCHANGED broken /\ UNCHANGED qwaitr
      /\ UNCHANGED on /\ UNCHANGED seen /\ UNCHANGED owner /\ UNCHANGED got /\ UNCHANGED freed
  BY DEF Leave, Go, history
<1>2. proc' \in [Proc -> Fields]
  BY <1>1 DEF TypeOK
<1>3. /\ pc' \in [Proc -> Places] /\ pc'[p] = "left"
      /\ \A x \in Proc : x # p => pc'[x] = pc[x]
  BY <1>1 DEF TypeOK, Places, Leaving
<1>4. Strays(t, n, FALSE)
  BY <1>1 DEF Strays, TypeOK
<1> QED
  BY <1>1, <1>2, <1>3, <1>4 DEF Leaves

(* The three ways pexit goes, with what they rest on: a parent that is     *)
(* told is the process that may wait, and p was counted, or p is a stray.  *)
LeaveCase(p, t, n, told, kept) ==
  /\ p # Boot /\ pc[p] = "run" /\ t \in Proc /\ n \in Pid /\ n = proc[p].pid
  /\ told \in BOOLEAN /\ kept \in BOOLEAN
  /\ kept => told
  /\ told => proc[t].pid = owner[n] /\ pc[t] # "broken"
  /\ ~told => \A u \in Proc : proc[u].pid = owner[n] /\ proc[u].pid # 0 => pc[u] = "broken"
  /\ told => (kept <=> proc[t].nwait < Limit)
  /\ Leaves(p, t, n, told, kept)

(* pexit goes one of these ways.                                           *)
LEMMA LeaveIs ==
  ASSUME PInv, NEW p \in Proc, Leave(p)
  PROVE  \E t, n, told, kept : LeaveCase(p, t, n, told, kept)
<1>1. TypeOK /\ Base /\ LockInv
  BY DEF PInv
<1>2. PICK t : t = proc[p].parent
  OBVIOUS
<1>3. PICK n : n = proc[p].pid
  OBVIOUS
<1>4. pc[p] = "run" /\ p # Boot
  BY DEF Leave
<1>5. Young(p)
  BY <1>4 DEF Young, Leaving
<1>6. /\ t \in Proc /\ owner[n] = proc[p].parentpid
      /\ \A u \in Proc : proc[u].pid = proc[p].parentpid /\ proc[u].pid # 0 => u = t
  BY <1>1, <1>2, <1>3, <1>4, <1>5 DEF Base, ParentInv
<1>7. n \in Pid
  <2>1. n # 0
    BY <1>1, <1>3, <1>4 DEF Base, PidInv
  <2> QED
    BY <1>1, <1>3, <2>1, PidIs
<1>8. CASE Alive(t, p)
  <2>1. proc[t].pid = owner[n] /\ pc[t] # "broken"
    BY <1>6, <1>8 DEF Alive
  <2>2. CASE Room(t)
    <3>1. Leaves(p, t, n, TRUE, TRUE)
      BY <1>1, <1>2, <1>3, <1>6, <1>7, <1>8, <2>2, LeaveKept
    <3>2. LeaveCase(p, t, n, TRUE, TRUE)
      BY <1>3, <1>4, <1>6, <1>7, <2>1, <2>2, <3>1 DEF LeaveCase, Room
    <3> QED
      BY <3>2
  <2>3. CASE ~Room(t)
    <3>1. Leaves(p, t, n, TRUE, FALSE)
      BY <1>1, <1>2, <1>3, <1>6, <1>7, <1>8, <2>3, LeaveTold
    <3>2. LeaveCase(p, t, n, TRUE, FALSE)
      BY <1>3, <1>4, <1>6, <1>7, <2>1, <2>3, <3>1 DEF LeaveCase, Room
    <3> QED
      BY <3>2
  <2> QED
    BY <2>2, <2>3
<1>9. CASE ~Alive(t, p)
  <2>1. \A u \in Proc : proc[u].pid = owner[n] /\ proc[u].pid # 0 => pc[u] = "broken"
    BY <1>6, <1>9 DEF Alive
  <2>2. Leaves(p, t, n, FALSE, FALSE)
    BY <1>1, <1>2, <1>6, <1>9, LeaveAlone
  <2>3. LeaveCase(p, t, n, FALSE, FALSE)
    BY <1>3, <1>4, <1>6, <1>7, <2>1, <2>2 DEF LeaveCase
  <2> QED
    BY <2>3
<1> QED
  BY <1>8, <1>9

(* A record is left with the parent, which still counted p or counts a     *)
(* stray, or with nobody when it is gone or has too many.                  *)
LEMMA LeaveStep ==
  ASSUME PInv, NEW p \in Proc, Leave(p)
  PROVE  PInv'
<1>1. TypeOK /\ Base /\ LockInv /\ WaitInv
  BY DEF PInv
<1>2. PICK t, n, told, kept : LeaveCase(p, t, n, told, kept)
  BY LeaveIs
<1>3. /\ p # Boot /\ pc[p] = "run" /\ t \in Proc /\ n \in Pid /\ n = proc[p].pid
      /\ told \in BOOLEAN /\ kept \in BOOLEAN
      /\ kept => told
      /\ told => proc[t].pid = owner[n] /\ pc[t] # "broken"
      /\ ~told => \A u \in Proc : proc[u].pid = owner[n] /\ proc[u].pid # 0 => pc[u] = "broken"
      /\ told => (kept <=> proc[t].nwait < Limit)
  BY <1>2 DEF LeaveCase
<1>4. Leaves(p, t, n, told, kept)
  BY <1>2 DEF LeaveCase
<1>5. \A x \in Proc :
        /\ proc'[x].pid = proc[x].pid
        /\ proc'[x].parent = proc[x].parent
        /\ proc'[x].parentpid = proc[x].parentpid
        /\ proc'[x].nchild = IF told /\ x = t THEN proc[x].nchild - 1 ELSE proc[x].nchild
        /\ proc'[x].nwait = IF kept /\ x = t THEN proc[x].nwait + 1 ELSE proc[x].nwait
        /\ proc'[x].waitq = IF kept /\ x = t THEN <<n>> \o proc[x].waitq ELSE proc[x].waitq
  BY <1>4 DEF Leaves
<1>6. /\ proc' \in [Proc -> Fields] /\ pc' \in [Proc -> Places] /\ pc'[p] = "left"
      /\ \A x \in Proc : x # p =>
           \/ pc'[x] = pc[x]
           \/ kept /\ on[x] = t /\ pc[x] = "sleep" /\ pc'[x] = "take"
           \/ kept /\ on[x] = t /\ pc[x] = "rsleep" /\ pc'[x] = "woken"
      /\ kept => \A x \in Proc : x # p /\ on[x] = t => pc'[x] \notin {"sleep", "rsleep"}
  BY <1>4 DEF Leaves
<1>7. UNCHANGED pidalloc /\ UNCHANGED free /\ UNCHANGED broken /\ UNCHANGED qwaitr
      /\ UNCHANGED on /\ UNCHANGED seen /\ UNCHANGED owner /\ UNCHANGED got /\ UNCHANGED freed
      /\ Strays(t, n, told)
  BY <1>4 DEF Leaves
<1>8. /\ \A x \in Proc : Young(x)' <=> Young(x) /\ x # p
      /\ \A x \in Proc : pc'[x] \in Leaving <=> pc[x] \in Leaving \/ x = p
      /\ \A x \in Proc : \A y \in {"free", "new", "unhashed", "pid", "link"} :
           pc'[x] = y <=> pc[x] = y
      /\ Young(p)
  BY <1>3, <1>6 DEF Young, Leaving
<1>9. ASSUME NEW u \in Proc PROVE Children(u)' = Children(u) \ {p}
  <2>1. Children(u) = {x \in Proc : Young(x) /\ owner[proc[x].pid] = proc[u].pid}
    BY DEF Children, Young
  <2>2. Children(u)' = {x \in Proc : Young(x)' /\ owner'[proc'[x].pid] = proc'[u].pid}
    BY DEF Children, Young
  <2> QED
    BY <1>5, <1>7, <1>8, <2>1, <2>2
<1>10. \A u \in Proc : p \in Children(u) <=> proc[u].pid = owner[n]
  BY <1>3, <1>8 DEF Children, Young
<1>11. told /\ owner[n] # 0 => pc[t] # "new"
  BY <1>1, <1>3 DEF Base, OwnerInv
<1>12. ~Gone(n) /\ \A u \in Proc : ~Holds(u, n)
  BY <1>1, <1>3, <1>8 DEF Base, RecInv, PidInv, Pid
<1>13. proc[t].waitq \in Seq(Pid) /\ proc[t].nwait \in 0..Limit
  BY <1>1, <1>3, FieldTypes
<1>14. proc[t].nwait = Len(proc[t].waitq)
  BY <1>1, <1>3 DEF Base, CountInv
<1>15. told /\ ~kept => proc[t].waitq # <<>>
  <2>1. ASSUME told, ~kept PROVE proc[t].waitq # <<>>
    <3>1. Len(proc[t].waitq) # 0
      BY <1>3, <1>13, <1>14, <2>1, LimitAssumption
    <3> QED
      BY <3>1
  <2> QED
    BY <2>1
<1>16. FreeInv'
  BY <1>1, <1>7, <1>8 DEF Base, FreeInv
<1>17. MakeInv'
  <2>1. \A x \in Proc : pc'[x] \in Making <=> pc[x] \in Making
    BY <1>8 DEF Making
  <2> QED
    BY <1>1, <1>3, <1>7, <1>8, <2>1, ProcAssumption DEF Base, MakeInv
<1>18. PidInv'
  <2>1. \A x \in Proc : pc[x] \in {"pid", "link"} => on[x] \in Proc
    BY <1>1 DEF Base, MakeInv, Making
  <2>2. \A x \in Proc : proc'[x].pid = proc[x].pid
    BY <1>5
  <2>3. /\ \A x \in Proc : pc'[x] = "pid" => proc'[on'[x]].pid = 0
        /\ \A x \in Proc : pc'[x] = "link" => proc'[on'[x]].pid # 0
    BY <1>1, <1>7, <1>8, <2>1, <2>2 DEF Base, PidInv
  <2> QED
    BY <1>1, <1>7, <1>8, <2>2, <2>3 DEF Base, PidInv
<1>19. OwnerInv'
  BY <1>1, <1>5, <1>7, <1>8 DEF Base, OwnerInv
<1>20. ParentInv'
  BY <1>1, <1>5, <1>7, <1>8 DEF Base, ParentInv
<1>21. NewInv' /\ AstrayInv'
  <2>1. ~(n \in astray[t]) /\ n <= pidalloc
    BY <1>1, <1>3, <1>8 DEF Base, AstrayInv, PidInv
  <2>2. Cardinality(astray[t] \cup {n}) = Cardinality(astray[t]) + 1
        /\ Cardinality(astray[t]) \in Nat
    BY <1>1, <1>3, <2>1, StraysFinite, FS_AddElement
  <2>3. ASSUME NEW x \in Proc, pc'[x] = "new"
        PROVE  proc'[x].nchild = 0 - Cardinality(astray'[x])
    <3>1. pc[x] = "new" /\ proc[x].nchild = 0 - Cardinality(astray[x])
      BY <1>1, <1>8, <2>3 DEF Base, NewInv
    <3>2. CASE told /\ x = t
      <4>1. owner[n] = 0
        BY <1>11, <3>1, <3>2
      <4>2. astray'[x] = astray[t] \cup {n}
        BY <1>3, <1>7, <3>2, <4>1 DEF Strays
      <4>3. proc'[x].nchild = proc[t].nchild - 1
        BY <1>5, <3>2
      <4> QED
        BY <2>2, <3>1, <3>2, <4>2, <4>3
    <3>3. CASE ~(told /\ x = t)
      <4>1. astray'[x] = astray[x] /\ proc'[x].nchild = proc[x].nchild
        BY <1>5, <1>7, <3>3 DEF Strays
      <4> QED
        BY <3>1, <4>1
    <3> QED
      BY <3>2, <3>3
  <2>4. ASSUME NEW u \in Proc, NEW y \in Pid, y \in astray'[u]
        PROVE  /\ y <= pidalloc'
               /\ \A x \in Proc : Young(x)' \/ pc'[x] = "new" => proc'[x].pid # y
    <3>1. y \in astray[u] \/ y = n
      BY <1>7, <2>4 DEF Strays
    <3>2. \A x \in Proc : Young(x)' \/ pc'[x] = "new" =>
            (Young(x) \/ pc[x] = "new") /\ x # p /\ proc'[x].pid = proc[x].pid
      BY <1>3, <1>5, <1>8
    <3>3. CASE y \in astray[u]
      BY <1>1, <1>7, <3>2, <3>3 DEF Base, AstrayInv
    <3>4. CASE y = n
      <4>1. n # 0 /\ \A x \in Proc : x # p => proc[x].pid # n
        BY <1>1, <1>3 DEF Base, PidInv, Pid
      <4> QED
        BY <1>7, <2>1, <3>2, <3>4, <4>1
    <3> QED
      BY <3>1, <3>3, <3>4
  <2> QED
    BY <2>3, <2>4 DEF NewInv, AstrayInv
<1>22. RecInv'
  <2>1. /\ \A y : On(<<n>> \o proc[t].waitq, y) <=> y = n \/ On(proc[t].waitq, y)
        /\ Distinct(<<n>> \o proc[t].waitq)
    <3>1. Distinct(proc[t].waitq) /\ ~On(proc[t].waitq, n)
      BY <1>1, <1>3, <1>12 DEF Base, RecInv, Holds
    <3> QED
      BY <1>3, <1>13, <3>1, ConsOn
  <2>2. \A u \in Proc : \A y : Holds(u, y)' <=> Holds(u, y) \/ (kept /\ u = t /\ y = n)
    BY <1>5, <2>1 DEF Holds
  <2>3. \A y : Gone(y)' <=> Gone(y)
    BY <1>7 DEF Gone
  <2>4. \A u \in Proc : Distinct(proc'[u].waitq)
    BY <1>1, <1>5, <2>1 DEF Base, RecInv
  <2>5. n <= pidalloc
    BY <1>1, <1>3 DEF Base, PidInv
  <2>6. \A u \in Proc, y \in Pid : Holds(u, y)' => ~Gone(y)' /\ y <= pidalloc'
    BY <1>1, <1>7, <1>12, <2>2, <2>3, <2>5 DEF Base, RecInv
  <2>7. \A u, v \in Proc, y \in Pid : Holds(u, y)' /\ Holds(v, y)' => u = v
    BY <1>1, <1>12, <2>2 DEF Base, RecInv
  <2>8. ASSUME NEW u \in Proc, NEW y \in Pid, Holds(u, y)', owner'[y] # 0
        PROVE  proc'[u].pid \in {owner'[y], 0} /\ pc'[u] # "new"
    <3>1. proc'[u].pid = proc[u].pid /\ owner'[y] = owner[y] /\ (pc'[u] = "new" => pc[u] = "new")
      BY <1>5, <1>7, <1>8
    <3>2. CASE Holds(u, y)
      BY <1>1, <2>8, <3>1, <3>2 DEF Base, RecInv
    <3>3. CASE kept /\ u = t /\ y = n
      BY <1>3, <1>11, <2>8, <3>1, <3>3
    <3> QED
      BY <2>2, <2>8, <3>2, <3>3
  <2>9. \A y \in Pid : Gone(y)' => y <= pidalloc'
    BY <1>1, <1>7, <2>3 DEF Base, RecInv
  <2>10. ASSUME NEW x \in Proc, (Young(x) \/ pc[x] = "new")', proc'[x].pid # 0,
                NEW y, y = proc'[x].pid
         PROVE  ~Gone(y)' /\ \A u \in Proc : ~Holds(u, y)'
    <3>1. (Young(x) \/ pc[x] = "new") /\ proc[x].pid # 0 /\ y = proc[x].pid /\ x # p
      BY <1>3, <1>5, <1>8, <2>10
    <3>2. ~Gone(y) /\ \A u \in Proc : ~Holds(u, y)
      BY <1>1, <3>1 DEF Base, RecInv
    <3>3. y # n
      BY <1>1, <1>3, <3>1 DEF Base, PidInv
    <3> QED
      BY <2>2, <2>3, <3>2, <3>3
  <2>11. /\ \A g \in got' : owner'[g[2]] # 0 => g[1] \in {owner'[g[2]], 0}
         /\ \A g, h \in got' : g[2] = h[2] => g = h
    BY <1>1, <1>7 DEF Base, RecInv
  <2> QED
    BY <2>4, <2>6, <2>7, <2>8, <2>9, <2>10, <2>11 DEF RecInv
<1>23. CountInv'
  <2>1. kept => Len(<<n>> \o proc[t].waitq) = proc[t].nwait + 1
    BY <1>3, <1>13, <1>14, ConsOn
  <2>2. \A x \in Proc : proc'[x].nwait = Len(proc'[x].waitq)
    BY <1>1, <1>5, <2>1 DEF Base, CountInv
  <2>3. ASSUME NEW x \in Proc, Countable(x)'
        PROVE  proc'[x].nchild = Cardinality(Children(x)') - Cardinality(astray'[x])
    <3>1. Countable(x) /\ x # p /\ proc[x].pid # 0 /\ pc[x] \notin Leaving
      BY <1>5, <1>8, <2>3 DEF Countable
    <3>2. /\ proc[x].nchild = Cardinality(Children(x)) - Cardinality(astray[x])
          /\ Cardinality(astray[x]) \in Nat /\ Cardinality(Children(x)) \in Nat
      BY <1>1, <3>1, ChildrenFinite, StraysFinite DEF Base, CountInv
    <3>3. told /\ x = t <=> p \in Children(x)
      <4>1. pc[x] # "broken"
        BY <3>1 DEF Leaving
      <4> QED
        BY <1>1, <1>3, <1>10, <3>1, <4>1 DEF Base, PidInv
    <3>4. Cardinality(Children(x) \ {p})
            = IF p \in Children(x) THEN Cardinality(Children(x)) - 1 ELSE Cardinality(Children(x))
      BY ChildrenFinite, FS_RemoveElement
    <3>5. astray'[x] = astray[x]
      BY <1>3, <1>7, <3>1 DEF Strays
    <3>6. Cardinality(Children(x)') = IF told /\ x = t THEN Cardinality(Children(x)) - 1
                                                       ELSE Cardinality(Children(x))
      BY <1>9, <3>3, <3>4
    <3>7. proc'[x].nchild = IF told /\ x = t THEN proc[x].nchild - 1 ELSE proc[x].nchild
      BY <1>5
    <3> QED
      BY <3>2, <3>5, <3>6, <3>7
  <2> QED
    BY <2>2, <2>3 DEF CountInv
<1>24. LockInv'
  <2>1. \A x \in Proc : pc[x] \in Own \cup Reading \/ pc'[x] \in Own \cup Reading => x # p
    BY <1>3, <1>6 DEF Own, Reading
  <2>2. \A x \in Proc : x # p => /\ pc'[x] \in Own <=> pc[x] \in Own
                                 /\ pc'[x] \in Reading <=> pc[x] \in Reading
    BY <1>6 DEF Own, Reading
  <2> QED
    BY <1>1, <1>7, <2>1, <2>2, LockSame
<1>25. WaitInv'
  <2>1. \A x \in Proc : pc'[x] \in Own => x # p /\ pc[x] \in Own /\ on[x] = x
    BY <1>1, <1>3, <1>6 DEF Own, LockInv
  <2>2. kept => proc'[t].waitq # <<>>
    <3>1. ASSUME kept PROVE <<n>> \o proc[t].waitq # <<>>
      BY <1>13
    <3> QED
      BY <1>3, <1>5, <3>1
  <2>3. ASSUME NEW x \in Proc, pc'[x] \in Own, ~(told /\ x = t)
        PROVE  Due(x)' = Due(x) /\ pc'[x] = pc[x] /\ proc'[x].waitq = proc[x].waitq
    <3>1. x # p /\ pc[x] \in Own /\ on[x] = x
      BY <2>1, <2>3
    <3>2. proc[x].pid # 0 /\ pc[x] # "broken"
      BY <1>1, <3>1 DEF Own, Base, PidInv
    <3>3. p \notin Children(x)
      BY <1>1, <1>3, <1>10, <2>3, <3>2 DEF Base, PidInv
    <3> QED
      BY <1>3, <1>5, <1>6, <1>7, <1>9, <2>3, <3>1, <3>3 DEF Due, Strays
  <2>4. ASSUME NEW x \in Proc, pc'[x] \in Own, told /\ x = t
        PROVE  proc'[x].waitq # <<>> /\ (pc'[x] # "sleep")
    <3>1. x # p /\ pc[x] \in Own /\ on[x] = x
      BY <2>1, <2>4
    <3>2. CASE kept
      BY <1>6, <2>2, <2>4, <3>1, <3>2
    <3>3. CASE ~kept
      <4>1. proc[x].waitq # <<>> /\ pc'[x] = pc[x] /\ proc'[x].waitq = proc[x].waitq
        BY <1>5, <1>6, <1>15, <2>4, <3>1, <3>3
      <4>2. pc[x] # "sleep"
        BY <1>1, <4>1 DEF WaitInv, WaitsEnd, SleepsForOne, Due
      <4> QED
        BY <4>1, <4>2
    <3> QED
      BY <3>2, <3>3
  <2>5. \A x \in Proc : pc'[x] = "wait" => proc'[x].waitq # <<>> \/ Due(x)'
    BY <1>1, <2>3, <2>4 DEF WaitInv, Own
  <2>6. \A x \in Proc : pc'[x] = "sleep" => proc'[x].waitq = <<>> /\ Due(x)'
    BY <1>1, <2>3, <2>4 DEF WaitInv, WaitsEnd, SleepsForOne, Due, Own
  <2>7. \A x \in Proc : pc'[x] = "take" => proc'[x].waitq # <<>>
    BY <1>1, <2>3, <2>4 DEF WaitInv, WaitsEnd, TakeFinds, Own
  <2> QED
    BY <2>5, <2>6, <2>7 DEF WaitInv, WaitsEnd, SleepsForOne, TakeFinds, Due
<1>27. TypeOK'
  BY <1>1, <1>6, <1>7 DEF TypeOK, Strays
<1> QED
  BY <1>16, <1>17, <1>18, <1>19, <1>20, <1>21, <1>22, <1>23, <1>24, <1>25, <1>27 DEF PInv, Base
-----------------------------------------------------------------------------
(* Every step keeps the invariant.                                         *)
LEMMA NextPInv == PInv /\ [Next]_vars => PInv'
<1> SUFFICES ASSUME PInv, [Next]_vars PROVE PInv'
  OBVIOUS
<1>1. CASE UNCHANGED vars
  <2>1. /\ pc' = pc /\ broken' = broken
        /\ UNCHANGED <<proc, pidalloc, free, qwaitr, on, seen, history>>
    BY <1>1 DEF vars
  <2>2. broken' \in Seq(Proc) /\ pc' \in [Proc -> Places]
    BY <2>1 DEF PInv, TypeOK
  <2> QED
    BY <2>1, <2>2, BreaksInv
<1>2. ASSUME NEW p \in Proc,
             \/ TakeFree(p) \/ GivePid(p) \/ \E nowait \in BOOLEAN : Link(p, nowait)
             \/ Leave(p) \/ AddBroken(p) \/ Break(p) \/ Resume(p) \/ Unbreak(p)
             \/ Unhash(p) \/ Die(p)
      PROVE  PInv'
  BY <1>2, TakeFreeStep, GivePidStep, LinkStep, LeaveStep, AddBrokenInv, BreakInv,
     ResumeInv, UnbreakInv, UnhashStep, DieStep
<1>3. ASSUME NEW p \in Proc,
             \/ Wait(p) \/ Sleep(p) \/ Take(p) \/ Interrupt(p)
             \/ \E t \in Proc : Open(p, t)
             \/ First(p) \/ Test(p) \/ Check(p) \/ Again(p)
      PROVE  PInv'
  BY <1>3, WaitStep, SleepStep, TakeStep, InterruptStep, OpenStep, FirstStep, TestStep,
     CheckStep, AgainStep
<1> QED
  BY <1>1, <1>2, <1>3 DEF Next

(* The invariant always holds.                                             *)
LEMMA SpecPInv == Spec => []PInv
<1>1. Init => PInv
  BY InitPInv
<1>2. PInv /\ [Next]_vars => PInv'
  BY NextPInv
<1> QED
  BY <1>1, <1>2, PTL DEF Spec

(* No record is in two queues, or in one after it was collected, or        *)
(* collected twice, and none goes to a process that is not its owner,      *)
(* unless it has none: over newproc's resets, pexit's test of the parent's *)
(* pid and the collection of records by readers, whatever strays.  RecInv  *)
(* is what it rests on: a pid not yet through pexit's test has none.       *)
THEOREM LifeRecords == Spec => []RecordsAreOwn
<1>1. PInv => RecordsAreOwn
  <2> SUFFICES ASSUME PInv PROVE RecordsAreOwn
    OBVIOUS
  <2>1. TypeOK /\ RecInv
    BY DEF PInv, Base
  <2>2. /\ \A g \in got : owner[g[2]] # 0 => g[1] \in {owner[g[2]], 0}
        /\ \A g, h \in got : g[2] = h[2] => g = h
    BY <2>1 DEF RecInv
  <2>3. ASSUME NEW t \in Proc PROVE IsInjective(proc[t].waitq)
    BY <2>1 DEF RecInv, Distinct, IsInjective
  <2>4. ASSUME NEW t \in Proc, NEW c \in Queued(t)
        PROVE  /\ owner[c] # 0 => proc[t].pid \in {owner[c], 0}
               /\ \A g \in got : g[2] # c
               /\ \A u \in Proc \ {t} : c \notin Queued(u)
    <3>1. \A u \in Proc : c \in Queued(u) => Holds(u, c)
      BY DEF Queued, Range, Holds, On
    <3>2. proc[t].waitq \in Seq(Pid)
      BY <2>1, FieldTypes
    <3>3. c \in Pid
      BY <2>4, <3>2 DEF Queued, Range
    <3> QED
      BY <2>1, <2>4, <3>1, <3>3 DEF RecInv, Gone
  <2> QED
    BY <2>2, <2>3, <2>4 DEF RecordsAreOwn
<1> QED
  BY <1>1, SpecPInv, PTL

(* While a process can wait, nchild is the number of its children that     *)
(* have not reached pexit's test, less the strays that took it for their   *)
(* parent, and nwait that of its records, at most the limit: over          *)
(* newproc's reset, sysrfork's count, pexit's test of the parent's pid and *)
(* the collection of records by readers.                                   *)
THEOREM LifeCounts == Spec => []CountsAreRight
<1>1. PInv => CountsAreRight
  <2> SUFFICES ASSUME PInv PROVE CountsAreRight
    OBVIOUS
  <2>1. TypeOK /\ CountInv
    BY DEF PInv, Base
  <2>2. ASSUME NEW t \in Proc, Countable(t)
        PROVE  /\ proc[t].nchild = Cardinality(Children(t)) - Cardinality(astray[t])
               /\ proc[t].nwait = Len(proc[t].waitq)
               /\ proc[t].nwait <= Limit
    <3>1. proc[t].nwait \in 0..Limit
      BY <2>1, FieldTypes
    <3> QED
      BY <2>1, <2>2, <3>1, LimitAssumption DEF CountInv
  <2> QED
    BY <2>1, <2>2 DEF CountsAreRight
<1> QED
  BY <1>1, SpecPInv, PTL

(* Who sleeps in pwait has a child that will wake it or a count that       *)
(* strays spoiled, and who was woken finds the record, though readers of   *)
(* its wait file collect from the same queue: LockInv keeps them out while *)
(* it holds its qwaitr.                                                    *)
THEOREM LifeWaits == Spec => []WaitsEnd
<1>1. PInv => WaitsEnd
  BY DEF PInv, WaitInv
<1> QED
  BY <1>1, SpecPInv, PTL
=============================================================================
