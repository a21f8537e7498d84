----------------------------- MODULE ProcLife -----------------------------
(***************************************************************************)
(* The life of a process in the kernel (sys/src/9/port/proc.c, sysproc.c,  *)
(* devproc.c): rfork, exit, the wait record a child leaves with its        *)
(* parent, pwait and reads of /proc/n/wait, broken processes, and the free *)
(* list of Proc structures.                                                *)
(*                                                                         *)
(* A Proc structure outlives the process: a child keeps a pointer to its   *)
(* parent's, which may by then be dead, being refilled, or another         *)
(* process, and compares pids to know.  The fields below are under the     *)
(* structure's lock exl, except that newproc, which has the structure to   *)
(* itself, resets them without it; a critical section is one step, and so  *)
(* is what follows it up to the next access to another process's fields.   *)
(* Sleeping on waitr, whose one sleeper is the holder of qwaitr, is        *)
(* sleep's test and the switch in one step: SleepWakeup is the model of    *)
(* that.  A wait record is named by the pid in it.                         *)
(***************************************************************************)
EXTENDS Integers, Sequences, FiniteSets, SequencesExt

CONSTANTS
  Proc,                \* the Proc structures, procalloc.arena
  Nil,
  Boot,                \* the structure of the first process
  Limit,               \* wait records a parent may have, 128 in pexit
  NBROKEN,             \* broken processes kept
  Reader,              \* bound: the processes that read wait files
  MaxPid               \* bound: processes started

(* The arena is conf.nproc structures, allocated once (proc.c:713-720).     *)
ASSUME ProcAssumption ==
  /\ Boot \in Proc /\ Reader \subseteq Proc /\ Nil \notin Proc
  /\ IsFiniteSet(Proc)
ASSUME LimitAssumption == Limit \in Nat \ {0} /\ NBROKEN \in Nat \ {0}
ASSUME MaxPidAssumption == MaxPid \in Nat \ {0}

VARIABLES
  proc,                \* the fields of Proc
  pidalloc,            \* the last pid given out
  free,                \* procalloc.free, a stack
  broken,              \* the table of broken processes
  qwaitr,              \* the holder of each structure's qwaitr
  pc,                  \* where each structure's process is
  on,                  \* whose wait it is in, or the child it is making
  seen,                \* the pid of the wait file it reads
  owner,               \* history: the process that may wait for each pid
  got,                 \* history: <<whose wait, record>> collected
  astray,              \* history: dissociated children counted at each
  freed                \* history: the records freed by pexit

history == <<owner, got, astray, freed>>
vars == <<proc, pidalloc, free, broken, qwaitr, pc, on, seen, history>>

Pid == 1..MaxPid
Fields == [pid: 0..MaxPid, parent: Proc \cup {Nil}, parentpid: 0..MaxPid,
           nchild: Int, nwait: 0..Limit, waitq: Seq(Pid)]

Making == {"pid", "link"}               \* in sysrfork, on[p] the child
Own == {"wait", "sleep", "take"}        \* in pwait
Reading == {"first", "test", "rsleep", "woken", "again"}   \* in procread
Leaving == {"left", "adding", "broken", "gone", "unhashed"} \* in pexit
Places == {"free", "new", "run"} \cup Making \cup Own \cup Reading
          \cup Leaving

TypeOK ==
  /\ proc \in [Proc -> Fields]
  /\ pidalloc \in Pid
  /\ free \in Seq(Proc) /\ broken \in Seq(Proc)
  /\ qwaitr \in [Proc -> Proc \cup {Nil}]
  /\ pc \in [Proc -> Places]
  /\ on \in [Proc -> Proc \cup {Nil}]
  /\ seen \in [Proc -> 0..MaxPid]
  /\ owner \in [Pid -> 0..MaxPid]
  /\ got \subseteq (0..MaxPid) \X Pid
  /\ astray \in [Proc -> SUBSET Pid]
  /\ freed \subseteq Pid

NewProc == [pid |-> 0, parent |-> Nil, parentpid |-> 0,
            nchild |-> 0, nwait |-> 0, waitq |-> <<>>]

Init ==
  /\ proc = [p \in Proc |-> IF p = Boot THEN [NewProc EXCEPT !.pid = 1]
                                        ELSE NewProc]
  /\ pidalloc = 1
  /\ free \in SetToSeqs(Proc \ {Boot})
  /\ broken = <<>>
  /\ qwaitr = [p \in Proc |-> Nil]
  /\ pc = [p \in Proc |-> IF p = Boot THEN "run" ELSE "free"]
  /\ on = [p \in Proc |-> Nil]
  /\ seen = [p \in Proc |-> 0]
  /\ owner = [c \in Pid |-> 0] /\ got = {} /\ freed = {}
  /\ astray = [t \in Proc |-> {}]

Go(p, place) == pc' = [pc EXCEPT ![p] = place]

(* pc with the sleeper on t's waitr, if there is one, made ready           *)
Woken(t) ==
  LET q == qwaitr[t] IN
  IF q # Nil /\ pc[q] = "sleep" THEN [pc EXCEPT ![q] = "take"]
  ELSE IF q # Nil /\ pc[q] = "rsleep" THEN [pc EXCEPT ![q] = "woken"]
  ELSE pc
-----------------------------------------------------------------------------
(* Mutant of Reset                                                         *)
ResetKeepsCount(f) == [f EXCEPT !.parent = Nil, !.nwait = 0, !.waitq = <<>>]

(* newproc takes a structure off the free list and resets it; it panics    *)
(* when there is none.                                                     *)
Reset(f) ==
  [f EXCEPT !.parent = Nil, !.nchild = 0, !.nwait = 0, !.waitq = <<>>]

TakeFree(q) ==
  /\ pc[q] = "run" /\ free # <<>> /\ pidalloc < MaxPid
  /\ LET p == Head(free) IN
     /\ free' = Tail(free)
     /\ proc' = [proc EXCEPT ![p] = Reset(@)]
     /\ pc' = [pc EXCEPT ![q] = "pid", ![p] = "new"]
     /\ on' = [on EXCEPT ![q] = p]
     /\ astray' = [astray EXCEPT ![p] = {}]
  /\ UNCHANGED <<pidalloc, broken, qwaitr, seen, owner, got, freed>>

(* ... and last gives it a pid, by which /proc can find it                 *)
GivePid(q) ==
  /\ pc[q] = "pid" /\ pidalloc < MaxPid
  /\ pidalloc' = pidalloc + 1
  /\ proc' = [proc EXCEPT ![on[q]].pid = pidalloc + 1]
  /\ Go(q, "link")
  /\ UNCHANGED <<free, broken, qwaitr, on, seen, history>>

(* sysrfork sets the parent, counts the child and readies it.  A child     *)
(* started with RFNOWAIT has a parent but no parentpid.                    *)
Link(q, nowait) ==
  /\ pc[q] = "link"
  /\ LET p == on[q]
         id == IF nowait THEN 0 ELSE proc[q].pid
     IN
     /\ proc' = [proc EXCEPT ![p].parent = q, ![p].parentpid = id,
                             ![q].nchild = IF nowait THEN @ ELSE @ + 1]
     /\ pc' = [pc EXCEPT ![q] = "run", ![p] = "run"]
     /\ owner' = [owner EXCEPT ![proc[p].pid] = id]
  /\ on' = [on EXCEPT ![q] = Nil]
  /\ UNCHANGED <<pidalloc, free, broken, qwaitr, seen, got, astray, freed>>
-----------------------------------------------------------------------------
(* Mutant of Alive                                                         *)
AliveAnyone(t, p) == proc[t].pid # 0 /\ pc[t] # "broken"
(* pexit's test whether the parent is still there to be told               *)
Alive(t, p) == proc[t].pid = proc[p].parentpid /\ pc[t] # "broken"

Room(t) == proc[t].nwait < Limit

(* pexit up to the parent's exl released: leave a record unless there are  *)
(* too many.  The boot process may not exit.  A dissociated child has      *)
(* parentpid 0, which is also the pid of a structure without a process.    *)
Leave(p) ==
  LET t == proc[p].parent IN
  /\ pc[p] = "run" /\ p # Boot
  /\ IF Alive(t, p) THEN
       /\ IF Room(t) THEN
            /\ proc' = [proc EXCEPT ![t].nchild = @ - 1, ![t].nwait = @ + 1,
                                    ![t].waitq = <<proc[p].pid>> \o @]
            /\ pc' = [Woken(t) EXCEPT ![p] = "left"]
          ELSE
            /\ proc' = [proc EXCEPT ![t].nchild = @ - 1]
            /\ Go(p, "left")
       /\ astray' = [astray EXCEPT
            ![t] = IF proc[p].parentpid = 0 THEN @ \cup {proc[p].pid} ELSE @]
     ELSE Go(p, "left") /\ UNCHANGED <<proc, astray>>
  /\ UNCHANGED <<pidalloc, free, broken, qwaitr, on, seen, owner, got, freed>>

(* pexit after a fault keeps the memory: addbroken lists the process,      *)
(* readying the oldest when the table is full, then stops it.              *)
Ready(p) == IF pc[p] = "broken" THEN [pc EXCEPT ![p] = "gone"] ELSE pc

AddBroken(p) ==
  /\ pc[p] = "left"
  /\ IF Len(broken) = NBROKEN
     THEN /\ broken' = Append(Tail(broken), p)
          /\ pc' = [Ready(Head(broken)) EXCEPT ![p] = "adding"]
     ELSE /\ broken' = Append(broken, p)
          /\ Go(p, "adding")
  /\ UNCHANGED <<proc, pidalloc, free, qwaitr, on, seen, history>>

Break(p) ==
  /\ pc[p] = "adding"
  /\ Go(p, "broken")
  /\ UNCHANGED <<proc, pidalloc, free, broken, qwaitr, on, seen, history>>

(* It was readied between the two and so is on a run queue nevertheless.   *)
Resume(p) ==
  /\ pc[p] = "broken" /\ p \notin Range(broken)
  /\ Go(p, "gone")
  /\ UNCHANGED <<proc, pidalloc, free, broken, qwaitr, on, seen, history>>

(* unbreak; freebroken does this to each entry                             *)
Unbreak(p) ==
  /\ p \in Range(broken)
  /\ broken' = RemoveFirst(broken, p)
  /\ pc' = Ready(p)
  /\ UNCHANGED <<proc, pidalloc, free, qwaitr, on, seen, history>>

(* under its own exl, so that children leave no more waits                 *)
Unhash(p) ==
  /\ pc[p] \in {"left", "gone"}
  /\ proc' = [proc EXCEPT ![p].pid = 0]
  /\ pc' = [Woken(p) EXCEPT ![p] = "unhashed"]
  /\ UNCHANGED <<pidalloc, free, broken, qwaitr, on, seen, history>>

(* Free the records, leaving waitq as it is; then Moribund, and schedinit  *)
(* puts the structure on the free list.                                    *)
Die(p) ==
  /\ pc[p] = "unhashed"
  /\ freed' = freed \cup Range(proc[p].waitq)
  /\ free' = <<p>> \o free
  /\ Go(p, "free")
  /\ UNCHANGED <<proc, pidalloc, broken, qwaitr, on, seen, owner, got, astray>>
-----------------------------------------------------------------------------
(* procread and pwait: end with an error or a record, releasing qwaitr     *)
Release(q) ==
  /\ qwaitr' = [qwaitr EXCEPT ![on[q]] = Nil]
  /\ on' = [on EXCEPT ![q] = Nil]
  /\ Go(q, "run")

Collect(q) ==
  LET t == on[q] IN
  /\ proc' = [proc EXCEPT ![t].waitq = Tail(@), ![t].nwait = @ - 1]
  /\ got' = got \cup {<<proc[t].pid, Head(proc[t].waitq)>>}
  /\ Release(q)

(* Mutant of Childless                                                     *)
ChildlessNever(t) == t \notin Proc
Childless(t) == proc[t].nchild = 0 /\ proc[t].waitq = <<>>

canqlock(t) == qwaitr[t] = Nil

(* pwait: canqlock and the test for children; errors change nothing        *)
Wait(p) ==
  /\ pc[p] = "run" /\ canqlock(p) /\ ~Childless(p)
  /\ qwaitr' = [qwaitr EXCEPT ![p] = p]
  /\ on' = [on EXCEPT ![p] = p]
  /\ Go(p, "wait")
  /\ UNCHANGED <<proc, pidalloc, free, broken, seen, history>>

Sleep(p) ==
  /\ pc[p] = "wait"
  /\ Go(p, IF proc[p].waitq = <<>> THEN "sleep" ELSE "take")
  /\ UNCHANGED <<proc, pidalloc, free, broken, qwaitr, on, seen, history>>

Take(p) ==
  /\ pc[p] = "take"
  /\ Collect(p)
  /\ UNCHANGED <<pidalloc, free, broken, seen, owner, astray, freed>>

(* A note ends the sleep of pwait or procread.                             *)
Interrupt(q) ==
  /\ pc[q] \in {"sleep", "rsleep"}
  /\ Release(q)
  /\ UNCHANGED <<proc, pidalloc, free, broken, seen, history>>

(* A read of /proc/n/wait, by any process that finds t there               *)
Open(q, t) ==
  /\ q \in Reader /\ pc[q] = "run"
  /\ proc[t].pid # 0 /\ canqlock(t)
  /\ qwaitr' = [qwaitr EXCEPT ![t] = q]
  /\ on' = [on EXCEPT ![q] = t]
  /\ Go(q, "first")
  /\ UNCHANGED <<proc, pidalloc, free, broken, seen, history>>

(* with exl: note the pid; take a record, or else go to sleep              *)
First(q) ==
  LET t == on[q] IN
  /\ pc[q] = "first"
  /\ IF q = t /\ Childless(t)
     THEN Release(q) /\ UNCHANGED <<proc, seen, got>>
     ELSE /\ seen' = [seen EXCEPT ![q] = proc[t].pid]
          /\ IF proc[t].waitq # <<>> THEN Collect(q)
             ELSE Go(q, "test") /\ UNCHANGED <<proc, got, qwaitr, on>>
  /\ UNCHANGED <<pidalloc, free, broken, owner, astray, freed>>

Test(q) ==
  /\ pc[q] = "test"
  /\ Go(q, IF proc[on[q]].waitq = <<>> THEN "rsleep" ELSE "woken")
  /\ UNCHANGED <<proc, pidalloc, free, broken, qwaitr, on, seen, history>>

(* without exl: is it the same process?                                    *)
Check(q) ==
  /\ pc[q] = "woken"
  /\ IF proc[on[q]].pid # seen[q] THEN Release(q)
     ELSE Go(q, "again") /\ UNCHANGED <<qwaitr, on>>
  /\ UNCHANGED <<proc, pidalloc, free, broken, seen, history>>

Again(q) ==
  /\ pc[q] = "again"
  /\ IF proc[on[q]].waitq # <<>> THEN Collect(q)
     ELSE Go(q, "test") /\ UNCHANGED <<proc, got, qwaitr, on>>
  /\ UNCHANGED <<pidalloc, free, broken, seen, owner, astray, freed>>

Next ==
  \E p \in Proc :
    \/ TakeFree(p) \/ GivePid(p) \/ \E nowait \in BOOLEAN : Link(p, nowait)
    \/ Leave(p) \/ AddBroken(p) \/ Break(p) \/ Resume(p) \/ Unbreak(p)
    \/ Unhash(p) \/ Die(p)
    \/ Wait(p) \/ Sleep(p) \/ Take(p) \/ Interrupt(p)
    \/ \E t \in Proc : Open(p, t)
    \/ First(p) \/ Test(p) \/ Check(p) \/ Again(p)

Spec == Init /\ [][Next]_vars
-----------------------------------------------------------------------------
(* A record is in one queue or has been collected, once; and a process has *)
(* or gets no record of another's child, only of its own and of processes  *)
(* that are nobody's, which ChildrenOnly is about (proc.c:1115 and the     *)
(* resets of newproc).                                                     *)
Queued(t) == Range(proc[t].waitq)
RecordsAreOwn ==
  /\ \A g \in got : owner[g[2]] # 0 => g[1] \in {owner[g[2]], 0}
  /\ \A g, h \in got : g[2] = h[2] => g = h
  /\ \A t \in Proc :
       /\ IsInjective(proc[t].waitq)
       /\ \A c \in Queued(t) :
            /\ owner[c] # 0 => proc[t].pid \in {owner[c], 0}
            /\ \A g \in got : g[2] # c
            /\ \A u \in Proc \ {t} : c \notin Queued(u)

(* The processes that will yet leave a record with t                       *)
Children(t) ==
  {p \in Proc : /\ pc[p] \notin {"free", "new"} \cup Leaving
                /\ owner[proc[p].pid] = proc[t].pid}

(* While a process can wait, its counts are what its children and those of *)
(* nobody that took it for their parent made them: nchild its children     *)
(* that have not reached pexit's test, less the strays, and nwait the      *)
(* records, never more than the limit (sysproc.c:176, proc.c:1115-1131).   *)
Countable(t) == proc[t].pid # 0 /\ pc[t] \notin Leaving
CountsAreRight ==
  /\ TypeOK
  /\ \A t \in Proc : Countable(t) =>
       /\ proc[t].nchild = Cardinality(Children(t)) - Cardinality(astray[t])
       /\ proc[t].nwait = Len(proc[t].waitq)
       /\ proc[t].nwait <= Limit

(* Whoever sleeps in pwait has no record it was not woken for: no exit     *)
(* between pwait's test, made under exl, and its sleep is missed, and none *)
(* that left no record, for the limit, counts as one still to come; a      *)
(* child will leave one, or else strays spoiled nchild (proc.c:1208-1215). *)
SleepsForOne ==
  \A p \in Proc : pc[p] = "sleep" =>
    proc[p].waitq = <<>> /\ (Children(p) # {} \/ astray[p] # {})

(* pwait does not test waitq again after the sleep: whatever woke it, and  *)
(* whoever reads its wait file, a record is there (proc.c:1217).           *)
TakeFinds == \A p \in Proc : pc[p] = "take" => proc[p].waitq # <<>>

(* Who sleeps was not passed over, and who is woken finds what it slept for *)
WaitsEnd == SleepsForOne /\ TakeFinds

(* The Waitmsg a process gets is that of a child of its own, wait(2), and  *)
(* a child started with RFNOWAIT leaves none, fork(2).  MCLifeStray.cfg    *)
(* shows one that its grandchild leaves with a stranger.                   *)
ChildrenOnly == \A g \in got : g[1] # 0 => owner[g[2]] = g[1]

(* "If there are no more children to wait for, wait returns immediately",  *)
(* wait(2): who sleeps in pwait has a child.  MCLifeVain.cfg shows one     *)
(* that does not, its nchild being -1.                                     *)
NoVainWait == \A p \in Proc : pc[p] = "sleep" => Children(p) # {}

(* A read of a wait file recovers records, proc(3): not memory that pexit  *)
(* has freed (proc.c:1158-1161).  MCLifeFreed.cfg shows one that does.     *)
NoUseAfterFree == \A g \in got : g[2] \notin freed

(* A reader asleep on a wait file is told "process exited" (error.h:27)    *)
(* when it has (devproc.c:896).  MCLifeUntold.cfg shows one that is not.   *)
ReaderIsTold ==
  \A q \in Proc : pc[q] = "rsleep" => proc[on[q]].pid \in {seen[q]} \ {0}
=============================================================================
