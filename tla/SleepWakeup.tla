---------------------------- MODULE SleepWakeup ----------------------------
(***************************************************************************)
(* sleep, wakeup and postnote (sys/src/9/port/proc.c), sysrendezvous       *)
(* (sys/src/9/port/sysproc.c), and the delivery of notes by notify and     *)
(* noted (sys/src/9/pc/trap.c): everything that blocks a process until     *)
(* another one, or a note, unblocks it.                                    *)
(*                                                                         *)
(* Two spin locks guard a sleep: the Rendez's own and Proc.rlock of the    *)
(* sleeper, so that r->p and p->r agree.  sleep and wakeup take the Rendez *)
(* first; postnote, which must find the Rendez through p->r, takes         *)
(* Proc.rlock first and only tries the other.  A third one guards the      *)
(* rendezvous group.  A step is what happens between two accesses another  *)
(* process can tell apart.                                                 *)
(*                                                                         *)
(* Notes are NUser ones to processes with a handler: the notes that kill,  *)
(* and pexit, are not modelled.  The qlock p->debug, which makes posting   *)
(* and delivering a note atomic, is the subject of QLock.  One rendezvous  *)
(* group is modelled, its hash chains as a set of waiting processes.       *)
(***************************************************************************)
EXTENDS Sched, Sleepers, Integers

CONSTANTS
  Tag,                 \* rendezvous tags
  Target,              \* the processes that are sent notes
  NNOTE                \* how many notes a Proc holds

ASSUME TagAssumption == None \notin Tag
ASSUME TargetAssumption == Target \subseteq Proc
ASSUME NNOTEAssumption == NNOTE \in Nat \ {0}

VARIABLES
  rlk,                 \* the holder of each Rendez's lock
  plk,                 \* the holder of each Proc.rlock
  glk,                 \* the holder of the rendezvous group's lock
  rp,                  \* Rendez.p
  pr,                  \* Proc.r
  cond,                \* what sleep's f tests, for each Rendez
  nnote,               \* Proc.nnote
  notepending,         \* Proc.notepending
  notified,            \* Proc.notified: a note is being handled
  rendval,             \* Proc.rendval; each process offers its own name
  waiting,             \* the processes on the group's hash chains
  pc,                  \* where each process is
  arg                  \* the Rendez, Proc or tag its operation is about;
                       \* Proc.rendtag for a process blocked in rendezvous

lockvars == <<rlk, plk, glk>>
sleepvars == <<rp, pr, cond>>
notevars == <<nnote, notepending, notified>>
rendvars == <<rendval, waiting>>
vars == <<state, mach, lockvars, sleepvars, notevars, rendvars, pc, arg>>

(* user: outside the kernel; exit: on the way back to user mode            *)
(* s...: in sleep, w...: in wakeup, n...: in postnote, r...: in rendezvous *)
SleepLabel == {"slock", "slockp", "stest", "snote", "sunlock", "ssched",
               "sasleep", "swoken"}
Label == {"user", "exit", "panic"} \cup SleepLabel \cup
  {"wlock", "wproc"} \cup {"nlock", "ntry", "nrend", "npull"} \cup
  {"rlock", "rspin", "rsched", "rasleep"}

Owner == Proc \cup {None}

TypeOK ==
  /\ SchedTypeOK
  /\ rlk \in [Rendez -> Owner]
  /\ plk \in [Proc -> Owner]
  /\ glk \in Owner
  /\ rp \in [Rendez -> Owner]
  /\ pr \in [Proc -> Rendez \cup {None}]
  /\ cond \in [Rendez -> BOOLEAN]
  /\ nnote \in [Proc -> 0 .. NNOTE]
  /\ notepending \in [Proc -> BOOLEAN]
  /\ notified \in [Proc -> BOOLEAN]
  /\ rendval \in [Proc -> Owner]
  /\ waiting \in SUBSET Proc
  /\ pc \in [Proc -> Label]
  /\ arg \in [Proc -> Rendez \cup Proc \cup Tag \cup {None}]

Init ==
  /\ SchedInit
  /\ rlk = [r \in Rendez |-> None]
  /\ plk = [p \in Proc |-> None]
  /\ glk = None
  /\ rp = [r \in Rendez |-> None]
  /\ pr = [p \in Proc |-> None]
  /\ cond = [r \in Rendez |-> FALSE]
  /\ nnote = [p \in Proc |-> 0]
  /\ notepending = [p \in Proc |-> FALSE]
  /\ notified = [p \in Proc |-> FALSE]
  /\ rendval = [p \in Proc |-> None]
  /\ waiting = {}
  /\ pc = [p \in Proc |-> "user"]
  /\ arg = [p \in Proc |-> None]

At(p, l) == pc[p] = l /\ Executing(p)
Goto(p, l) == pc' = [pc EXCEPT ![p] = l] /\ UNCHANGED arg
Enter(p, l, a) == pc' = [pc EXCEPT ![p] = l] /\ arg' = [arg EXCEPT ![p] = a]
Leave(p) == Enter(p, "exit", None)

-----------------------------------------------------------------------------
(* sleep(r, f, arg).  Callers see to it that a Rendez has one sleeper at a *)
(* time.  The sleeper may have consumed what f tests before it sleeps.     *)

InSleep(p, r) == pc[p] \in SleepLabel /\ arg[p] = r

SleepCall(p, r) ==
  /\ At(p, "user")
  /\ \A q \in Proc : ~InSleep(q, r)
  /\ \E consumed \in BOOLEAN : cond' = [cond EXCEPT ![r] = @ /\ ~consumed]
  /\ Enter(p, "slock", r)
  /\ UNCHANGED <<schedvars, lockvars, rp, pr, notevars, rendvars>>

SleepLockRendez(p) ==
  LET r == arg[p] IN
  /\ At(p, "slock")
  /\ rlk[r] = None
  /\ rlk' = [rlk EXCEPT ![r] = p]
  /\ Goto(p, "slockp")
  /\ UNCHANGED <<schedvars, plk, glk, sleepvars, notevars, rendvars>>

(* lock(&up->rlock), r->p = up                                             *)
SleepLockProc(p) ==
  /\ At(p, "slockp")
  /\ plk[p] = None
  /\ plk' = [plk EXCEPT ![p] = p]
  /\ rp' = [rp EXCEPT ![arg[p]] = p]
  /\ Goto(p, "stest")
  /\ UNCHANGED <<schedvars, rlk, glk, pr, cond, notevars, rendvars>>

(* the condition happened or a note is pending: never mind                 *)
SleepNeverMind(p, reason) ==
  /\ reason
  /\ rp' = [rp EXCEPT ![arg[p]] = None]
  /\ plk' = [plk EXCEPT ![p] = None]
  /\ rlk' = [rlk EXCEPT ![arg[p]] = None]
  /\ Goto(p, "swoken")
  /\ UNCHANGED <<schedvars, glk, pr, cond, notevars, rendvars>>

(* f(arg)                                                                  *)
SleepTest(p) ==
  /\ At(p, "stest")
  /\ \/ SleepNeverMind(p, cond[arg[p]])
     \/ /\ ~cond[arg[p]]
        /\ Goto(p, "snote")
        /\ UNCHANGED <<schedvars, lockvars, sleepvars, notevars, rendvars>>

(* Mutant of SleepCommit: a note that is pending already is overlooked.    *)
SleepIgnoresNote(p) ==
  /\ At(p, "snote")
  /\ state' = [state EXCEPT ![p] = "Wakeme"]
  /\ pr' = [pr EXCEPT ![p] = arg[p]]
  /\ plk' = [plk EXCEPT ![p] = None]
  /\ Goto(p, "sunlock")
  /\ UNCHANGED <<mach, rlk, glk, rp, cond, notevars, rendvars>>

(* up->notepending; else commit and unlock(&up->rlock)                     *)
SleepCommit(p) ==
  /\ At(p, "snote")
  /\ \/ SleepNeverMind(p, notepending[p])
     \/ /\ ~notepending[p]
        /\ state' = [state EXCEPT ![p] = "Wakeme"]
        /\ pr' = [pr EXCEPT ![p] = arg[p]]
        /\ plk' = [plk EXCEPT ![p] = None]
        /\ Goto(p, "sunlock")
        /\ UNCHANGED <<mach, rlk, glk, rp, cond, notevars, rendvars>>

SleepUnlock(p) ==
  /\ At(p, "sunlock")
  /\ rlk' = [rlk EXCEPT ![arg[p]] = None]
  /\ Goto(p, "ssched")
  /\ UNCHANGED <<schedvars, plk, glk, sleepvars, notevars, rendvars>>

(* gotolabel(&m->sched)                                                    *)
SleepSched(p) ==
  /\ pc[p] = "ssched"
  /\ sched(p)
  /\ Goto(p, "sasleep")
  /\ UNCHANGED <<lockvars, sleepvars, notevars, rendvars>>

(* back from the scheduler, or never asleep: error(Eintr) on a note        *)
SleepReturn(p) ==
  /\ Executing(p)
  /\ pc[p] \in {"sasleep", "swoken"}
  /\ notepending' = [notepending EXCEPT ![p] = FALSE]
  /\ Leave(p)
  /\ UNCHANGED <<schedvars, lockvars, sleepvars, nnote, notified, rendvars>>

-----------------------------------------------------------------------------
(* The other side: set the condition, then wakeup(r).                      *)

WakeupCall(p, r) ==
  /\ At(p, "user")
  /\ cond' = [cond EXCEPT ![r] = TRUE]
  /\ Enter(p, "wlock", r)
  /\ UNCHANGED <<schedvars, lockvars, rp, pr, notevars, rendvars>>

(* Mutant of WakeupLock: canlock(r) in place of lock(r).                   *)
WakeupGivesUp(p) ==
  LET r == arg[p] IN
  /\ At(p, "wlock")
  /\ IF rlk[r] # None \/ rp[r] = None
       THEN Leave(p) /\ UNCHANGED rlk
       ELSE rlk' = [rlk EXCEPT ![r] = p] /\ Goto(p, "wproc")
  /\ UNCHANGED <<schedvars, plk, glk, sleepvars, notevars, rendvars>>

(* lock(r); with no sleeper unlock and return                              *)
WakeupLock(p) ==
  LET r == arg[p] IN
  /\ At(p, "wlock")
  /\ rlk[r] = None
  /\ IF rp[r] = None
       THEN Leave(p) /\ UNCHANGED rlk
       ELSE rlk' = [rlk EXCEPT ![r] = p] /\ Goto(p, "wproc")
  /\ UNCHANGED <<schedvars, plk, glk, sleepvars, notevars, rendvars>>

(* Mutant of Unblock: r->p is not cleared.                                 *)
UnblockKeeps(q, r) == UNCHANGED rp /\ pr' = [pr EXCEPT ![q] = None] /\ ready(q)

(* unblock q, asleep on r, both locks held                                 *)
Unblock(q, r) ==
  /\ rp' = [rp EXCEPT ![r] = None]
  /\ pr' = [pr EXCEPT ![q] = None]
  /\ ready(q)

(* lock(&p->rlock), the check, ready(p), both unlocks                      *)
WakeupProc(p) ==
  LET r == arg[p]
      q == rp[r]
  IN
  /\ At(p, "wproc")
  /\ plk[q] = None
  /\ IF state[q] # "Wakeme" \/ pr[q] # r
       THEN Goto(p, "panic") /\ UNCHANGED <<rlk, rp, pr, state>>
       ELSE /\ Unblock(q, r)
            /\ rlk' = [rlk EXCEPT ![r] = None]
            /\ Leave(p)
  /\ UNCHANGED <<mach, plk, glk, cond, notevars, rendvars>>

-----------------------------------------------------------------------------
(* postnote(q, 1, n, NUser)                                                *)

PostNote(p, q) ==
  /\ At(p, "user")
  /\ nnote' = [nnote EXCEPT ![q] = IF @ < NNOTE THEN @ + 1 ELSE @]
  /\ notepending' = [notepending EXCEPT ![q] = TRUE]
  /\ Enter(p, "nlock", q)
  /\ UNCHANGED <<schedvars, lockvars, sleepvars, notified, rendvars>>

(* lock(&p->rlock); not in a sleep: unlock and go on                       *)
PostNoteLock(p) ==
  LET q == arg[p] IN
  /\ At(p, "nlock")
  /\ plk[q] = None
  /\ IF pr[q] = None
       THEN Goto(p, "nrend") /\ UNCHANGED plk
       ELSE Goto(p, "ntry") /\ plk' = [plk EXCEPT ![q] = p]
  /\ UNCHANGED <<schedvars, rlk, glk, sleepvars, notevars, rendvars>>

(* canlock(r) succeeds                                                     *)
PostNoteWake(p) ==
  LET q == arg[p]
      r == pr[q]
  IN
  /\ At(p, "ntry")
  /\ rlk[r] = None
  /\ IF state[q] # "Wakeme" \/ rp[r] # q
       THEN Goto(p, "panic") /\ UNCHANGED <<rp, pr, state, plk>>
       ELSE /\ Unblock(q, r)
            /\ plk' = [plk EXCEPT ![q] = None]
            /\ Goto(p, "nrend")
  /\ UNCHANGED <<mach, rlk, glk, cond, notevars, rendvars>>

(* Mutant of PostNoteRetry: no second try.                                 *)
PostNoteGivesUp(p) ==
  /\ At(p, "ntry")
  /\ rlk[pr[arg[p]]] # None
  /\ plk' = [plk EXCEPT ![arg[p]] = None]
  /\ Goto(p, "nrend")
  /\ UNCHANGED <<schedvars, rlk, glk, sleepvars, notevars, rendvars>>

(* canlock(r) fails: give way, and try again                               *)
PostNoteRetry(p) ==
  LET q == arg[p] IN
  /\ At(p, "ntry")
  /\ rlk[pr[q]] # None
  /\ plk' = [plk EXCEPT ![q] = None]
  /\ sched(p)
  /\ Goto(p, "nlock")
  /\ UNCHANGED <<rlk, glk, sleepvars, notevars, rendvars>>

(* p->state is read with no lock held                                      *)
PostNoteRend(p) ==
  /\ At(p, "nrend")
  /\ IF state[arg[p]] = "Rendezvous" THEN Goto(p, "npull") ELSE Leave(p)
  /\ UNCHANGED <<schedvars, lockvars, sleepvars, notevars, rendvars>>

(* and again under the group's lock: pull q out, its rendezvous fails      *)
PostNotePull(p) ==
  LET q == arg[p] IN
  /\ At(p, "npull")
  /\ glk = None
  /\ IF state[q] = "Rendezvous"
       THEN /\ rendval' = [rendval EXCEPT ![q] = None]
            /\ waiting' = waiting \ {q}
            /\ ready(q)
       ELSE UNCHANGED <<rendval, waiting, state>>
  /\ Leave(p)
  /\ UNCHANGED <<mach, lockvars, sleepvars, notevars>>

-----------------------------------------------------------------------------
(* rendezvous(tag, value)                                                  *)

RendCall(p, t) ==
  /\ At(p, "user")
  /\ Enter(p, "rlock", t)
  /\ UNCHANGED <<schedvars, lockvars, sleepvars, notevars, rendvars>>

(* Mutant of RendMeet: the group's lock is dropped before the wait.        *)
RendMeetUnlocked(p) ==
  \E q \in waiting :
    /\ At(p, "rlock")
    /\ glk = None
    /\ arg[q] = arg[p]
    /\ waiting' = waiting \ {q}
    /\ rendval' = [rendval EXCEPT ![q] = p]
    /\ Enter(p, "rspin", q)
    /\ UNCHANGED <<schedvars, lockvars, sleepvars, notevars>>

(* somebody waits with this tag: unlink it and exchange values, then wait  *)
(* until it is off its processor, with the group's lock held               *)
RendMeet(p) ==
  \E q \in waiting :
    /\ At(p, "rlock")
    /\ glk = None
    /\ arg[q] = arg[p]
    /\ waiting' = waiting \ {q}
    /\ rendval' = [rendval EXCEPT ![q] = p]
    /\ glk' = p
    /\ Enter(p, "rspin", q)
    /\ UNCHANGED <<schedvars, rlk, plk, sleepvars, notevars>>

RendReady(p) ==
  /\ At(p, "rspin")
  /\ ~mach[arg[p]]
  /\ ready(arg[p])
  /\ glk' = None
  /\ Leave(p)
  /\ UNCHANGED <<mach, rlk, plk, sleepvars, notevars, rendvars>>

(* nobody does: join the group and block                                   *)
RendWait(p) ==
  /\ At(p, "rlock")
  /\ glk = None
  /\ \A q \in waiting : arg[q] # arg[p]
  /\ rendval' = [rendval EXCEPT ![p] = p]
  /\ waiting' = waiting \cup {p}
  /\ state' = [state EXCEPT ![p] = "Rendezvous"]
  /\ Goto(p, "rsched")
  /\ UNCHANGED <<mach, lockvars, sleepvars, notevars>>

RendSched(p) ==
  /\ pc[p] = "rsched"
  /\ sched(p)
  /\ Goto(p, "rasleep")
  /\ UNCHANGED <<lockvars, sleepvars, notevars, rendvars>>

(* return up->rendval, cleared here because nobody reads it again          *)
RendReturn(p) ==
  /\ At(p, "rasleep")
  /\ rendval' = [rendval EXCEPT ![p] = None]
  /\ Leave(p)
  /\ UNCHANGED <<schedvars, lockvars, sleepvars, notevars, waiting>>

-----------------------------------------------------------------------------
(* Back to user mode from a system call (or, at user, from an interrupt):  *)
(* notify delivers the first note unless one is being handled.             *)

Notify(p) ==
  /\ Executing(p)
  /\ pc[p] \in {"exit", "user"}
  /\ nnote[p] > 0
  /\ notepending' = [notepending EXCEPT ![p] = FALSE]
  /\ nnote' = [nnote EXCEPT ![p] = IF notified[p] THEN @ ELSE @ - 1]
  /\ notified' = [notified EXCEPT ![p] = TRUE]
  /\ Goto(p, "user")
  /\ UNCHANGED <<schedvars, lockvars, sleepvars, rendvars>>

NoNote(p) ==
  /\ At(p, "exit")
  /\ nnote[p] = 0
  /\ Goto(p, "user")
  /\ UNCHANGED <<schedvars, lockvars, sleepvars, notevars, rendvars>>

(* the system call noted() ends the handling of a note                     *)
Noted(p) ==
  /\ At(p, "user")
  /\ notified[p]
  /\ notified' = [notified EXCEPT ![p] = FALSE]
  /\ Goto(p, "exit")
  /\ UNCHANGED <<schedvars, lockvars, sleepvars, nnote, notepending, rendvars>>

Run(p) ==
  /\ runproc(p)
  /\ UNCHANGED <<lockvars, sleepvars, notevars, rendvars, pc, arg>>

(* labels at which p holds a spin lock or runs at splhi                    *)
Delayed == {"slockp", "stest", "snote", "sunlock", "ssched", "wproc", "ntry",
            "rspin"}

Preempt(p) ==
  /\ preempt(p, pc[p] \in Delayed)
  /\ UNCHANGED <<lockvars, sleepvars, notevars, rendvars, pc, arg>>

-----------------------------------------------------------------------------
Call(p) ==
  \/ \E r \in Rendez : SleepCall(p, r) \/ WakeupCall(p, r)
  \/ \E q \in Target \ {p} : PostNote(p, q)
  \/ \E t \in Tag : RendCall(p, t)

Step(p) ==
  \/ SleepLockRendez(p) \/ SleepLockProc(p) \/ SleepTest(p) \/ SleepCommit(p)
  \/ SleepUnlock(p) \/ SleepSched(p) \/ SleepReturn(p)
  \/ WakeupLock(p) \/ WakeupProc(p)
  \/ PostNoteLock(p) \/ PostNoteWake(p) \/ PostNoteRetry(p)
  \/ PostNoteRend(p) \/ PostNotePull(p)
  \/ RendMeet(p) \/ RendReady(p) \/ RendWait(p) \/ RendSched(p) \/ RendReturn(p)
  \/ Notify(p) \/ NoNote(p)

Next == \E p \in Proc : Call(p) \/ Noted(p) \/ Step(p) \/ Run(p) \/ Preempt(p)

Spec == Init /\ [][Next]_vars

(* the spin lock p is about to take is free                                *)
LockFree(p) ==
  /\ pc[p] \in {"slock", "wlock"} => rlk[arg[p]] = None
  /\ pc[p] = "nlock" => plk[arg[p]] = None
  /\ pc[p] \in {"npull", "rlock"} => glk = None

(* As in QLock: a process executes, a Ready one is run, a spin loop gets   *)
(* its turn.  Nobody has to call anything.                                 *)
Fairness ==
  \A p \in Proc :
    /\ SF_vars(Step(p))
    /\ SF_vars(LockFree(p) /\ Run(p))

FairSpec == Spec /\ Fairness

-----------------------------------------------------------------------------
(* Properties                                                              *)

(* The assertions of wakeup and postnote never fail.                       *)
NoPanic == \A p \in Proc : pc[p] # "panic"

(* No lost wakeup: when a process is asleep although what it waits for has *)
(* happened, whoever made it happen is still on its way into wakeup.       *)
NoLostWakeup ==
  \A p \in Proc :
    state[p] = "Wakeme" /\ cond[pr[p]] =>
      \E q \in Proc : pc[q] \in {"wlock", "wproc"} /\ arg[q] = pr[p]

(* No lost note: a process is asleep with a note pending only while the    *)
(* postnote that will wake it is in progress.                              *)
NoLostNote ==
  \A p \in Proc :
    state[p] = "Wakeme" /\ notepending[p] =>
      \E q \in Proc : pc[q] \in {"nlock", "ntry"} /\ arg[q] = p

(* A tag has one waiter at most, so two processes never both wait for each *)
(* other; and either a partner or a note takes a waiter off the chain, not *)
(* both: the one being met is still blocked and keeps its partner's value. *)
OneWaiterPerTag ==
  /\ \A p, q \in waiting : arg[p] = arg[q] => p = q
  /\ \A p \in Proc : p \in waiting =>
       state[p] = "Rendezvous" /\ \A q \in Proc : ~(pc[q] = "rspin" /\ arg[q] = p)
  /\ \A q \in Proc : pc[q] = "rspin" =>
       state[arg[q]] = "Rendezvous" /\ rendval[arg[q]] = q

(* A pending note is a stored note: sleep is never interrupted for nothing *)
PendingIsStored == \A p \in Proc : notepending[p] => nnote[p] > 0

(* A sleeper whose condition has happened, or for whom a note is pending,  *)
(* runs again, although postnote's retry loop alone need not come to an    *)
(* end: while it meets a locked Rendez each time, wakeup does the work.    *)
SleeperReleased ==
  \A p \in Proc :
    state[p] = "Wakeme" /\ (notepending[p] \/ cond[pr[p]]) ~> state[p] = "Running"

=============================================================================
