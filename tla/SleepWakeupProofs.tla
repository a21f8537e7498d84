------------------------- MODULE SleepWakeupProofs -------------------------
(***************************************************************************)
(* Theorems about SleepWakeup and, at the end, Tsleep, for any processes,  *)
(* Rendez, tags, notes and processors:                                     *)
(* the panics of wakeup and postnote are unreachable, no wakeup and no     *)
(* note is lost, and a rendezvous waiter is taken by a partner or a note,  *)
(* not both.                                                               *)
(*                                                                         *)
(* The heart of the argument is SleepInv: r->p and p->r are functions of   *)
(* where the sleeper is and of its state, and the two spin locks keep them *)
(* that way between the steps of the three parties.                        *)
(***************************************************************************)
EXTENDS SleepWakeup, Tsleep, TLAPS

(* What the operation of a process is about.                               *)
ArgInv ==
  \A p \in Proc :
    /\ pc[p] \in SleepLabel \cup {"wlock", "wproc"} => arg[p] \in Rendez
    /\ pc[p] \in {"nlock", "ntry", "nrend", "npull", "rspin"} => arg[p] \in Proc
    /\ pc[p] \in {"rlock", "rsched", "rasleep"} => arg[p] \in Tag

(* Each spin lock is held exactly between the steps that take and drop it. *)
HoldsRendez(p, r) ==
  arg[p] = r /\ pc[p] \in {"slockp", "stest", "snote", "sunlock", "wproc"}
HoldsProc(p, q) ==
  \/ p = q /\ pc[p] \in {"stest", "snote"}
  \/ pc[p] = "ntry" /\ arg[p] = q

RendezLocks == \A p \in Proc, r \in Rendez : rlk[r] = p <=> HoldsRendez(p, r)
ProcLocks == \A p, q \in Proc : plk[q] = p <=> HoldsProc(p, q)
GroupLock == \A p \in Proc : glk = p <=> pc[p] = "rspin"

(* A process blocks only in sleep and rendezvous, and one that is back     *)
(* from its sched() is running.                                            *)
StateInv ==
  \A p \in Proc :
    /\ state[p] \in {"Running", "Ready", "Wakeme", "Rendezvous"}
    /\ state[p] = "Wakeme" => pc[p] \in {"sunlock", "ssched", "sasleep"}
    /\ state[p] = "Rendezvous" => pc[p] \in {"rsched", "rasleep"}
    /\ pc[p] \in {"sasleep", "rasleep"} /\ mach[p] => state[p] = "Running"

(* A Rendez has one sleeper; r->p is set from the test until whoever       *)
(* unblocks the sleeper clears it, p->r while it is blocked.               *)
OneSleeper ==
  \A p, q \in Proc, r \in Rendez : InSleep(p, r) /\ InSleep(q, r) => p = q

SleepInv ==
  /\ \A p \in Proc, r \in Rendez :
       /\ rp[r] = p <=> arg[p] = r /\ (pc[p] \in {"stest", "snote"} \/ state[p] = "Wakeme")
       /\ pr[p] = r <=> arg[p] = r /\ state[p] = "Wakeme"
  /\ \A p \in Proc : pc[p] = "wproc" => rp[arg[p]] # None
  /\ \A p \in Proc : pc[p] = "ntry" => pr[arg[p]] # None

(* A process blocked in a rendezvous is on the chain until a partner, who  *)
(* then spins until it is off its processor, or a note takes it off.       *)
RendInv ==
  /\ OneWaiterPerTag
  /\ \A p \in Proc : state[p] = "Rendezvous" =>
       p \in waiting \/ \E q \in Proc : pc[q] = "rspin" /\ arg[q] = p

(* Once sleep has found the condition false, whoever makes it true is on   *)
(* its way into wakeup until the sleeper is unblocked.                     *)
WakerComing ==
  \A p \in Proc :
    (pc[p] = "snote" \/ state[p] = "Wakeme") /\ cond[arg[p]] =>
      \E q \in Proc : pc[q] \in {"wlock", "wproc"} /\ arg[q] = arg[p]

IInv ==
  /\ TypeOK
  /\ ArgInv
  /\ RendezLocks
  /\ ProcLocks
  /\ GroupLock
  /\ StateInv
  /\ OneSleeper
  /\ SleepInv
  /\ NoPanic
  /\ RendInv
  /\ WakerComing
  /\ NoLostNote

-----------------------------------------------------------------------------
(* Typing                                                                  *)

LEMMA TypeInit == Init => TypeOK
<1> SUFFICES ASSUME Init PROVE TypeOK
  OBVIOUS
<1>1. state \in [Proc -> ProcState] /\ waiting \in SUBSET Proc
  BY DEF Init, SchedInit, ProcState
<1>2. /\ mach \in [Proc -> BOOLEAN]
      /\ cond \in [Rendez -> BOOLEAN]
      /\ notepending \in [Proc -> BOOLEAN]
      /\ notified \in [Proc -> BOOLEAN]
  BY Zenon DEF Init, SchedInit
<1>3. /\ rlk \in [Rendez -> Owner]
      /\ plk \in [Proc -> Owner]
      /\ glk \in Owner
      /\ rp \in [Rendez -> Owner]
      /\ pr \in [Proc -> Rendez \cup {None}]
      /\ rendval \in [Proc -> Owner]
  BY DEF Init, Owner
<1>4. /\ nnote \in [Proc -> 0 .. NNOTE]
      /\ pc \in [Proc -> Label]
      /\ arg \in [Proc -> Rendez \cup Proc \cup Tag \cup {None}]
  BY NNOTEAssumption DEF Init, Label
<1> QED
  BY <1>1, <1>2, <1>3, <1>4 DEF TypeOK, SchedTypeOK

LEMMA TypeStep == TypeOK /\ ArgInv /\ [Next]_vars => TypeOK'
<1> SUFFICES ASSUME TypeOK, ArgInv, [Next]_vars PROVE TypeOK'
  OBVIOUS
<1> USE TargetAssumption, NNOTEAssumption
<1> USE DEF TypeOK, SchedTypeOK, ProcState, Blocked, Label, SleepLabel, Owner, schedvars,
            lockvars, sleepvars, notevars, rendvars, At, Goto, Enter, Leave, Executing
<1>1. ASSUME NEW p \in Proc, NEW r \in Rendez, SleepCall(p, r) PROVE TypeOK'
  <2>1. cond' \in [Rendez -> BOOLEAN]
    BY <1>1, Zenon DEF SleepCall
  <2> QED
    BY <1>1, <2>1 DEF SleepCall
<1>2. ASSUME NEW p \in Proc, SleepLockRendez(p) PROVE TypeOK'
  BY <1>2 DEF SleepLockRendez
<1>3. ASSUME NEW p \in Proc, SleepLockProc(p) PROVE TypeOK'
  BY <1>3 DEF SleepLockProc
<1>4. ASSUME NEW p \in Proc, SleepTest(p) PROVE TypeOK'
  BY <1>4 DEF SleepTest, SleepNeverMind
<1>5. ASSUME NEW p \in Proc, SleepCommit(p) PROVE TypeOK'
  <2>1. CASE SleepNeverMind(p, notepending[p])
    BY <2>1 DEF SleepNeverMind
  <2>2. CASE ~SleepNeverMind(p, notepending[p])
    <3>1. /\ state' = [state EXCEPT ![p] = "Wakeme"]
          /\ pr' = [pr EXCEPT ![p] = arg[p]]
          /\ plk' = [plk EXCEPT ![p] = None]
          /\ pc' = [pc EXCEPT ![p] = "sunlock"]
          /\ UNCHANGED <<mach, rlk, glk, rp, cond, notevars, rendvars, arg>>
      BY <1>5, <2>2 DEF SleepCommit
    <3>2. arg[p] \in Rendez
      BY <1>5 DEF SleepCommit, ArgInv
    <3> QED
      BY <3>1, <3>2
  <2> QED
    BY <2>1, <2>2
<1>6. ASSUME NEW p \in Proc, SleepUnlock(p) PROVE TypeOK'
  BY <1>6 DEF SleepUnlock
<1>7. ASSUME NEW p \in Proc, SleepSched(p) PROVE TypeOK'
  <2>1. mach' \in [Proc -> BOOLEAN]
    BY <1>7, Zenon DEF SleepSched, sched
  <2> QED
    BY <1>7, <2>1 DEF SleepSched, sched
<1>8. ASSUME NEW p \in Proc, SleepReturn(p) PROVE TypeOK'
  <2>1. notepending' \in [Proc -> BOOLEAN]
    BY <1>8, Zenon DEF SleepReturn
  <2> QED
    BY <1>8, <2>1 DEF SleepReturn
<1>9. ASSUME NEW p \in Proc, NEW r \in Rendez, WakeupCall(p, r) PROVE TypeOK'
  <2>1. cond' \in [Rendez -> BOOLEAN]
    BY <1>9, Zenon DEF WakeupCall
  <2> QED
    BY <1>9, <2>1 DEF WakeupCall
<1>10. ASSUME NEW p \in Proc, WakeupLock(p) PROVE TypeOK'
  BY <1>10 DEF WakeupLock
<1>11. ASSUME NEW p \in Proc, WakeupProc(p) PROVE TypeOK'
  BY <1>11 DEF WakeupProc, Unblock, ready
<1>12. ASSUME NEW p \in Proc, NEW q \in Target \ {p}, PostNote(p, q) PROVE TypeOK'
  <2>1. notepending' \in [Proc -> BOOLEAN]
    BY <1>12, Zenon DEF PostNote
  <2> QED
    BY <1>12, <2>1 DEF PostNote
<1>13. ASSUME NEW p \in Proc, PostNoteLock(p) PROVE TypeOK'
  BY <1>13 DEF PostNoteLock
<1>14. ASSUME NEW p \in Proc, PostNoteWake(p) PROVE TypeOK'
  BY <1>14 DEF PostNoteWake, Unblock, ready
<1>15. ASSUME NEW p \in Proc, PostNoteRetry(p) PROVE TypeOK'
  <2>1. mach' \in [Proc -> BOOLEAN]
    BY <1>15, Zenon DEF PostNoteRetry, sched
  <2> QED
    BY <1>15, <2>1 DEF PostNoteRetry, sched
<1>16. ASSUME NEW p \in Proc, PostNoteRend(p) PROVE TypeOK'
  BY <1>16 DEF PostNoteRend
<1>17. ASSUME NEW p \in Proc, PostNotePull(p) PROVE TypeOK'
  BY <1>17 DEF PostNotePull, ready
<1>18. ASSUME NEW p \in Proc, NEW t \in Tag, RendCall(p, t) PROVE TypeOK'
  BY <1>18 DEF RendCall
<1>19. ASSUME NEW p \in Proc, RendMeet(p) PROVE TypeOK'
  BY <1>19 DEF RendMeet
<1>20. ASSUME NEW p \in Proc, RendReady(p) PROVE TypeOK'
  BY <1>20 DEF RendReady, ready
<1>21. ASSUME NEW p \in Proc, RendWait(p) PROVE TypeOK'
  BY <1>21 DEF RendWait
<1>22. ASSUME NEW p \in Proc, RendSched(p) PROVE TypeOK'
  <2>1. mach' \in [Proc -> BOOLEAN]
    BY <1>22, Zenon DEF RendSched, sched
  <2> QED
    BY <1>22, <2>1 DEF RendSched, sched
<1>23. ASSUME NEW p \in Proc, RendReturn(p) PROVE TypeOK'
  BY <1>23 DEF RendReturn
<1>24. ASSUME NEW p \in Proc, Notify(p) PROVE TypeOK'
  <2>1. notepending' \in [Proc -> BOOLEAN] /\ notified' \in [Proc -> BOOLEAN]
    BY <1>24, Zenon DEF Notify
  <2> QED
    BY <1>24, <2>1 DEF Notify
<1>25. ASSUME NEW p \in Proc, NoNote(p) PROVE TypeOK'
  BY <1>25 DEF NoNote
<1>26. ASSUME NEW p \in Proc, Noted(p) PROVE TypeOK'
  <2>1. notified' \in [Proc -> BOOLEAN]
    BY <1>26, Zenon DEF Noted
  <2> QED
    BY <1>26, <2>1 DEF Noted
<1>27. ASSUME NEW p \in Proc, Run(p) PROVE TypeOK'
  <2>1. mach' \in [Proc -> BOOLEAN]
    BY <1>27, Zenon DEF Run, runproc
  <2> QED
    BY <1>27, <2>1 DEF Run, runproc
<1>28. ASSUME NEW p \in Proc, Preempt(p) PROVE TypeOK'
  <2>1. mach' \in [Proc -> BOOLEAN]
    BY <1>28, Zenon DEF Preempt, preempt, sched
  <2> QED
    BY <1>28, <2>1 DEF Preempt, preempt, sched
<1>29. CASE UNCHANGED vars
  BY <1>29 DEF vars
<1> QED
  BY <1>1, <1>2, <1>3, <1>4, <1>5, <1>6, <1>7, <1>8, <1>9, <1>10, <1>11, <1>12, <1>13, <1>14, <1>15, <1>16, <1>17, <1>18, <1>19, <1>20, <1>21, <1>22, <1>23, <1>24, <1>25, <1>26, <1>27, <1>28, <1>29
     DEF Next, Call, Step

(* Every operation keeps the argument it began with.                       *)
LEMMA ArgStep == TypeOK /\ ArgInv /\ [Next]_vars => ArgInv'
<1> SUFFICES ASSUME TypeOK, ArgInv, [Next]_vars PROVE ArgInv'
  OBVIOUS
<1> USE TargetAssumption DEF ArgInv, TypeOK, At, Goto, Enter, Leave, Executing, Label, SleepLabel
<1>2. ASSUME NEW p \in Proc, NEW r \in Rendez, SleepCall(p, r) PROVE ArgInv'
  BY <1>2 DEF SleepCall
<1>3. ASSUME NEW p \in Proc, SleepLockRendez(p) PROVE ArgInv'
  BY <1>3 DEF SleepLockRendez
<1>4. ASSUME NEW p \in Proc, SleepLockProc(p) PROVE ArgInv'
  BY <1>4 DEF SleepLockProc
<1>5. ASSUME NEW p \in Proc, SleepTest(p) PROVE ArgInv'
  BY <1>5 DEF SleepTest, SleepNeverMind
<1>6. ASSUME NEW p \in Proc, SleepCommit(p) PROVE ArgInv'
  BY <1>6 DEF SleepCommit, SleepNeverMind
<1>7. ASSUME NEW p \in Proc, SleepUnlock(p) PROVE ArgInv'
  BY <1>7 DEF SleepUnlock
<1>8. ASSUME NEW p \in Proc, SleepSched(p) PROVE ArgInv'
  BY <1>8 DEF SleepSched, sched
<1>9. ASSUME NEW p \in Proc, SleepReturn(p) PROVE ArgInv'
  BY <1>9 DEF SleepReturn
<1>10. ASSUME NEW p \in Proc, NEW r \in Rendez, WakeupCall(p, r) PROVE ArgInv'
  BY <1>10 DEF WakeupCall
<1>11. ASSUME NEW p \in Proc, WakeupLock(p) PROVE ArgInv'
  BY <1>11 DEF WakeupLock
<1>12. ASSUME NEW p \in Proc, WakeupProc(p) PROVE ArgInv'
  BY <1>12 DEF WakeupProc, Unblock, ready
<1>13. ASSUME NEW p \in Proc, NEW q \in Target \ {p}, PostNote(p, q) PROVE ArgInv'
  BY <1>13 DEF PostNote
<1>14. ASSUME NEW p \in Proc, PostNoteLock(p) PROVE ArgInv'
  BY <1>14 DEF PostNoteLock
<1>15. ASSUME NEW p \in Proc, PostNoteWake(p) PROVE ArgInv'
  BY <1>15 DEF PostNoteWake, Unblock, ready
<1>16. ASSUME NEW p \in Proc, PostNoteRetry(p) PROVE ArgInv'
  BY <1>16 DEF PostNoteRetry, sched
<1>17. ASSUME NEW p \in Proc, PostNoteRend(p) PROVE ArgInv'
  BY <1>17 DEF PostNoteRend
<1>18. ASSUME NEW p \in Proc, PostNotePull(p) PROVE ArgInv'
  BY <1>18 DEF PostNotePull, ready
<1>19. ASSUME NEW p \in Proc, NEW t \in Tag, RendCall(p, t) PROVE ArgInv'
  BY <1>19 DEF RendCall
<1>20. ASSUME NEW p \in Proc, RendMeet(p) PROVE ArgInv'
  BY <1>20 DEF RendMeet
<1>21. ASSUME NEW p \in Proc, RendReady(p) PROVE ArgInv'
  BY <1>21 DEF RendReady, ready
<1>22. ASSUME NEW p \in Proc, RendWait(p) PROVE ArgInv'
  BY <1>22 DEF RendWait
<1>23. ASSUME NEW p \in Proc, RendSched(p) PROVE ArgInv'
  BY <1>23 DEF RendSched, sched
<1>24. ASSUME NEW p \in Proc, RendReturn(p) PROVE ArgInv'
  BY <1>24 DEF RendReturn
<1>25. ASSUME NEW p \in Proc, Notify(p) PROVE ArgInv'
  BY <1>25 DEF Notify
<1>26. ASSUME NEW p \in Proc, NoNote(p) PROVE ArgInv'
  BY <1>26 DEF NoNote
<1>27. ASSUME NEW p \in Proc, Noted(p) PROVE ArgInv'
  BY <1>27 DEF Noted
<1>28. ASSUME NEW p \in Proc, Run(p) PROVE ArgInv'
  BY <1>28 DEF Run, runproc
<1>29. ASSUME NEW p \in Proc, Preempt(p) PROVE ArgInv'
  BY <1>29 DEF Preempt, preempt, sched
<1>30. CASE UNCHANGED vars
  BY <1>30 DEF vars, ArgInv
<1> QED
  BY <1>2, <1>3, <1>4, <1>5, <1>6, <1>7, <1>8, <1>9, <1>10, <1>11, <1>12, <1>13, <1>14, <1>15, <1>16, <1>17, <1>18, <1>19, <1>20, <1>21, <1>22, <1>23, <1>24, <1>25, <1>26, <1>27, <1>28, <1>29, <1>30
     DEF Next, Call, Step

LEMMA ArgInit == Init => ArgInv
  BY DEF Init, ArgInv, SleepLabel

(* The fields of Rendez, Proc and rendezvous group keep their types; no    *)
(* Proc ever stores more than NNOTE notes.                                 *)
THEOREM SleepWakeupTypes == Spec => []TypeOK
<1>1. Spec => [](TypeOK /\ ArgInv)
  BY TypeInit, TypeStep, ArgInit, ArgStep, PTL DEF Spec
<1> QED
  BY <1>1, PTL

-----------------------------------------------------------------------------
(* The checks of wakeup and postnote                                       *)

(* wakeup finds a sleeper: while it holds the Rendez nobody else can clear *)
(* r->p, and a process that is not blocked would hold the Rendez itself.   *)
LEMMA WakeupFinds ==
  ASSUME IInv, NEW p \in Proc, WakeupProc(p)
  PROVE  \E q \in Proc :
           /\ q # p /\ rp[arg[p]] = q /\ state[q] = "Wakeme" /\ pr[q] = arg[p]
           /\ arg[q] = arg[p] /\ arg[p] \in Rendez
<1> USE DEF IInv, TypeOK, WakeupProc, At
<1>1. arg[p] \in Rendez /\ rlk[arg[p]] = p
  BY DEF ArgInv, RendezLocks, HoldsRendez
<1>2. PICK q \in Proc : rp[arg[p]] = q
  BY <1>1 DEF SleepInv, Owner
<1>3. q # p /\ pc[q] \notin {"stest", "snote"}
  BY <1>1, <1>2, NoneAssumption DEF SleepInv, StateInv, RendezLocks, HoldsRendez
<1>4. state[q] = "Wakeme" /\ arg[q] = arg[p] /\ pr[q] = arg[p]
  BY <1>1, <1>2, <1>3 DEF SleepInv
<1> QED
  BY <1>1, <1>2, <1>3, <1>4

(* So does postnote, which holds the sleeper's rlock.                      *)
LEMMA PostNoteFinds ==
  ASSUME IInv, NEW p \in Proc, At(p, "ntry")
  PROVE  /\ arg[p] \in Proc /\ arg[p] # p /\ state[arg[p]] = "Wakeme"
         /\ pr[arg[p]] \in Rendez /\ rp[pr[arg[p]]] = arg[p]
         /\ arg[arg[p]] = pr[arg[p]]
<1> USE DEF IInv, TypeOK, At
<1>1. arg[p] \in Proc /\ pr[arg[p]] \in Rendez
  BY DEF ArgInv, SleepInv
<1>2. PICK q \in Proc, r \in Rendez : q = arg[p] /\ r = pr[q]
  BY <1>1
<1>3. state[q] = "Wakeme" /\ arg[q] = r /\ rp[r] = q
  BY <1>2 DEF SleepInv
<1>4. q # p
  BY <1>3 DEF StateInv
<1> QED
  BY <1>1, <1>2, <1>3, <1>4

(* The effect of either, and of nothing else, on a sleeper.                *)
LEMMA WakeupUnblocks ==
  ASSUME IInv, NEW p \in Proc, WakeupProc(p)
  PROVE  \E q \in Proc, r \in Rendez :
           /\ q # p /\ arg[p] = r /\ arg[q] = r /\ rp[r] = q /\ pr[q] = r
           /\ state[q] = "Wakeme" /\ plk[q] = None
           /\ state' = [state EXCEPT ![q] = "Ready"]
           /\ rp' = [rp EXCEPT ![r] = None] /\ pr' = [pr EXCEPT ![q] = None]
           /\ rlk' = [rlk EXCEPT ![r] = None]
           /\ pc' = [pc EXCEPT ![p] = "exit"] /\ arg' = [arg EXCEPT ![p] = None]
<1>1. PICK q \in Proc, r \in Rendez :
        /\ q # p /\ r = arg[p] /\ rp[r] = q /\ state[q] = "Wakeme" /\ pr[q] = r /\ arg[q] = r
  BY WakeupFinds
<1> QED
  BY <1>1 DEF WakeupProc, Unblock, ready, Leave, Enter

LEMMA PostNoteUnblocks ==
  ASSUME IInv, NEW p \in Proc, PostNoteWake(p)
  PROVE  \E q \in Proc, r \in Rendez :
           /\ q # p /\ arg[p] = q /\ arg[q] = r /\ rp[r] = q /\ pr[q] = r
           /\ state[q] = "Wakeme" /\ rlk[r] = None
           /\ state' = [state EXCEPT ![q] = "Ready"]
           /\ rp' = [rp EXCEPT ![r] = None] /\ pr' = [pr EXCEPT ![q] = None]
           /\ plk' = [plk EXCEPT ![q] = None]
           /\ pc' = [pc EXCEPT ![p] = "nrend"] /\ arg' = arg
<1>1. PICK q \in Proc, r \in Rendez :
        /\ q # p /\ q = arg[p] /\ r = pr[q] /\ rp[r] = q /\ state[q] = "Wakeme" /\ arg[q] = r
  BY PostNoteFinds DEF PostNoteWake
<1> QED
  BY <1>1 DEF PostNoteWake, Unblock, ready, Goto

-----------------------------------------------------------------------------
(* The spin locks                                                          *)

(* Every Rendez lock is held by the sleep or wakeup that took it.          *)
LEMMA RendezLocksStep == IInv /\ TypeOK' /\ [Next]_vars => RendezLocks'
<1> SUFFICES ASSUME IInv, TypeOK', [Next]_vars PROVE RendezLocks'
  OBVIOUS
<1>t. TypeOK /\ ArgInv
  BY DEF IInv
<1> USE <1>t, NoneAssumption, TagAssumption, TargetAssumption DEF RendezLocks, HoldsRendez, TypeOK, ArgInv, SleepLabel, At, Goto, Enter, Leave, Executing,
            schedvars, lockvars, sleepvars, notevars, rendvars
<1>1. ASSUME NEW p \in Proc, NEW r \in Rendez, SleepCall(p, r) PROVE RendezLocks'
  BY <1>1 DEF IInv, SleepCall
<1>2. ASSUME NEW p \in Proc, SleepLockRendez(p) PROVE RendezLocks'
  BY <1>2 DEF IInv, SleepLockRendez
<1>3. ASSUME NEW p \in Proc, SleepLockProc(p) PROVE RendezLocks'
  BY <1>3 DEF IInv, SleepLockProc
<1>4. ASSUME NEW p \in Proc, SleepTest(p) PROVE RendezLocks'
  BY <1>4 DEF IInv, SleepTest, SleepNeverMind
<1>5. ASSUME NEW p \in Proc, SleepCommit(p) PROVE RendezLocks'
  BY <1>5 DEF IInv, SleepCommit, SleepNeverMind
<1>6. ASSUME NEW p \in Proc, SleepUnlock(p) PROVE RendezLocks'
  BY <1>6 DEF IInv, SleepUnlock
<1>7. ASSUME NEW p \in Proc, SleepSched(p) PROVE RendezLocks'
  BY <1>7 DEF IInv, SleepSched, sched
<1>8. ASSUME NEW p \in Proc, SleepReturn(p) PROVE RendezLocks'
  BY <1>8 DEF IInv, SleepReturn
<1>9. ASSUME NEW p \in Proc, NEW r \in Rendez, WakeupCall(p, r) PROVE RendezLocks'
  BY <1>9 DEF IInv, WakeupCall
<1>10. ASSUME NEW p \in Proc, WakeupLock(p) PROVE RendezLocks'
  BY <1>10 DEF IInv, WakeupLock
<1>11. ASSUME NEW p \in Proc, WakeupProc(p) PROVE RendezLocks'
  BY <1>11, WakeupUnblocks DEF IInv, WakeupProc
<1>12. ASSUME NEW p \in Proc, NEW q \in Target \ {p}, PostNote(p, q) PROVE RendezLocks'
  BY <1>12 DEF IInv, PostNote
<1>13. ASSUME NEW p \in Proc, PostNoteLock(p) PROVE RendezLocks'
  BY <1>13 DEF IInv, PostNoteLock
<1>14. ASSUME NEW p \in Proc, PostNoteWake(p) PROVE RendezLocks'
  BY <1>14, PostNoteUnblocks DEF IInv, PostNoteWake
<1>15. ASSUME NEW p \in Proc, PostNoteRetry(p) PROVE RendezLocks'
  BY <1>15 DEF IInv, PostNoteRetry, sched
<1>16. ASSUME NEW p \in Proc, PostNoteRend(p) PROVE RendezLocks'
  BY <1>16 DEF IInv, PostNoteRend
<1>17. ASSUME NEW p \in Proc, PostNotePull(p) PROVE RendezLocks'
  BY <1>17 DEF IInv, PostNotePull, ready
<1>18. ASSUME NEW p \in Proc, NEW t \in Tag, RendCall(p, t) PROVE RendezLocks'
  BY <1>18 DEF IInv, RendCall
<1>19. ASSUME NEW p \in Proc, RendMeet(p) PROVE RendezLocks'
  BY <1>19 DEF IInv, RendMeet
<1>20. ASSUME NEW p \in Proc, RendReady(p) PROVE RendezLocks'
  BY <1>20 DEF IInv, RendReady, ready
<1>21. ASSUME NEW p \in Proc, RendWait(p) PROVE RendezLocks'
  BY <1>21 DEF IInv, RendWait
<1>22. ASSUME NEW p \in Proc, RendSched(p) PROVE RendezLocks'
  BY <1>22 DEF IInv, RendSched, sched
<1>23. ASSUME NEW p \in Proc, RendReturn(p) PROVE RendezLocks'
  BY <1>23 DEF IInv, RendReturn
<1>24. ASSUME NEW p \in Proc, Notify(p) PROVE RendezLocks'
  BY <1>24 DEF IInv, Notify
<1>25. ASSUME NEW p \in Proc, NoNote(p) PROVE RendezLocks'
  BY <1>25 DEF IInv, NoNote
<1>26. ASSUME NEW p \in Proc, Noted(p) PROVE RendezLocks'
  BY <1>26 DEF IInv, Noted
<1>27. ASSUME NEW p \in Proc, Run(p) PROVE RendezLocks'
  BY <1>27 DEF IInv, Run, runproc
<1>28. ASSUME NEW p \in Proc, Preempt(p) PROVE RendezLocks'
  BY <1>28 DEF IInv, Preempt, preempt, sched
<1>29. CASE UNCHANGED vars
  BY <1>29 DEF IInv, vars
<1> QED
  BY <1>1, <1>2, <1>3, <1>4, <1>5, <1>6, <1>7, <1>8, <1>9, <1>10, <1>11, <1>12, <1>13, <1>14, <1>15, <1>16, <1>17, <1>18, <1>19, <1>20, <1>21, <1>22, <1>23, <1>24, <1>25, <1>26, <1>27, <1>28, <1>29
     DEF Next, Call, Step

(* Every Proc.rlock is held by its own sleep or a postnote.                *)
LEMMA ProcLocksStep == IInv /\ TypeOK' /\ [Next]_vars => ProcLocks'
<1> SUFFICES ASSUME IInv, TypeOK', [Next]_vars PROVE ProcLocks'
  OBVIOUS
<1>t. TypeOK /\ ArgInv
  BY DEF IInv
<1> USE <1>t, NoneAssumption, TagAssumption, TargetAssumption DEF ProcLocks, HoldsProc, TypeOK, ArgInv, SleepLabel, At, Goto, Enter, Leave, Executing,
            schedvars, lockvars, sleepvars, notevars, rendvars
<1>1. ASSUME NEW p \in Proc, NEW r \in Rendez, SleepCall(p, r) PROVE ProcLocks'
  BY <1>1 DEF IInv, SleepCall
<1>2. ASSUME NEW p \in Proc, SleepLockRendez(p) PROVE ProcLocks'
  BY <1>2 DEF IInv, SleepLockRendez
<1>3. ASSUME NEW p \in Proc, SleepLockProc(p) PROVE ProcLocks'
  BY <1>3 DEF IInv, SleepLockProc
<1>4. ASSUME NEW p \in Proc, SleepTest(p) PROVE ProcLocks'
  BY <1>4 DEF IInv, SleepTest, SleepNeverMind
<1>5. ASSUME NEW p \in Proc, SleepCommit(p) PROVE ProcLocks'
  BY <1>5 DEF IInv, SleepCommit, SleepNeverMind
<1>6. ASSUME NEW p \in Proc, SleepUnlock(p) PROVE ProcLocks'
  BY <1>6 DEF IInv, SleepUnlock
<1>7. ASSUME NEW p \in Proc, SleepSched(p) PROVE ProcLocks'
  BY <1>7 DEF IInv, SleepSched, sched
<1>8. ASSUME NEW p \in Proc, SleepReturn(p) PROVE ProcLocks'
  BY <1>8 DEF IInv, SleepReturn
<1>9. ASSUME NEW p \in Proc, NEW r \in Rendez, WakeupCall(p, r) PROVE ProcLocks'
  BY <1>9 DEF IInv, WakeupCall
<1>10. ASSUME NEW p \in Proc, WakeupLock(p) PROVE ProcLocks'
  BY <1>10 DEF IInv, WakeupLock
<1>11. ASSUME NEW p \in Proc, WakeupProc(p) PROVE ProcLocks'
  BY <1>11, WakeupUnblocks DEF IInv, WakeupProc
<1>12. ASSUME NEW p \in Proc, NEW q \in Target \ {p}, PostNote(p, q) PROVE ProcLocks'
  BY <1>12 DEF IInv, PostNote
<1>13. ASSUME NEW p \in Proc, PostNoteLock(p) PROVE ProcLocks'
  BY <1>13 DEF IInv, PostNoteLock
<1>14. ASSUME NEW p \in Proc, PostNoteWake(p) PROVE ProcLocks'
  BY <1>14, PostNoteUnblocks DEF IInv, PostNoteWake
<1>15. ASSUME NEW p \in Proc, PostNoteRetry(p) PROVE ProcLocks'
  BY <1>15 DEF IInv, PostNoteRetry, sched
<1>16. ASSUME NEW p \in Proc, PostNoteRend(p) PROVE ProcLocks'
  BY <1>16 DEF IInv, PostNoteRend
<1>17. ASSUME NEW p \in Proc, PostNotePull(p) PROVE ProcLocks'
  BY <1>17 DEF IInv, PostNotePull, ready
<1>18. ASSUME NEW p \in Proc, NEW t \in Tag, RendCall(p, t) PROVE ProcLocks'
  BY <1>18 DEF IInv, RendCall
<1>19. ASSUME NEW p \in Proc, RendMeet(p) PROVE ProcLocks'
  BY <1>19 DEF IInv, RendMeet
<1>20. ASSUME NEW p \in Proc, RendReady(p) PROVE ProcLocks'
  BY <1>20 DEF IInv, RendReady, ready
<1>21. ASSUME NEW p \in Proc, RendWait(p) PROVE ProcLocks'
  BY <1>21 DEF IInv, RendWait
<1>22. ASSUME NEW p \in Proc, RendSched(p) PROVE ProcLocks'
  BY <1>22 DEF IInv, RendSched, sched
<1>23. ASSUME NEW p \in Proc, RendReturn(p) PROVE ProcLocks'
  BY <1>23 DEF IInv, RendReturn
<1>24. ASSUME NEW p \in Proc, Notify(p) PROVE ProcLocks'
  BY <1>24 DEF IInv, Notify
<1>25. ASSUME NEW p \in Proc, NoNote(p) PROVE ProcLocks'
  BY <1>25 DEF IInv, NoNote
<1>26. ASSUME NEW p \in Proc, Noted(p) PROVE ProcLocks'
  BY <1>26 DEF IInv, Noted
<1>27. ASSUME NEW p \in Proc, Run(p) PROVE ProcLocks'
  BY <1>27 DEF IInv, Run, runproc
<1>28. ASSUME NEW p \in Proc, Preempt(p) PROVE ProcLocks'
  BY <1>28 DEF IInv, Preempt, preempt, sched
<1>29. CASE UNCHANGED vars
  BY <1>29 DEF IInv, vars
<1> QED
  BY <1>1, <1>2, <1>3, <1>4, <1>5, <1>6, <1>7, <1>8, <1>9, <1>10, <1>11, <1>12, <1>13, <1>14, <1>15, <1>16, <1>17, <1>18, <1>19, <1>20, <1>21, <1>22, <1>23, <1>24, <1>25, <1>26, <1>27, <1>28, <1>29
     DEF Next, Call, Step

(* The group's lock is held by the one who met its partner.                *)
LEMMA GroupLockStep == IInv /\ TypeOK' /\ [Next]_vars => GroupLock'
<1> SUFFICES ASSUME IInv, TypeOK', [Next]_vars PROVE GroupLock'
  OBVIOUS
<1>t. TypeOK /\ ArgInv
  BY DEF IInv
<1> USE <1>t, NoneAssumption, TagAssumption, TargetAssumption DEF GroupLock, TypeOK, ArgInv, SleepLabel, At, Goto, Enter, Leave, Executing,
            schedvars, lockvars, sleepvars, notevars, rendvars
<1>1. ASSUME NEW p \in Proc, NEW r \in Rendez, SleepCall(p, r) PROVE GroupLock'
  BY <1>1 DEF IInv, SleepCall
<1>2. ASSUME NEW p \in Proc, SleepLockRendez(p) PROVE GroupLock'
  BY <1>2 DEF IInv, SleepLockRendez
<1>3. ASSUME NEW p \in Proc, SleepLockProc(p) PROVE GroupLock'
  BY <1>3 DEF IInv, SleepLockProc
<1>4. ASSUME NEW p \in Proc, SleepTest(p) PROVE GroupLock'
  BY <1>4 DEF IInv, SleepTest, SleepNeverMind
<1>5. ASSUME NEW p \in Proc, SleepCommit(p) PROVE GroupLock'
  BY <1>5 DEF IInv, SleepCommit, SleepNeverMind
<1>6. ASSUME NEW p \in Proc, SleepUnlock(p) PROVE GroupLock'
  BY <1>6 DEF IInv, SleepUnlock
<1>7. ASSUME NEW p \in Proc, SleepSched(p) PROVE GroupLock'
  BY <1>7 DEF IInv, SleepSched, sched
<1>8. ASSUME NEW p \in Proc, SleepReturn(p) PROVE GroupLock'
  BY <1>8 DEF IInv, SleepReturn
<1>9. ASSUME NEW p \in Proc, NEW r \in Rendez, WakeupCall(p, r) PROVE GroupLock'
  BY <1>9 DEF IInv, WakeupCall
<1>10. ASSUME NEW p \in Proc, WakeupLock(p) PROVE GroupLock'
  BY <1>10 DEF IInv, WakeupLock
<1>11. ASSUME NEW p \in Proc, WakeupProc(p) PROVE GroupLock'
  BY <1>11, WakeupUnblocks DEF IInv, WakeupProc
<1>12. ASSUME NEW p \in Proc, NEW q \in Target \ {p}, PostNote(p, q) PROVE GroupLock'
  BY <1>12 DEF IInv, PostNote
<1>13. ASSUME NEW p \in Proc, PostNoteLock(p) PROVE GroupLock'
  BY <1>13 DEF IInv, PostNoteLock
<1>14. ASSUME NEW p \in Proc, PostNoteWake(p) PROVE GroupLock'
  BY <1>14, PostNoteUnblocks DEF IInv, PostNoteWake
<1>15. ASSUME NEW p \in Proc, PostNoteRetry(p) PROVE GroupLock'
  BY <1>15 DEF IInv, PostNoteRetry, sched
<1>16. ASSUME NEW p \in Proc, PostNoteRend(p) PROVE GroupLock'
  BY <1>16 DEF IInv, PostNoteRend
<1>17. ASSUME NEW p \in Proc, PostNotePull(p) PROVE GroupLock'
  BY <1>17 DEF IInv, PostNotePull, ready
<1>18. ASSUME NEW p \in Proc, NEW t \in Tag, RendCall(p, t) PROVE GroupLock'
  BY <1>18 DEF IInv, RendCall
<1>19. ASSUME NEW p \in Proc, RendMeet(p) PROVE GroupLock'
  BY <1>19 DEF IInv, RendMeet
<1>20. ASSUME NEW p \in Proc, RendReady(p) PROVE GroupLock'
  BY <1>20 DEF IInv, RendReady, ready
<1>21. ASSUME NEW p \in Proc, RendWait(p) PROVE GroupLock'
  BY <1>21 DEF IInv, RendWait
<1>22. ASSUME NEW p \in Proc, RendSched(p) PROVE GroupLock'
  BY <1>22 DEF IInv, RendSched, sched
<1>23. ASSUME NEW p \in Proc, RendReturn(p) PROVE GroupLock'
  BY <1>23 DEF IInv, RendReturn
<1>24. ASSUME NEW p \in Proc, Notify(p) PROVE GroupLock'
  BY <1>24 DEF IInv, Notify
<1>25. ASSUME NEW p \in Proc, NoNote(p) PROVE GroupLock'
  BY <1>25 DEF IInv, NoNote
<1>26. ASSUME NEW p \in Proc, Noted(p) PROVE GroupLock'
  BY <1>26 DEF IInv, Noted
<1>27. ASSUME NEW p \in Proc, Run(p) PROVE GroupLock'
  BY <1>27 DEF IInv, Run, runproc
<1>28. ASSUME NEW p \in Proc, Preempt(p) PROVE GroupLock'
  BY <1>28 DEF IInv, Preempt, preempt, sched
<1>29. CASE UNCHANGED vars
  BY <1>29 DEF IInv, vars
<1> QED
  BY <1>1, <1>2, <1>3, <1>4, <1>5, <1>6, <1>7, <1>8, <1>9, <1>10, <1>11, <1>12, <1>13, <1>14, <1>15, <1>16, <1>17, <1>18, <1>19, <1>20, <1>21, <1>22, <1>23, <1>24, <1>25, <1>26, <1>27, <1>28, <1>29
     DEF Next, Call, Step

-----------------------------------------------------------------------------
(* Sleeping and waking                                                     *)

(* Only sleep and rendezvous write a blocked state.                        *)
LEMMA StateStep == IInv /\ TypeOK' /\ [Next]_vars => StateInv'
<1> SUFFICES ASSUME IInv, TypeOK', [Next]_vars PROVE StateInv'
  OBVIOUS
<1>t. TypeOK /\ ArgInv
  BY DEF IInv
<1> USE <1>t, NoneAssumption, TagAssumption, TargetAssumption DEF SchedTypeOK, StateInv, TypeOK, ArgInv, SleepLabel, At, Goto, Enter, Leave, Executing,
            schedvars, lockvars, sleepvars, notevars, rendvars
<1>1. ASSUME NEW p \in Proc, NEW r \in Rendez, SleepCall(p, r) PROVE StateInv'
  BY <1>1 DEF IInv, SleepCall
<1>2. ASSUME NEW p \in Proc, SleepLockRendez(p) PROVE StateInv'
  BY <1>2 DEF IInv, SleepLockRendez
<1>3. ASSUME NEW p \in Proc, SleepLockProc(p) PROVE StateInv'
  BY <1>3 DEF IInv, SleepLockProc
<1>4. ASSUME NEW p \in Proc, SleepTest(p) PROVE StateInv'
  BY <1>4 DEF IInv, SleepTest, SleepNeverMind
<1>5. ASSUME NEW p \in Proc, SleepCommit(p) PROVE StateInv'
  BY <1>5 DEF IInv, SleepCommit, SleepNeverMind
<1>6. ASSUME NEW p \in Proc, SleepUnlock(p) PROVE StateInv'
  BY <1>6 DEF IInv, SleepUnlock
<1>7. ASSUME NEW p \in Proc, SleepSched(p) PROVE StateInv'
  BY <1>7 DEF IInv, SleepSched, sched
<1>8. ASSUME NEW p \in Proc, SleepReturn(p) PROVE StateInv'
  BY <1>8 DEF IInv, SleepReturn
<1>9. ASSUME NEW p \in Proc, NEW r \in Rendez, WakeupCall(p, r) PROVE StateInv'
  BY <1>9 DEF IInv, WakeupCall
<1>10. ASSUME NEW p \in Proc, WakeupLock(p) PROVE StateInv'
  BY <1>10 DEF IInv, WakeupLock
<1>11. ASSUME NEW p \in Proc, WakeupProc(p) PROVE StateInv'
  BY <1>11, WakeupUnblocks DEF IInv, WakeupProc
<1>12. ASSUME NEW p \in Proc, NEW q \in Target \ {p}, PostNote(p, q) PROVE StateInv'
  BY <1>12 DEF IInv, PostNote
<1>13. ASSUME NEW p \in Proc, PostNoteLock(p) PROVE StateInv'
  BY <1>13 DEF IInv, PostNoteLock
<1>14. ASSUME NEW p \in Proc, PostNoteWake(p) PROVE StateInv'
  BY <1>14, PostNoteUnblocks DEF IInv, PostNoteWake
<1>15. ASSUME NEW p \in Proc, PostNoteRetry(p) PROVE StateInv'
  BY <1>15 DEF IInv, PostNoteRetry, sched
<1>16. ASSUME NEW p \in Proc, PostNoteRend(p) PROVE StateInv'
  BY <1>16 DEF IInv, PostNoteRend
<1>17. ASSUME NEW p \in Proc, PostNotePull(p) PROVE StateInv'
  BY <1>17 DEF IInv, PostNotePull, ready
<1>18. ASSUME NEW p \in Proc, NEW t \in Tag, RendCall(p, t) PROVE StateInv'
  BY <1>18 DEF IInv, RendCall
<1>19. ASSUME NEW p \in Proc, RendMeet(p) PROVE StateInv'
  BY <1>19 DEF IInv, RendMeet
<1>20. ASSUME NEW p \in Proc, RendReady(p) PROVE StateInv'
  BY <1>20 DEF IInv, RendReady, ready
<1>21. ASSUME NEW p \in Proc, RendWait(p) PROVE StateInv'
  BY <1>21 DEF IInv, RendWait
<1>22. ASSUME NEW p \in Proc, RendSched(p) PROVE StateInv'
  BY <1>22 DEF IInv, RendSched, sched
<1>23. ASSUME NEW p \in Proc, RendReturn(p) PROVE StateInv'
  BY <1>23 DEF IInv, RendReturn
<1>24. ASSUME NEW p \in Proc, Notify(p) PROVE StateInv'
  BY <1>24 DEF IInv, Notify
<1>25. ASSUME NEW p \in Proc, NoNote(p) PROVE StateInv'
  BY <1>25 DEF IInv, NoNote
<1>26. ASSUME NEW p \in Proc, Noted(p) PROVE StateInv'
  BY <1>26 DEF IInv, Noted
<1>27. ASSUME NEW p \in Proc, Run(p) PROVE StateInv'
  BY <1>27 DEF IInv, Run, runproc
<1>28. ASSUME NEW p \in Proc, Preempt(p) PROVE StateInv'
  BY <1>28 DEF IInv, Preempt, preempt, sched
<1>29. CASE UNCHANGED vars
  BY <1>29 DEF IInv, vars
<1> QED
  BY <1>1, <1>2, <1>3, <1>4, <1>5, <1>6, <1>7, <1>8, <1>9, <1>10, <1>11, <1>12, <1>13, <1>14, <1>15, <1>16, <1>17, <1>18, <1>19, <1>20, <1>21, <1>22, <1>23, <1>24, <1>25, <1>26, <1>27, <1>28, <1>29
     DEF Next, Call, Step

(* Callers do not sleep two at a time.                                     *)
LEMMA OneSleeperStep == IInv /\ TypeOK' /\ [Next]_vars => OneSleeper'
<1> SUFFICES ASSUME IInv, TypeOK', [Next]_vars PROVE OneSleeper'
  OBVIOUS
<1>t. TypeOK /\ ArgInv
  BY DEF IInv
<1> USE <1>t, NoneAssumption, TagAssumption, TargetAssumption DEF OneSleeper, InSleep, TypeOK, ArgInv, SleepLabel, At, Goto, Enter, Leave, Executing,
            schedvars, lockvars, sleepvars, notevars, rendvars
<1>1. ASSUME NEW p \in Proc, NEW r \in Rendez, SleepCall(p, r) PROVE OneSleeper'
  BY <1>1 DEF IInv, SleepCall
<1>2. ASSUME NEW p \in Proc, SleepLockRendez(p) PROVE OneSleeper'
  BY <1>2 DEF IInv, SleepLockRendez
<1>3. ASSUME NEW p \in Proc, SleepLockProc(p) PROVE OneSleeper'
  BY <1>3 DEF IInv, SleepLockProc
<1>4. ASSUME NEW p \in Proc, SleepTest(p) PROVE OneSleeper'
  BY <1>4 DEF IInv, SleepTest, SleepNeverMind
<1>5. ASSUME NEW p \in Proc, SleepCommit(p) PROVE OneSleeper'
  BY <1>5 DEF IInv, SleepCommit, SleepNeverMind
<1>6. ASSUME NEW p \in Proc, SleepUnlock(p) PROVE OneSleeper'
  BY <1>6 DEF IInv, SleepUnlock
<1>7. ASSUME NEW p \in Proc, SleepSched(p) PROVE OneSleeper'
  BY <1>7 DEF IInv, SleepSched, sched
<1>8. ASSUME NEW p \in Proc, SleepReturn(p) PROVE OneSleeper'
  BY <1>8 DEF IInv, SleepReturn
<1>9. ASSUME NEW p \in Proc, NEW r \in Rendez, WakeupCall(p, r) PROVE OneSleeper'
  BY <1>9 DEF IInv, WakeupCall
<1>10. ASSUME NEW p \in Proc, WakeupLock(p) PROVE OneSleeper'
  BY <1>10 DEF IInv, WakeupLock
<1>11. ASSUME NEW p \in Proc, WakeupProc(p) PROVE OneSleeper'
  BY <1>11, WakeupUnblocks DEF IInv, WakeupProc
<1>12. ASSUME NEW p \in Proc, NEW q \in Target \ {p}, PostNote(p, q) PROVE OneSleeper'
  BY <1>12 DEF IInv, PostNote
<1>13. ASSUME NEW p \in Proc, PostNoteLock(p) PROVE OneSleeper'
  BY <1>13 DEF IInv, PostNoteLock
<1>14. ASSUME NEW p \in Proc, PostNoteWake(p) PROVE OneSleeper'
  BY <1>14, PostNoteUnblocks DEF IInv, PostNoteWake
<1>15. ASSUME NEW p \in Proc, PostNoteRetry(p) PROVE OneSleeper'
  BY <1>15 DEF IInv, PostNoteRetry, sched
<1>16. ASSUME NEW p \in Proc, PostNoteRend(p) PROVE OneSleeper'
  BY <1>16 DEF IInv, PostNoteRend
<1>17. ASSUME NEW p \in Proc, PostNotePull(p) PROVE OneSleeper'
  BY <1>17 DEF IInv, PostNotePull, ready
<1>18. ASSUME NEW p \in Proc, NEW t \in Tag, RendCall(p, t) PROVE OneSleeper'
  BY <1>18 DEF IInv, RendCall
<1>19. ASSUME NEW p \in Proc, RendMeet(p) PROVE OneSleeper'
  BY <1>19 DEF IInv, RendMeet
<1>20. ASSUME NEW p \in Proc, RendReady(p) PROVE OneSleeper'
  BY <1>20 DEF IInv, RendReady, ready
<1>21. ASSUME NEW p \in Proc, RendWait(p) PROVE OneSleeper'
  BY <1>21 DEF IInv, RendWait
<1>22. ASSUME NEW p \in Proc, RendSched(p) PROVE OneSleeper'
  BY <1>22 DEF IInv, RendSched, sched
<1>23. ASSUME NEW p \in Proc, RendReturn(p) PROVE OneSleeper'
  BY <1>23 DEF IInv, RendReturn
<1>24. ASSUME NEW p \in Proc, Notify(p) PROVE OneSleeper'
  BY <1>24 DEF IInv, Notify
<1>25. ASSUME NEW p \in Proc, NoNote(p) PROVE OneSleeper'
  BY <1>25 DEF IInv, NoNote
<1>26. ASSUME NEW p \in Proc, Noted(p) PROVE OneSleeper'
  BY <1>26 DEF IInv, Noted
<1>27. ASSUME NEW p \in Proc, Run(p) PROVE OneSleeper'
  BY <1>27 DEF IInv, Run, runproc
<1>28. ASSUME NEW p \in Proc, Preempt(p) PROVE OneSleeper'
  BY <1>28 DEF IInv, Preempt, preempt, sched
<1>29. CASE UNCHANGED vars
  BY <1>29 DEF IInv, vars
<1> QED
  BY <1>1, <1>2, <1>3, <1>4, <1>5, <1>6, <1>7, <1>8, <1>9, <1>10, <1>11, <1>12, <1>13, <1>14, <1>15, <1>16, <1>17, <1>18, <1>19, <1>20, <1>21, <1>22, <1>23, <1>24, <1>25, <1>26, <1>27, <1>28, <1>29
     DEF Next, Call, Step

(* The panics are not reached.                                             *)
LEMMA NoPanicStep == IInv /\ TypeOK' /\ [Next]_vars => NoPanic'
<1> SUFFICES ASSUME IInv, TypeOK', [Next]_vars PROVE NoPanic'
  OBVIOUS
<1>t. TypeOK /\ ArgInv
  BY DEF IInv
<1> USE <1>t, NoneAssumption, TagAssumption, TargetAssumption DEF NoPanic, TypeOK, ArgInv, SleepLabel, At, Goto, Enter, Leave, Executing,
            schedvars, lockvars, sleepvars, notevars, rendvars
<1>1. ASSUME NEW p \in Proc, NEW r \in Rendez, SleepCall(p, r) PROVE NoPanic'
  BY <1>1 DEF IInv, SleepCall
<1>2. ASSUME NEW p \in Proc, SleepLockRendez(p) PROVE NoPanic'
  BY <1>2 DEF IInv, SleepLockRendez
<1>3. ASSUME NEW p \in Proc, SleepLockProc(p) PROVE NoPanic'
  BY <1>3 DEF IInv, SleepLockProc
<1>4. ASSUME NEW p \in Proc, SleepTest(p) PROVE NoPanic'
  BY <1>4 DEF IInv, SleepTest, SleepNeverMind
<1>5. ASSUME NEW p \in Proc, SleepCommit(p) PROVE NoPanic'
  BY <1>5 DEF IInv, SleepCommit, SleepNeverMind
<1>6. ASSUME NEW p \in Proc, SleepUnlock(p) PROVE NoPanic'
  BY <1>6 DEF IInv, SleepUnlock
<1>7. ASSUME NEW p \in Proc, SleepSched(p) PROVE NoPanic'
  BY <1>7 DEF IInv, SleepSched, sched
<1>8. ASSUME NEW p \in Proc, SleepReturn(p) PROVE NoPanic'
  BY <1>8 DEF IInv, SleepReturn
<1>9. ASSUME NEW p \in Proc, NEW r \in Rendez, WakeupCall(p, r) PROVE NoPanic'
  BY <1>9 DEF IInv, WakeupCall
<1>10. ASSUME NEW p \in Proc, WakeupLock(p) PROVE NoPanic'
  BY <1>10 DEF IInv, WakeupLock
<1>11. ASSUME NEW p \in Proc, WakeupProc(p) PROVE NoPanic'
  BY <1>11, WakeupUnblocks DEF IInv, WakeupProc
<1>12. ASSUME NEW p \in Proc, NEW q \in Target \ {p}, PostNote(p, q) PROVE NoPanic'
  BY <1>12 DEF IInv, PostNote
<1>13. ASSUME NEW p \in Proc, PostNoteLock(p) PROVE NoPanic'
  BY <1>13 DEF IInv, PostNoteLock
<1>14. ASSUME NEW p \in Proc, PostNoteWake(p) PROVE NoPanic'
  BY <1>14, PostNoteUnblocks DEF IInv, PostNoteWake
<1>15. ASSUME NEW p \in Proc, PostNoteRetry(p) PROVE NoPanic'
  BY <1>15 DEF IInv, PostNoteRetry, sched
<1>16. ASSUME NEW p \in Proc, PostNoteRend(p) PROVE NoPanic'
  BY <1>16 DEF IInv, PostNoteRend
<1>17. ASSUME NEW p \in Proc, PostNotePull(p) PROVE NoPanic'
  BY <1>17 DEF IInv, PostNotePull, ready
<1>18. ASSUME NEW p \in Proc, NEW t \in Tag, RendCall(p, t) PROVE NoPanic'
  BY <1>18 DEF IInv, RendCall
<1>19. ASSUME NEW p \in Proc, RendMeet(p) PROVE NoPanic'
  BY <1>19 DEF IInv, RendMeet
<1>20. ASSUME NEW p \in Proc, RendReady(p) PROVE NoPanic'
  BY <1>20 DEF IInv, RendReady, ready
<1>21. ASSUME NEW p \in Proc, RendWait(p) PROVE NoPanic'
  BY <1>21 DEF IInv, RendWait
<1>22. ASSUME NEW p \in Proc, RendSched(p) PROVE NoPanic'
  BY <1>22 DEF IInv, RendSched, sched
<1>23. ASSUME NEW p \in Proc, RendReturn(p) PROVE NoPanic'
  BY <1>23 DEF IInv, RendReturn
<1>24. ASSUME NEW p \in Proc, Notify(p) PROVE NoPanic'
  BY <1>24 DEF IInv, Notify
<1>25. ASSUME NEW p \in Proc, NoNote(p) PROVE NoPanic'
  BY <1>25 DEF IInv, NoNote
<1>26. ASSUME NEW p \in Proc, Noted(p) PROVE NoPanic'
  BY <1>26 DEF IInv, Noted
<1>27. ASSUME NEW p \in Proc, Run(p) PROVE NoPanic'
  BY <1>27 DEF IInv, Run, runproc
<1>28. ASSUME NEW p \in Proc, Preempt(p) PROVE NoPanic'
  BY <1>28 DEF IInv, Preempt, preempt, sched
<1>29. CASE UNCHANGED vars
  BY <1>29 DEF IInv, vars
<1> QED
  BY <1>1, <1>2, <1>3, <1>4, <1>5, <1>6, <1>7, <1>8, <1>9, <1>10, <1>11, <1>12, <1>13, <1>14, <1>15, <1>16, <1>17, <1>18, <1>19, <1>20, <1>21, <1>22, <1>23, <1>24, <1>25, <1>26, <1>27, <1>28, <1>29
     DEF Next, Call, Step

(* r->p and p->r follow the sleeper.                                       *)
LEMMA SleepStep == IInv /\ TypeOK' /\ [Next]_vars => SleepInv'
<1> SUFFICES ASSUME IInv, TypeOK', [Next]_vars PROVE SleepInv'
  OBVIOUS
<1>t. TypeOK /\ ArgInv
  BY DEF IInv
<1> USE <1>t, NoneAssumption, TagAssumption, TargetAssumption DEF SchedTypeOK, StateInv, SleepInv, TypeOK, ArgInv, SleepLabel, At, Goto, Enter, Leave, Executing,
            schedvars, lockvars, sleepvars, notevars, rendvars
<1>1. ASSUME NEW p \in Proc, NEW r \in Rendez, SleepCall(p, r) PROVE SleepInv'
  BY <1>1 DEF IInv, SleepCall
<1>2. ASSUME NEW p \in Proc, SleepLockRendez(p) PROVE SleepInv'
  BY <1>2 DEF IInv, SleepLockRendez
<1>3. ASSUME NEW p \in Proc, SleepLockProc(p) PROVE SleepInv'
  BY <1>3 DEF IInv, SleepLockProc, OneSleeper, InSleep
<1>4. ASSUME NEW p \in Proc, SleepTest(p) PROVE SleepInv'
  BY <1>4 DEF IInv, SleepTest, SleepNeverMind, RendezLocks, HoldsRendez
<1>5. ASSUME NEW p \in Proc, SleepCommit(p) PROVE SleepInv'
  <2> USE <1>5 DEF IInv
  <2>0. pc[p] = "snote" /\ arg[p] \in Rendez
    BY DEF SleepCommit
  <2>1. CASE SleepNeverMind(p, notepending[p])
    <3>1. /\ rp' = [rp EXCEPT ![arg[p]] = None]
          /\ pc' = [pc EXCEPT ![p] = "swoken"]
          /\ UNCHANGED <<state, pr, arg>>
      BY <2>1 DEF SleepNeverMind
    <3>2. \A o \in Proc : pc[o] = "wproc" => arg[o] # arg[p]
      <4>1. rlk[arg[p]] = p
        BY <2>0 DEF RendezLocks, HoldsRendez
      <4> QED
        BY <2>0, <4>1 DEF RendezLocks, HoldsRendez
    <3>3. state[p] # "Wakeme"
      BY <2>0
    <3>4. rp[arg[p]] = p
      BY <2>0
    <3> QED
      BY <2>0, <3>1, <3>2, <3>3, <3>4
  <2>2. CASE ~SleepNeverMind(p, notepending[p])
    <3>1. /\ state' = [state EXCEPT ![p] = "Wakeme"]
          /\ pr' = [pr EXCEPT ![p] = arg[p]]
          /\ pc' = [pc EXCEPT ![p] = "sunlock"]
          /\ UNCHANGED <<rp, arg>>
      BY <2>2 DEF SleepCommit
    <3>2. rp[arg[p]] = p
      BY <2>0
    <3>3. \A q \in Proc : pc[q] = "ntry" => arg[q] # p
      <4> SUFFICES ASSUME NEW q \in Proc, pc[q] = "ntry", arg[q] = p PROVE FALSE
        OBVIOUS
      <4>1. pr[p] # None
        OBVIOUS
      <4>2. pr[p] \in Rendez
        BY <4>1
      <4>3. state[p] = "Wakeme"
        BY <4>2
      <4> QED
        BY <2>0, <4>3
    <3>4. ASSUME NEW q \in Proc, NEW r \in Rendez
          PROVE  /\ rp'[r] = q <=> arg'[q] = r /\ (pc'[q] \in {"stest", "snote"} \/ state'[q] = "Wakeme")
                 /\ pr'[q] = r <=> arg'[q] = r /\ state'[q] = "Wakeme"
      <4>1. CASE q = p
        BY <2>0, <3>1, <3>2, <4>1
      <4>2. CASE q # p
        BY <2>0, <3>1, <4>2
      <4> QED
        BY <4>1, <4>2
    <3>5. ASSUME NEW q \in Proc
          PROVE  /\ pc'[q] = "wproc" => rp'[arg'[q]] # None
                 /\ pc'[q] = "ntry" => pr'[arg'[q]] # None
      <4>1. CASE q = p
        BY <3>1, <4>1
      <4>2. CASE q # p
        <5>1. pc'[q] = pc[q] /\ arg'[q] = arg[q]
          BY <3>1, <4>2
        <5>2. pc[q] = "ntry" => arg[q] \in Proc \ {p}
          BY <3>3
        <5> QED
          BY <3>1, <5>1, <5>2
      <4> QED
        BY <4>1, <4>2
    <3> QED
      BY <3>4, <3>5
  <2> QED
    BY <2>1, <2>2
<1>6. ASSUME NEW p \in Proc, SleepUnlock(p) PROVE SleepInv'
  BY <1>6 DEF IInv, SleepUnlock
<1>7. ASSUME NEW p \in Proc, SleepSched(p) PROVE SleepInv'
  BY <1>7 DEF IInv, SleepSched, sched
<1>8. ASSUME NEW p \in Proc, SleepReturn(p) PROVE SleepInv'
  BY <1>8 DEF IInv, SleepReturn
<1>9. ASSUME NEW p \in Proc, NEW r \in Rendez, WakeupCall(p, r) PROVE SleepInv'
  BY <1>9 DEF IInv, WakeupCall
<1>10. ASSUME NEW p \in Proc, WakeupLock(p) PROVE SleepInv'
  BY <1>10 DEF IInv, WakeupLock
<1>11. ASSUME NEW p \in Proc, WakeupProc(p) PROVE SleepInv'
  <2> USE <1>11 DEF IInv
  <2>1. PICK q \in Proc, r \in Rendez :
           /\ q # p /\ arg[p] = r /\ arg[q] = r /\ rp[r] = q /\ pr[q] = r
           /\ state[q] = "Wakeme" /\ plk[q] = None
           /\ state' = [state EXCEPT ![q] = "Ready"]
           /\ rp' = [rp EXCEPT ![r] = None] /\ pr' = [pr EXCEPT ![q] = None]
           /\ pc' = [pc EXCEPT ![p] = "exit"] /\ arg' = [arg EXCEPT ![p] = None]
    BY WakeupUnblocks
  <2>2. pc[p] = "wproc" /\ state[p] # "Wakeme"
    BY DEF WakeupProc
  <2>3. \A o \in Proc : o # p /\ pc[o] = "wproc" => arg[o] # r
    BY <2>1, <2>2 DEF RendezLocks, HoldsRendez
  <2>4. \A o \in Proc : pc[o] = "ntry" => arg[o] # q
    BY <2>1 DEF ProcLocks, HoldsProc
  <2>5. pc[q] \notin {"stest", "snote"}
    BY <2>1
  <2> QED
    BY <2>1, <2>2, <2>3, <2>4, <2>5
<1>12. ASSUME NEW p \in Proc, NEW q \in Target \ {p}, PostNote(p, q) PROVE SleepInv'
  BY <1>12 DEF IInv, PostNote
<1>13. ASSUME NEW p \in Proc, PostNoteLock(p) PROVE SleepInv'
  BY <1>13 DEF IInv, PostNoteLock
<1>14. ASSUME NEW p \in Proc, PostNoteWake(p) PROVE SleepInv'
  <2> USE <1>14 DEF IInv
  <2>1. PICK q \in Proc, r \in Rendez :
           /\ q # p /\ arg[p] = q /\ arg[q] = r /\ rp[r] = q /\ pr[q] = r
           /\ state[q] = "Wakeme" /\ rlk[r] = None
           /\ state' = [state EXCEPT ![q] = "Ready"]
           /\ rp' = [rp EXCEPT ![r] = None] /\ pr' = [pr EXCEPT ![q] = None]
           /\ pc' = [pc EXCEPT ![p] = "nrend"] /\ arg' = arg
    BY PostNoteUnblocks
  <2>2. pc[p] = "ntry" /\ state[p] # "Wakeme"
    BY DEF PostNoteWake
  <2>3. \A o \in Proc : pc[o] = "wproc" => arg[o] # r
    BY <2>1 DEF RendezLocks, HoldsRendez
  <2>4. \A o \in Proc : o # p /\ pc[o] = "ntry" => arg[o] # q
    BY <2>1, <2>2 DEF ProcLocks, HoldsProc
  <2>5. pc[q] \notin {"stest", "snote"}
    BY <2>1
  <2> QED
    BY <2>1, <2>2, <2>3, <2>4, <2>5
<1>15. ASSUME NEW p \in Proc, PostNoteRetry(p) PROVE SleepInv'
  BY <1>15 DEF IInv, PostNoteRetry, sched
<1>16. ASSUME NEW p \in Proc, PostNoteRend(p) PROVE SleepInv'
  BY <1>16 DEF IInv, PostNoteRend
<1>17. ASSUME NEW p \in Proc, PostNotePull(p) PROVE SleepInv'
  BY <1>17 DEF IInv, PostNotePull, ready
<1>18. ASSUME NEW p \in Proc, NEW t \in Tag, RendCall(p, t) PROVE SleepInv'
  BY <1>18 DEF IInv, RendCall
<1>19. ASSUME NEW p \in Proc, RendMeet(p) PROVE SleepInv'
  BY <1>19 DEF IInv, RendMeet
<1>20. ASSUME NEW p \in Proc, RendReady(p) PROVE SleepInv'
  <2>1. state[arg[p]] = "Rendezvous" /\ arg[p] \in Proc
    BY <1>20 DEF IInv, RendReady, RendInv, OneWaiterPerTag
  <2> QED
    BY <1>20, <2>1 DEF IInv, RendReady, ready
<1>21. ASSUME NEW p \in Proc, RendWait(p) PROVE SleepInv'
  BY <1>21 DEF IInv, RendWait
<1>22. ASSUME NEW p \in Proc, RendSched(p) PROVE SleepInv'
  BY <1>22 DEF IInv, RendSched, sched
<1>23. ASSUME NEW p \in Proc, RendReturn(p) PROVE SleepInv'
  BY <1>23 DEF IInv, RendReturn
<1>24. ASSUME NEW p \in Proc, Notify(p) PROVE SleepInv'
  BY <1>24 DEF IInv, Notify
<1>25. ASSUME NEW p \in Proc, NoNote(p) PROVE SleepInv'
  BY <1>25 DEF IInv, NoNote
<1>26. ASSUME NEW p \in Proc, Noted(p) PROVE SleepInv'
  BY <1>26 DEF IInv, Noted
<1>27. ASSUME NEW p \in Proc, Run(p) PROVE SleepInv'
  BY <1>27 DEF IInv, Run, runproc
<1>28. ASSUME NEW p \in Proc, Preempt(p) PROVE SleepInv'
  BY <1>28 DEF IInv, Preempt, preempt, sched
<1>29. CASE UNCHANGED vars
  BY <1>29 DEF IInv, vars
<1> QED
  BY <1>1, <1>2, <1>3, <1>4, <1>5, <1>6, <1>7, <1>8, <1>9, <1>10, <1>11, <1>12, <1>13, <1>14, <1>15, <1>16, <1>17, <1>18, <1>19, <1>20, <1>21, <1>22, <1>23, <1>24, <1>25, <1>26, <1>27, <1>28, <1>29
     DEF Next, Call, Step

(* A postnote reaches the sleeper it is for.                               *)
LEMMA NoteStep == IInv /\ TypeOK' /\ [Next]_vars => NoLostNote'
<1> SUFFICES ASSUME IInv, TypeOK', [Next]_vars PROVE NoLostNote'
  OBVIOUS
<1>t. TypeOK /\ ArgInv
  BY DEF IInv
<1> USE <1>t, NoneAssumption, TagAssumption, TargetAssumption DEF SchedTypeOK, StateInv, NoLostNote, TypeOK, ArgInv, SleepLabel, At, Goto, Enter, Leave, Executing,
            schedvars, lockvars, sleepvars, notevars, rendvars
<1>1. ASSUME NEW p \in Proc, NEW r \in Rendez, SleepCall(p, r) PROVE NoLostNote'
  BY <1>1 DEF IInv, SleepCall
<1>2. ASSUME NEW p \in Proc, SleepLockRendez(p) PROVE NoLostNote'
  BY <1>2 DEF IInv, SleepLockRendez
<1>3. ASSUME NEW p \in Proc, SleepLockProc(p) PROVE NoLostNote'
  BY <1>3 DEF IInv, SleepLockProc
<1>4. ASSUME NEW p \in Proc, SleepTest(p) PROVE NoLostNote'
  BY <1>4 DEF IInv, SleepTest, SleepNeverMind
<1>5. ASSUME NEW p \in Proc, SleepCommit(p) PROVE NoLostNote'
  BY <1>5 DEF IInv, SleepCommit, SleepNeverMind
<1>6. ASSUME NEW p \in Proc, SleepUnlock(p) PROVE NoLostNote'
  BY <1>6 DEF IInv, SleepUnlock
<1>7. ASSUME NEW p \in Proc, SleepSched(p) PROVE NoLostNote'
  BY <1>7 DEF IInv, SleepSched, sched
<1>8. ASSUME NEW p \in Proc, SleepReturn(p) PROVE NoLostNote'
  BY <1>8 DEF IInv, SleepReturn
<1>9. ASSUME NEW p \in Proc, NEW r \in Rendez, WakeupCall(p, r) PROVE NoLostNote'
  BY <1>9 DEF IInv, WakeupCall
<1>10. ASSUME NEW p \in Proc, WakeupLock(p) PROVE NoLostNote'
  BY <1>10 DEF IInv, WakeupLock
<1>11. ASSUME NEW p \in Proc, WakeupProc(p) PROVE NoLostNote'
  BY <1>11, WakeupUnblocks DEF IInv, WakeupProc
<1>12. ASSUME NEW p \in Proc, NEW q \in Target \ {p}, PostNote(p, q) PROVE NoLostNote'
  BY <1>12 DEF IInv, PostNote
<1>13. ASSUME NEW p \in Proc, PostNoteLock(p) PROVE NoLostNote'
  BY <1>13 DEF IInv, PostNoteLock, SleepInv
<1>14. ASSUME NEW p \in Proc, PostNoteWake(p) PROVE NoLostNote'
  BY <1>14, PostNoteUnblocks DEF IInv, PostNoteWake
<1>15. ASSUME NEW p \in Proc, PostNoteRetry(p) PROVE NoLostNote'
  BY <1>15 DEF IInv, PostNoteRetry, sched
<1>16. ASSUME NEW p \in Proc, PostNoteRend(p) PROVE NoLostNote'
  BY <1>16 DEF IInv, PostNoteRend
<1>17. ASSUME NEW p \in Proc, PostNotePull(p) PROVE NoLostNote'
  BY <1>17 DEF IInv, PostNotePull, ready
<1>18. ASSUME NEW p \in Proc, NEW t \in Tag, RendCall(p, t) PROVE NoLostNote'
  BY <1>18 DEF IInv, RendCall
<1>19. ASSUME NEW p \in Proc, RendMeet(p) PROVE NoLostNote'
  BY <1>19 DEF IInv, RendMeet
<1>20. ASSUME NEW p \in Proc, RendReady(p) PROVE NoLostNote'
  BY <1>20 DEF IInv, RendReady, ready
<1>21. ASSUME NEW p \in Proc, RendWait(p) PROVE NoLostNote'
  BY <1>21 DEF IInv, RendWait
<1>22. ASSUME NEW p \in Proc, RendSched(p) PROVE NoLostNote'
  BY <1>22 DEF IInv, RendSched, sched
<1>23. ASSUME NEW p \in Proc, RendReturn(p) PROVE NoLostNote'
  BY <1>23 DEF IInv, RendReturn
<1>24. ASSUME NEW p \in Proc, Notify(p) PROVE NoLostNote'
  BY <1>24 DEF IInv, Notify
<1>25. ASSUME NEW p \in Proc, NoNote(p) PROVE NoLostNote'
  BY <1>25 DEF IInv, NoNote
<1>26. ASSUME NEW p \in Proc, Noted(p) PROVE NoLostNote'
  BY <1>26 DEF IInv, Noted
<1>27. ASSUME NEW p \in Proc, Run(p) PROVE NoLostNote'
  BY <1>27 DEF IInv, Run, runproc
<1>28. ASSUME NEW p \in Proc, Preempt(p) PROVE NoLostNote'
  BY <1>28 DEF IInv, Preempt, preempt, sched
<1>29. CASE UNCHANGED vars
  BY <1>29 DEF IInv, vars
<1> QED
  BY <1>1, <1>2, <1>3, <1>4, <1>5, <1>6, <1>7, <1>8, <1>9, <1>10, <1>11, <1>12, <1>13, <1>14, <1>15, <1>16, <1>17, <1>18, <1>19, <1>20, <1>21, <1>22, <1>23, <1>24, <1>25, <1>26, <1>27, <1>28, <1>29
     DEF Next, Call, Step

(* A wakeup reaches the sleeper whose condition it made true.              *)
LEMMA WakerStep == IInv /\ TypeOK' /\ [Next]_vars => WakerComing'
<1> SUFFICES ASSUME IInv, TypeOK', [Next]_vars PROVE WakerComing'
  OBVIOUS
<1>t. TypeOK /\ ArgInv
  BY DEF IInv
<1> USE <1>t, NoneAssumption, TagAssumption, TargetAssumption DEF SchedTypeOK, StateInv, WakerComing, TypeOK, ArgInv, SleepLabel, At, Goto, Enter, Leave, Executing,
            schedvars, lockvars, sleepvars, notevars, rendvars
<1>1. ASSUME NEW p \in Proc, NEW r \in Rendez, SleepCall(p, r) PROVE WakerComing'
  BY <1>1 DEF IInv, SleepCall
<1>2. ASSUME NEW p \in Proc, SleepLockRendez(p) PROVE WakerComing'
  BY <1>2 DEF IInv, SleepLockRendez
<1>3. ASSUME NEW p \in Proc, SleepLockProc(p) PROVE WakerComing'
  BY <1>3 DEF IInv, SleepLockProc
<1>4. ASSUME NEW p \in Proc, SleepTest(p) PROVE WakerComing'
  BY <1>4 DEF IInv, SleepTest, SleepNeverMind
<1>5. ASSUME NEW p \in Proc, SleepCommit(p) PROVE WakerComing'
  BY <1>5 DEF IInv, SleepCommit, SleepNeverMind
<1>6. ASSUME NEW p \in Proc, SleepUnlock(p) PROVE WakerComing'
  BY <1>6 DEF IInv, SleepUnlock
<1>7. ASSUME NEW p \in Proc, SleepSched(p) PROVE WakerComing'
  BY <1>7 DEF IInv, SleepSched, sched
<1>8. ASSUME NEW p \in Proc, SleepReturn(p) PROVE WakerComing'
  BY <1>8 DEF IInv, SleepReturn
<1>9. ASSUME NEW p \in Proc, NEW r \in Rendez, WakeupCall(p, r) PROVE WakerComing'
  BY <1>9 DEF IInv, WakeupCall
<1>10. ASSUME NEW p \in Proc, WakeupLock(p) PROVE WakerComing'
  <2> USE <1>10 DEF IInv
  <2>1. CASE rp[arg[p]] = None
    <3>1. \A o \in Proc : pc[o] = "snote" \/ state[o] = "Wakeme" => arg[o] # arg[p]
      BY <2>1 DEF SleepInv
    <3>2. /\ pc[p] = "wlock" /\ pc' = [pc EXCEPT ![p] = "exit"] /\ arg' = [arg EXCEPT ![p] = None]
          /\ UNCHANGED <<state, cond>>
      BY <2>1 DEF WakeupLock
    <3> QED
      BY <3>1, <3>2
  <2>2. CASE rp[arg[p]] # None
    BY <2>2 DEF WakeupLock
  <2> QED
    BY <2>1, <2>2
<1>11. ASSUME NEW p \in Proc, WakeupProc(p) PROVE WakerComing'
  <2> USE <1>11 DEF IInv
  <2>1. PICK q \in Proc, r \in Rendez :
           /\ q # p /\ arg[p] = r /\ arg[q] = r /\ rp[r] = q
           /\ state[q] = "Wakeme"
           /\ state' = [state EXCEPT ![q] = "Ready"]
           /\ pc' = [pc EXCEPT ![p] = "exit"] /\ arg' = [arg EXCEPT ![p] = None]
    BY WakeupUnblocks
  <2>2. pc[p] = "wproc" /\ cond' = cond
    BY DEF WakeupProc
  <2>3. \A o \in Proc : o # q /\ (pc[o] = "snote" \/ state[o] = "Wakeme") => arg[o] # r
    BY <2>1 DEF SleepInv
  <2>4. pc[q] # "snote" /\ state[p] # "Wakeme"
    BY <2>1, <2>2
  <2> QED
    BY <2>1, <2>2, <2>3, <2>4
<1>12. ASSUME NEW p \in Proc, NEW q \in Target \ {p}, PostNote(p, q) PROVE WakerComing'
  BY <1>12 DEF IInv, PostNote
<1>13. ASSUME NEW p \in Proc, PostNoteLock(p) PROVE WakerComing'
  BY <1>13 DEF IInv, PostNoteLock
<1>14. ASSUME NEW p \in Proc, PostNoteWake(p) PROVE WakerComing'
  BY <1>14, PostNoteUnblocks DEF IInv, PostNoteWake
<1>15. ASSUME NEW p \in Proc, PostNoteRetry(p) PROVE WakerComing'
  BY <1>15 DEF IInv, PostNoteRetry, sched
<1>16. ASSUME NEW p \in Proc, PostNoteRend(p) PROVE WakerComing'
  BY <1>16 DEF IInv, PostNoteRend
<1>17. ASSUME NEW p \in Proc, PostNotePull(p) PROVE WakerComing'
  BY <1>17 DEF IInv, PostNotePull, ready
<1>18. ASSUME NEW p \in Proc, NEW t \in Tag, RendCall(p, t) PROVE WakerComing'
  BY <1>18 DEF IInv, RendCall
<1>19. ASSUME NEW p \in Proc, RendMeet(p) PROVE WakerComing'
  BY <1>19 DEF IInv, RendMeet
<1>20. ASSUME NEW p \in Proc, RendReady(p) PROVE WakerComing'
  BY <1>20 DEF IInv, RendReady, ready
<1>21. ASSUME NEW p \in Proc, RendWait(p) PROVE WakerComing'
  BY <1>21 DEF IInv, RendWait
<1>22. ASSUME NEW p \in Proc, RendSched(p) PROVE WakerComing'
  BY <1>22 DEF IInv, RendSched, sched
<1>23. ASSUME NEW p \in Proc, RendReturn(p) PROVE WakerComing'
  BY <1>23 DEF IInv, RendReturn
<1>24. ASSUME NEW p \in Proc, Notify(p) PROVE WakerComing'
  BY <1>24 DEF IInv, Notify
<1>25. ASSUME NEW p \in Proc, NoNote(p) PROVE WakerComing'
  BY <1>25 DEF IInv, NoNote
<1>26. ASSUME NEW p \in Proc, Noted(p) PROVE WakerComing'
  BY <1>26 DEF IInv, Noted
<1>27. ASSUME NEW p \in Proc, Run(p) PROVE WakerComing'
  BY <1>27 DEF IInv, Run, runproc
<1>28. ASSUME NEW p \in Proc, Preempt(p) PROVE WakerComing'
  BY <1>28 DEF IInv, Preempt, preempt, sched
<1>29. CASE UNCHANGED vars
  BY <1>29 DEF IInv, vars
<1> QED
  BY <1>1, <1>2, <1>3, <1>4, <1>5, <1>6, <1>7, <1>8, <1>9, <1>10, <1>11, <1>12, <1>13, <1>14, <1>15, <1>16, <1>17, <1>18, <1>19, <1>20, <1>21, <1>22, <1>23, <1>24, <1>25, <1>26, <1>27, <1>28, <1>29
     DEF Next, Call, Step

(* A waiter is on the chain, or being met.                                 *)
LEMMA RendStep == IInv /\ TypeOK' /\ [Next]_vars => RendInv'
<1> SUFFICES ASSUME IInv, TypeOK', [Next]_vars PROVE RendInv'
  OBVIOUS
<1>t. TypeOK /\ ArgInv
  BY DEF IInv
<1> USE <1>t, NoneAssumption, TagAssumption, TargetAssumption DEF SchedTypeOK, StateInv, GroupLock, RendInv, OneWaiterPerTag, TypeOK, ArgInv, SleepLabel, At, Goto, Enter, Leave, Executing,
            schedvars, lockvars, sleepvars, notevars, rendvars
<1>1. ASSUME NEW p \in Proc, NEW r \in Rendez, SleepCall(p, r) PROVE RendInv'
  BY <1>1 DEF IInv, SleepCall
<1>2. ASSUME NEW p \in Proc, SleepLockRendez(p) PROVE RendInv'
  BY <1>2 DEF IInv, SleepLockRendez
<1>3. ASSUME NEW p \in Proc, SleepLockProc(p) PROVE RendInv'
  BY <1>3 DEF IInv, SleepLockProc
<1>4. ASSUME NEW p \in Proc, SleepTest(p) PROVE RendInv'
  BY <1>4 DEF IInv, SleepTest, SleepNeverMind
<1>5. ASSUME NEW p \in Proc, SleepCommit(p) PROVE RendInv'
  BY <1>5 DEF IInv, SleepCommit, SleepNeverMind
<1>6. ASSUME NEW p \in Proc, SleepUnlock(p) PROVE RendInv'
  BY <1>6 DEF IInv, SleepUnlock
<1>7. ASSUME NEW p \in Proc, SleepSched(p) PROVE RendInv'
  BY <1>7 DEF IInv, SleepSched, sched
<1>8. ASSUME NEW p \in Proc, SleepReturn(p) PROVE RendInv'
  BY <1>8 DEF IInv, SleepReturn
<1>9. ASSUME NEW p \in Proc, NEW r \in Rendez, WakeupCall(p, r) PROVE RendInv'
  BY <1>9 DEF IInv, WakeupCall
<1>10. ASSUME NEW p \in Proc, WakeupLock(p) PROVE RendInv'
  BY <1>10 DEF IInv, WakeupLock
<1>11. ASSUME NEW p \in Proc, WakeupProc(p) PROVE RendInv'
  <2> USE <1>11 DEF IInv
  <2>1. PICK q \in Proc :
           /\ q # p /\ state[q] = "Wakeme"
           /\ state' = [state EXCEPT ![q] = "Ready"]
           /\ pc' = [pc EXCEPT ![p] = "exit"] /\ arg' = [arg EXCEPT ![p] = None]
    BY WakeupUnblocks
  <2>2. pc[p] = "wproc" /\ UNCHANGED <<waiting, rendval>>
    BY DEF WakeupProc
  <2>3. state[p] # "Rendezvous" /\ p \notin waiting /\ q \notin waiting
    BY <2>1, <2>2
  <2>4. \A o \in Proc : pc[o] = "rspin" => o # p /\ arg[o] # q
    BY <2>1, <2>2
  <2>5. OneWaiterPerTag'
    BY <2>1, <2>2, <2>3, <2>4
  <2> QED
    BY <2>1, <2>2, <2>3, <2>4, <2>5
<1>12. ASSUME NEW p \in Proc, NEW q \in Target \ {p}, PostNote(p, q) PROVE RendInv'
  BY <1>12 DEF IInv, PostNote
<1>13. ASSUME NEW p \in Proc, PostNoteLock(p) PROVE RendInv'
  BY <1>13 DEF IInv, PostNoteLock
<1>14. ASSUME NEW p \in Proc, PostNoteWake(p) PROVE RendInv'
  BY <1>14, PostNoteUnblocks DEF IInv, PostNoteWake
<1>15. ASSUME NEW p \in Proc, PostNoteRetry(p) PROVE RendInv'
  BY <1>15 DEF IInv, PostNoteRetry, sched
<1>16. ASSUME NEW p \in Proc, PostNoteRend(p) PROVE RendInv'
  BY <1>16 DEF IInv, PostNoteRend
<1>17. ASSUME NEW p \in Proc, PostNotePull(p) PROVE RendInv'
  BY <1>17 DEF IInv, PostNotePull, ready
<1>18. ASSUME NEW p \in Proc, NEW t \in Tag, RendCall(p, t) PROVE RendInv'
  BY <1>18 DEF IInv, RendCall
<1>19. ASSUME NEW p \in Proc, RendMeet(p) PROVE RendInv'
  BY <1>19 DEF IInv, RendMeet
<1>20. ASSUME NEW p \in Proc, RendReady(p) PROVE RendInv'
  BY <1>20 DEF IInv, RendReady, ready
<1>21. ASSUME NEW p \in Proc, RendWait(p) PROVE RendInv'
  BY <1>21 DEF IInv, RendWait
<1>22. ASSUME NEW p \in Proc, RendSched(p) PROVE RendInv'
  BY <1>22 DEF IInv, RendSched, sched
<1>23. ASSUME NEW p \in Proc, RendReturn(p) PROVE RendInv'
  BY <1>23 DEF IInv, RendReturn
<1>24. ASSUME NEW p \in Proc, Notify(p) PROVE RendInv'
  BY <1>24 DEF IInv, Notify
<1>25. ASSUME NEW p \in Proc, NoNote(p) PROVE RendInv'
  BY <1>25 DEF IInv, NoNote
<1>26. ASSUME NEW p \in Proc, Noted(p) PROVE RendInv'
  BY <1>26 DEF IInv, Noted
<1>27. ASSUME NEW p \in Proc, Run(p) PROVE RendInv'
  BY <1>27 DEF IInv, Run, runproc
<1>28. ASSUME NEW p \in Proc, Preempt(p) PROVE RendInv'
  BY <1>28 DEF IInv, Preempt, preempt, sched
<1>29. CASE UNCHANGED vars
  BY <1>29 DEF IInv, vars
<1> QED
  BY <1>1, <1>2, <1>3, <1>4, <1>5, <1>6, <1>7, <1>8, <1>9, <1>10, <1>11, <1>12, <1>13, <1>14, <1>15, <1>16, <1>17, <1>18, <1>19, <1>20, <1>21, <1>22, <1>23, <1>24, <1>25, <1>26, <1>27, <1>28, <1>29
     DEF Next, Call, Step

(* A note is pending only while one is stored.                             *)
LEMMA PendingStep == TypeOK /\ ArgInv /\ PendingIsStored /\ [Next]_vars => PendingIsStored'
<1> SUFFICES ASSUME TypeOK, ArgInv, PendingIsStored, [Next]_vars PROVE PendingIsStored'
  OBVIOUS
<1> USE NoneAssumption, TagAssumption, TargetAssumption DEF PendingIsStored, TypeOK, ArgInv, SleepLabel, At, Goto, Enter, Leave, Executing,
            schedvars, lockvars, sleepvars, notevars, rendvars
<1>1. ASSUME NEW p \in Proc, NEW r \in Rendez, SleepCall(p, r) PROVE PendingIsStored'
  BY <1>1 DEF SleepCall
<1>2. ASSUME NEW p \in Proc, SleepLockRendez(p) PROVE PendingIsStored'
  BY <1>2 DEF SleepLockRendez
<1>3. ASSUME NEW p \in Proc, SleepLockProc(p) PROVE PendingIsStored'
  BY <1>3 DEF SleepLockProc
<1>4. ASSUME NEW p \in Proc, SleepTest(p) PROVE PendingIsStored'
  BY <1>4 DEF SleepTest, SleepNeverMind
<1>5. ASSUME NEW p \in Proc, SleepCommit(p) PROVE PendingIsStored'
  BY <1>5 DEF SleepCommit, SleepNeverMind
<1>6. ASSUME NEW p \in Proc, SleepUnlock(p) PROVE PendingIsStored'
  BY <1>6 DEF SleepUnlock
<1>7. ASSUME NEW p \in Proc, SleepSched(p) PROVE PendingIsStored'
  BY <1>7 DEF SleepSched, sched
<1>8. ASSUME NEW p \in Proc, SleepReturn(p) PROVE PendingIsStored'
  BY <1>8 DEF SleepReturn
<1>9. ASSUME NEW p \in Proc, NEW r \in Rendez, WakeupCall(p, r) PROVE PendingIsStored'
  BY <1>9 DEF WakeupCall
<1>10. ASSUME NEW p \in Proc, WakeupLock(p) PROVE PendingIsStored'
  BY <1>10 DEF WakeupLock
<1>11. ASSUME NEW p \in Proc, WakeupProc(p) PROVE PendingIsStored'
  BY <1>11 DEF WakeupProc, Unblock, ready
<1>12. ASSUME NEW p \in Proc, NEW q \in Target \ {p}, PostNote(p, q) PROVE PendingIsStored'
  BY <1>12, NNOTEAssumption DEF PostNote
<1>13. ASSUME NEW p \in Proc, PostNoteLock(p) PROVE PendingIsStored'
  BY <1>13 DEF PostNoteLock
<1>14. ASSUME NEW p \in Proc, PostNoteWake(p) PROVE PendingIsStored'
  BY <1>14 DEF PostNoteWake, Unblock, ready
<1>15. ASSUME NEW p \in Proc, PostNoteRetry(p) PROVE PendingIsStored'
  BY <1>15 DEF PostNoteRetry, sched
<1>16. ASSUME NEW p \in Proc, PostNoteRend(p) PROVE PendingIsStored'
  BY <1>16 DEF PostNoteRend
<1>17. ASSUME NEW p \in Proc, PostNotePull(p) PROVE PendingIsStored'
  BY <1>17 DEF PostNotePull, ready
<1>18. ASSUME NEW p \in Proc, NEW t \in Tag, RendCall(p, t) PROVE PendingIsStored'
  BY <1>18 DEF RendCall
<1>19. ASSUME NEW p \in Proc, RendMeet(p) PROVE PendingIsStored'
  BY <1>19 DEF RendMeet
<1>20. ASSUME NEW p \in Proc, RendReady(p) PROVE PendingIsStored'
  BY <1>20 DEF RendReady, ready
<1>21. ASSUME NEW p \in Proc, RendWait(p) PROVE PendingIsStored'
  BY <1>21 DEF RendWait
<1>22. ASSUME NEW p \in Proc, RendSched(p) PROVE PendingIsStored'
  BY <1>22 DEF RendSched, sched
<1>23. ASSUME NEW p \in Proc, RendReturn(p) PROVE PendingIsStored'
  BY <1>23 DEF RendReturn
<1>24. ASSUME NEW p \in Proc, Notify(p) PROVE PendingIsStored'
  BY <1>24 DEF Notify
<1>25. ASSUME NEW p \in Proc, NoNote(p) PROVE PendingIsStored'
  BY <1>25 DEF NoNote
<1>26. ASSUME NEW p \in Proc, Noted(p) PROVE PendingIsStored'
  BY <1>26 DEF Noted
<1>27. ASSUME NEW p \in Proc, Run(p) PROVE PendingIsStored'
  BY <1>27 DEF Run, runproc
<1>28. ASSUME NEW p \in Proc, Preempt(p) PROVE PendingIsStored'
  BY <1>28 DEF Preempt, preempt, sched
<1>29. CASE UNCHANGED vars
  BY <1>29 DEF vars
<1> QED
  BY <1>1, <1>2, <1>3, <1>4, <1>5, <1>6, <1>7, <1>8, <1>9, <1>10, <1>11, <1>12, <1>13, <1>14, <1>15, <1>16, <1>17, <1>18, <1>19, <1>20, <1>21, <1>22, <1>23, <1>24, <1>25, <1>26, <1>27, <1>28, <1>29
     DEF Next, Call, Step

-----------------------------------------------------------------------------
(* The invariant and the theorems                                          *)

LEMMA InvInit == Init => IInv
<1> SUFFICES ASSUME Init PROVE IInv
  OBVIOUS
<1> USE NoneAssumption, TagAssumption DEF Init
<1>1. TypeOK /\ ArgInv
  BY TypeInit, ArgInit
<1>2. RendezLocks /\ ProcLocks /\ GroupLock
  BY DEF RendezLocks, HoldsRendez, ProcLocks, HoldsProc, GroupLock
<1>3. StateInv /\ OneSleeper /\ NoPanic
  BY DEF SchedInit, StateInv, OneSleeper, InSleep, SleepLabel, NoPanic
<1>4. SleepInv
  BY DEF SchedInit, SleepInv
<1>5. RendInv /\ WakerComing /\ NoLostNote
  BY DEF SchedInit, RendInv, OneWaiterPerTag, WakerComing, NoLostNote
<1> QED
  BY <1>1, <1>2, <1>3, <1>4, <1>5 DEF IInv

LEMMA InvStep == IInv /\ [Next]_vars => IInv'
<1> SUFFICES ASSUME IInv, [Next]_vars PROVE IInv'
  OBVIOUS
<1>1. TypeOK' /\ ArgInv'
  BY TypeStep, ArgStep DEF IInv
<1>2. /\ RendezLocks' /\ ProcLocks' /\ GroupLock'
      /\ StateInv' /\ OneSleeper' /\ SleepInv'
      /\ NoPanic' /\ RendInv' /\ WakerComing' /\ NoLostNote'
  BY <1>1, RendezLocksStep, ProcLocksStep, GroupLockStep, StateStep, OneSleeperStep, SleepStep,
     NoPanicStep, RendStep, WakerStep, NoteStep
<1> QED
  BY <1>1, <1>2 DEF IInv

LEMMA Invariant == Spec => []IInv
  BY InvInit, InvStep, PTL DEF Spec

(* wakeup never finds that the process on its Rendez is not asleep there,  *)
(* nor does postnote: neither print followed by panic is reachable.        *)
THEOREM SleepWakeupNoPanic == Spec => []NoPanic
<1>1. IInv => NoPanic
  BY DEF IInv
<1> QED
  BY <1>1, Invariant, PTL

(* The re-check of f under the Rendez's lock suffices: a process is never  *)
(* asleep on a true condition without a wakeup that is about to find it.   *)
THEOREM SleepWakeupNoLostWakeup == Spec => []NoLostWakeup
<1>1. IInv => NoLostWakeup
  <2> SUFFICES ASSUME IInv, NEW p \in Proc, state[p] = "Wakeme", cond[pr[p]]
               PROVE  \E q \in Proc : pc[q] \in {"wlock", "wproc"} /\ arg[q] = pr[p]
    BY DEF NoLostWakeup
  <2>1. arg[p] \in Rendez
    BY DEF IInv, StateInv, ArgInv, SleepLabel
  <2>2. pr[p] = arg[p]
    BY <2>1 DEF IInv, SleepInv
  <2> QED
    BY <2>2 DEF IInv, WakerComing
<1> QED
  BY <1>1, Invariant, PTL

(* The test of up->notepending under up->rlock suffices likewise: postnote *)
(* sets it before it looks for the sleeper.                                *)
THEOREM SleepWakeupNoLostNote == Spec => []NoLostNote
<1>1. IInv => NoLostNote
  BY DEF IInv
<1> QED
  BY <1>1, Invariant, PTL

(* A waiter in rendezvous is taken by one partner or by a note.            *)
THEOREM SleepWakeupOneWaiter == Spec => []OneWaiterPerTag
<1>1. IInv => OneWaiterPerTag
  BY DEF IInv, RendInv
<1> QED
  BY <1>1, Invariant, PTL

(* The notes counted in nnote are never fewer than notepending says.       *)
THEOREM SleepWakeupPending == Spec => []PendingIsStored
<1>1. Init => PendingIsStored
  BY DEF Init, PendingIsStored
<1> QED
  BY <1>1, TypeInit, TypeStep, ArgInit, ArgStep, PendingStep, PTL DEF Spec

-----------------------------------------------------------------------------
(* Timed sleep                                                             *)

(* An interrupt past timerintr is about one process.                       *)
IntrInv == \A c \in Cpu : ipc[c] = "off" <=> timer[c] = None

(* Either way out of tsleep leaves no timer on a list, so that the test of *)
(* up->tt on the way in finds none.                                        *)
NoTimerOut == \A p \in Proc : tpc[p] \in {"out", "arm"} => tt[p] = None

TSafe == TTypeOK /\ NoTimerOut /\ IntrInv

LEMMA TSafeInit == TInit => TSafe
  BY DEF TInit, TSafe, TTypeOK, TLabel, IntrLabel, NoTimerOut, IntrInv

LEMMA TSafeStep == TSafe /\ [TNext]_tvars => TSafe'
<1> SUFFICES ASSUME TSafe, [TNext]_tvars PROVE TSafe'
  OBVIOUS
<1> USE NoneAssumption, CpuAssumption DEF TSafe, TTypeOK, NoTimerOut, IntrInv, TLabel, IntrLabel,
        procvars, timervars, intrvars, TGoto, IGoto, wakeup
<1>1. ASSUME NEW p \in Proc, NEW x \in Rendez, TsleepCall(p, x) PROVE TSafe'
  <2>1. tcond' \in [Rendez -> BOOLEAN]
    BY <1>1, Zenon DEF TsleepCall
  <2> QED
    BY <1>1, <2>1 DEF TsleepCall
<1>2. ASSUME NEW p \in Proc, ProcStep(p) PROVE TSafe'
  <2>1. CASE timeradd(p)
    BY <2>1 DEF timeradd
  <2>2. CASE Sleep(p)
    <3>1. \E l \in {"woke", "asleep"} : tpc' = [tpc EXCEPT ![p] = l]
      BY <2>2 DEF Sleep
    <3> QED
      BY <2>2, <3>1 DEF Sleep
  <2>3. CASE TsleepReturn(p)
    BY <2>3 DEF TsleepReturn
  <2>4. CASE timerdel(p)
    BY <2>4 DEF timerdel
  <2> QED
    BY <1>2, <2>1, <2>2, <2>3, <2>4 DEF ProcStep
<1>3. ASSUME NEW p \in Proc, TNote(p) PROVE TSafe'
  BY <1>3 DEF TNote
<1>4. ASSUME NEW x \in Rendez, Event(x) PROVE TSafe'
  BY <1>4 DEF Event
<1>5. ASSUME NEW c \in Cpu, NEW p \in Proc, timerintr(c, p) PROVE TSafe'
  BY <1>5 DEF timerintr, Free
<1>6. ASSUME NEW c \in Cpu, TwakeupRead(c) PROVE TSafe'
  BY <1>6 DEF TwakeupRead
<1>7. ASSUME NEW c \in Cpu, TwakeupClear(c) PROVE TSafe'
  BY <1>7 DEF TwakeupClear
<1>8. ASSUME NEW c \in Cpu, TwakeupWake(c) PROVE TSafe'
  BY <1>8 DEF TwakeupWake
<1>9. CASE UNCHANGED tvars
  BY <1>9 DEF tvars
<1> QED
  BY <1>1, <1>2, <1>3, <1>4, <1>5, <1>6, <1>7, <1>8, <1>9 DEF TNext, Interrupt, twakeup

-----------------------------------------------------------------------------
(* The orderly case                                                        *)

(* One interrupt at a time is about a process; it has then taken the timer *)
(* off the list, and the process is still in the tsleep that armed it.     *)
OneIntr ==
  /\ \A c, d \in Cpu : timer[c] # None /\ timer[c] = timer[d] => c = d
  /\ \A c \in Cpu, p \in Proc : timer[c] = p =>
       tt[p] = None /\ tpc[p] \notin {"out", "arm"}

(* Where the timeout of p is: on a list, or at a step of the interrupt.    *)
OnList(p) == tt[p] # None /\ trend[p] = tr[p]
Taken(p, c) ==
  /\ timer[c] = p
  /\ \/ ipc[c] = "read" /\ trend[p] = tr[p]
     \/ ipc[c] = "clear" /\ towake[c] = tr[p]
     \/ ipc[c] = "wake" /\ towake[c] = tr[p] /\ trend[p] = None

(* A process about to sleep may instead find its timeout over (tfn).       *)
Armed ==
  \A p \in Proc :
    /\ tpc[p] # "out" => tr[p] # None
    /\ tpc[p] = "arm" => trend[p] = tr[p]
    /\ tpc[p] = "asleep" => OnList(p) \/ \E c \in Cpu : Taken(p, c)
    /\ tpc[p] = "sleep" =>
         \/ OnList(p) \/ \E c \in Cpu : Taken(p, c)
         \/ tt[p] = None /\ trend[p] = None /\ \A c \in Cpu : timer[c] # p

OrderlyInv == TSafe /\ OneIntr /\ Armed

LEMMA OrderlyInit == TInit => OrderlyInv
<1> SUFFICES ASSUME TInit PROVE OrderlyInv
  OBVIOUS
<1>1. TSafe
  BY TSafeInit
<1>2. OneIntr
  BY NoneAssumption, CpuAssumption DEF TInit, OneIntr
<1>3. Armed
  BY DEF TInit, Armed
<1> QED
  BY <1>1, <1>2, <1>3 DEF OrderlyInv

LEMMA OrderlyStep == OrderlyInv /\ [TNext /\ NotOvertaken]_tvars => OrderlyInv'
<1> SUFFICES ASSUME OrderlyInv, [TNext /\ NotOvertaken]_tvars PROVE OrderlyInv'
  OBVIOUS
<1>0. TSafe /\ TSafe'
  BY TSafeStep DEF OrderlyInv
<1> USE NoneAssumption, CpuAssumption DEF procvars, timervars, intrvars, TGoto, IGoto
<1>1. ASSUME NEW p \in Proc, NEW x \in Rendez, TsleepCall(p, x) PROVE OrderlyInv'
  <2> USE <1>0, <1>1 DEF TsleepCall, TSafe, TTypeOK
  <2>1. OneIntr'
    BY DEF OrderlyInv, OneIntr
  <2>2. Armed'
    BY DEF OrderlyInv, Armed, OnList, Taken
  <2> QED
    BY <2>1, <2>2 DEF OrderlyInv
<1>2. ASSUME NEW p \in Proc, timeradd(p) PROVE OrderlyInv'
  <2> USE <1>0, <1>2 DEF timeradd, TSafe, TTypeOK
  <2>1. OneIntr'
    BY DEF OrderlyInv, OneIntr
  <2>2. Armed'
    BY DEF OrderlyInv, Armed, OnList, Taken
  <2> QED
    BY <2>1, <2>2 DEF OrderlyInv
<1>3. ASSUME NEW p \in Proc, Sleep(p) PROVE OrderlyInv'
  <2> USE <1>0, <1>3 DEF Sleep, tfn, TSafe, TTypeOK
  <2>1. OneIntr'
    BY DEF OrderlyInv, OneIntr
  <2>2. Armed'
    BY DEF OrderlyInv, Armed, OnList, Taken
  <2> QED
    BY <2>1, <2>2 DEF OrderlyInv
<1>4. ASSUME NEW p \in Proc, TsleepReturn(p) \/ timerdel(p), NotOvertaken PROVE OrderlyInv'
  <2> USE <1>0, <1>4 DEF TsleepReturn, timerdel, NotOvertaken, TSafe, TTypeOK
  <2>1. OneIntr'
    BY DEF OrderlyInv, OneIntr
  <2>2. Armed'
    BY DEF OrderlyInv, Armed, OnList, Taken
  <2> QED
    BY <2>1, <2>2 DEF OrderlyInv
<1>5. ASSUME NEW p \in Proc, TNote(p) PROVE OrderlyInv'
  <2> USE <1>0, <1>5 DEF TNote, TSafe, TTypeOK
  <2>1. OneIntr'
    BY DEF OrderlyInv, OneIntr
  <2>2. Armed'
    BY DEF OrderlyInv, Armed, OnList, Taken
  <2> QED
    BY <2>1, <2>2 DEF OrderlyInv
<1>6. ASSUME NEW x \in Rendez, Event(x) PROVE OrderlyInv'
  <2> USE <1>0, <1>6 DEF Event, wakeup, TSafe, TTypeOK
  <2>1. OneIntr'
    BY DEF OrderlyInv, OneIntr
  <2>2. Armed'
    BY DEF OrderlyInv, Armed, OnList, Taken
  <2> QED
    BY <2>1, <2>2 DEF OrderlyInv
<1>7. ASSUME NEW c \in Cpu, NEW p \in Proc, timerintr(c, p) PROVE OrderlyInv'
  <2> USE <1>0, <1>7 DEF timerintr, Free, TSafe, TTypeOK
  <2>1. tpc[p] \notin {"out", "arm"} /\ timer[c] = None /\ \A d \in Cpu : timer[d] # p
    BY DEF OrderlyInv, OneIntr, NoTimerOut, IntrInv
  <2>2. OneIntr'
    BY <2>1 DEF OrderlyInv, OneIntr
  <2>3. ASSUME NEW q \in Proc \ {p}, NEW d \in Cpu
        PROVE  /\ Taken(q, d) => Taken(q, d)'
               /\ timer[d] # q => timer'[d] # q
    BY <2>1 DEF Taken
  <2>4. ASSUME NEW q \in Proc \ {p} PROVE OnList(q) => OnList(q)'
    BY DEF OnList
  <2>5. OnList(p) => Taken(p, c)'
    BY DEF OnList, Taken
  <2>6. \A d \in Cpu : ~Taken(p, d)
    BY <2>1 DEF Taken
  <2>7. Armed'
    BY <2>3, <2>4, <2>5, <2>6 DEF OrderlyInv, Armed
  <2> QED
    BY <2>2, <2>7 DEF OrderlyInv
<1>8. ASSUME NEW c \in Cpu, TwakeupRead(c) PROVE OrderlyInv'
  <2> USE <1>0, <1>8 DEF TwakeupRead, TSafe, TTypeOK
  <2>1. OneIntr'
    BY DEF OrderlyInv, OneIntr
  <2>2. Armed'
    BY DEF OrderlyInv, Armed, OnList, Taken
  <2> QED
    BY <2>1, <2>2 DEF OrderlyInv
<1>9. ASSUME NEW c \in Cpu, TwakeupClear(c) PROVE OrderlyInv'
  <2> USE <1>0, <1>9 DEF TwakeupClear, TSafe, TTypeOK
  <2>1. PICK p \in Proc : timer[c] = p
    BY DEF IntrInv
  <2>2. /\ tt[p] = None /\ tpc[p] \notin {"out", "arm"}
        /\ \A d \in Cpu : timer[d] = p => d = c
    BY <2>1 DEF OrderlyInv, OneIntr
  <2>3. OneIntr'
    BY DEF OrderlyInv, OneIntr
  <2>4. /\ trend' = [trend EXCEPT ![p] = None]
        /\ \A q \in Proc \ {p}, d \in Cpu : Taken(q, d) => Taken(q, d)'
        /\ \A q \in Proc \ {p} : OnList(q) => OnList(q)'
    BY <2>1 DEF OnList, Taken
  <2>5. /\ ~OnList(p)
        /\ \A d \in Cpu : Taken(p, d) => Taken(p, c)'
    BY <2>1, <2>2, <2>4 DEF OnList, Taken, IntrLabel
  <2>6. Armed'
    BY <2>1, <2>2, <2>4, <2>5 DEF OrderlyInv, Armed
  <2> QED
    BY <2>3, <2>6 DEF OrderlyInv
<1>10. ASSUME NEW c \in Cpu, TwakeupWake(c) PROVE OrderlyInv'
  <2> USE <1>0, <1>10 DEF TwakeupWake, TSafe, TTypeOK
  <2>1. PICK p \in Proc : timer[c] = p
    BY DEF IntrInv
  <2>2. /\ tt[p] = None /\ tpc[p] \notin {"out", "arm"}
        /\ \A d \in Cpu : timer[d] = p => d = c
    BY <2>1 DEF OrderlyInv, OneIntr
  <2>3. \A q \in Proc : \/ tpc'[q] = tpc[q] /\ (tpc[q] = "asleep" => tr[q] # towake[c] \/ towake[c] = None)
                        \/ tpc[q] = "asleep" /\ tpc'[q] = "woke"
    BY DEF wakeup
  <2>4. OneIntr'
    BY <2>3 DEF OrderlyInv, OneIntr
  <2>5. /\ \A q \in Proc \ {p}, d \in Cpu :
             (Taken(q, d) => Taken(q, d)') /\ (timer[d] # q => timer'[d] # q)
        /\ \A q \in Proc : OnList(q) => OnList(q)'
    BY <2>1 DEF OnList, Taken
  <2>6. /\ ~OnList(p)
        /\ \A d \in Cpu : timer'[d] # p
        /\ \A d \in Cpu : Taken(p, d) => towake[c] = tr[p] /\ trend[p] = None
    BY <2>1, <2>2 DEF OnList, Taken, IntrLabel
  <2>7. Armed'
    <3>1. ASSUME NEW q \in Proc PROVE tpc'[q] # "out" => tr'[q] # None
      BY <2>3 DEF OrderlyInv, Armed
    <3>2. ASSUME NEW q \in Proc PROVE tpc'[q] = "arm" => trend'[q] = tr'[q]
      BY <2>3 DEF OrderlyInv, Armed
    <3>3. ASSUME NEW q \in Proc, tpc'[q] \in {"asleep", "sleep"}, q # p
          PROVE  \/ OnList(q)' \/ \E d \in Cpu : Taken(q, d)'
                 \/ /\ tpc'[q] = "sleep"
                    /\ tt'[q] = None /\ trend'[q] = None /\ \A d \in Cpu : timer'[d] # q
      BY <2>3, <2>5, <3>3 DEF OrderlyInv, Armed
    <3>4. tpc'[p] # "asleep"
      BY <2>2, <2>3, <2>6 DEF OrderlyInv, Armed
    <3>5. tpc'[p] = "sleep" => trend'[p] = None /\ tt'[p] = None
      BY <2>2, <2>3, <2>6 DEF OrderlyInv, Armed
    <3> QED
      BY <2>6, <3>1, <3>2, <3>3, <3>4, <3>5 DEF Armed
  <2> QED
    BY <2>4, <2>7 DEF OrderlyInv
<1>11. CASE UNCHANGED tvars
  BY <1>0, <1>11 DEF tvars, OrderlyInv, OneIntr, Armed, OnList, Taken
<1> QED
  BY <1>1, <1>2, <1>3, <1>4, <1>5, <1>6, <1>7, <1>8, <1>9, <1>10, <1>11
     DEF TNext, ProcStep, Interrupt, twakeup

(* Whoever is asleep in tsleep has its timeout armed: set on a list with   *)
(* the Rendez it sleeps on, or carried by an interrupt that will wake it,  *)
(* provided that the interrupt of an earlier tsleep is over.               *)
THEOREM TsleepTimeoutArmed == TInit /\ [][TNext /\ NotOvertaken]_tvars => []TimeoutArmed
<1>1. OrderlyInv => TimeoutArmed
  BY DEF OrderlyInv, Armed, OnList, Taken, TimeoutArmed
<1> QED
  BY <1>1, OrderlyInit, OrderlyStep, PTL
=============================================================================
