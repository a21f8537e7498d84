------------------------------- MODULE Tsleep -------------------------------
(***************************************************************************)
(* tsleep, tfn and twakeup (sys/src/9/port/proc.c) over the timers of      *)
(* sys/src/9/port/portclock.c: a sleep with a timeout.  The timer of a     *)
(* process is part of its Proc and is used again by its next tsleep.  The  *)
(* timer interrupt takes a due timer off its processor's list, releases    *)
(* the list and only then calls the timer's function, twakeup, which reads *)
(* Proc.trend, clears it and wakes what it read; nothing makes the process *)
(* wait for that.                                                          *)
(*                                                                         *)
(* sleep and wakeup are the atomic operations that SleepWakeup justifies.  *)
(* Any timer on a list may be due.  All timers modelled are those of       *)
(* tsleep, which are relative ones.                                        *)
(***************************************************************************)
EXTENDS Sleepers

CONSTANT Cpu           \* the processors, each with a list of timers

ASSUME CpuAssumption == None \notin Cpu

VARIABLES
  tpc,                 \* where each process is
  tr,                  \* tsleep's r
  tcond,               \* what tsleep's fn tests, for each Rendez
  note,                \* Proc.notepending
  tt,                  \* Timer.tt of Proc: the list that holds its timer
  trend,               \* Proc.trend
  ipc,                 \* where each processor's timer interrupt is
  timer,               \* timerintr's t: the process it is about
  towake               \* twakeup's trend

procvars == <<tpc, tr, tcond, note>>
timervars == <<tt, trend>>
intrvars == <<ipc, timer, towake>>
tvars == <<procvars, timervars, intrvars>>

TLabel == {"out", "arm", "sleep", "asleep", "woke", "del"}
IntrLabel == {"off", "read", "clear", "wake"}

TTypeOK ==
  /\ tpc \in [Proc -> TLabel]
  /\ tr \in [Proc -> Rendez \cup {None}]
  /\ tcond \in [Rendez -> BOOLEAN]
  /\ note \in [Proc -> BOOLEAN]
  /\ tt \in [Proc -> Cpu \cup {None}]
  /\ trend \in [Proc -> Rendez \cup {None}]
  /\ ipc \in [Cpu -> IntrLabel]
  /\ timer \in [Cpu -> Proc \cup {None}]
  /\ towake \in [Cpu -> Rendez \cup {None}]

TInit ==
  /\ tpc = [p \in Proc |-> "out"]
  /\ tr = [p \in Proc |-> None]
  /\ tcond = [x \in Rendez |-> FALSE]
  /\ note = [p \in Proc |-> FALSE]
  /\ tt = [p \in Proc |-> None]
  /\ trend = [p \in Proc |-> None]
  /\ ipc = [c \in Cpu |-> "off"]
  /\ timer = [c \in Cpu |-> None]
  /\ towake = [c \in Cpu |-> None]

TGoto(p, l) == tpc' = [tpc EXCEPT ![p] = l]
IGoto(c, l) == ipc' = [ipc EXCEPT ![c] = l]

(* wakeup(x) as a function of tpc: who is asleep on x goes on              *)
wakeup(x) == [p \in Proc |->
  IF tpc[p] = "asleep" /\ tr[p] = x THEN "woke" ELSE tpc[p]]

(* a processor in its timer interrupt executes no process                  *)
Free(c) == ipc[c] = "off"
SomeFree == \E c \in Cpu : Free(c)

-----------------------------------------------------------------------------
(* tsleep.  A Rendez has one sleeper at a time; its event may have been    *)
(* consumed before.  A timer found active is removed.                      *)
TsleepCall(p, x) ==
  /\ tpc[p] = "out"
  /\ SomeFree
  /\ \A q \in Proc : tpc[q] # "out" => tr[q] # x
  /\ \E consumed \in BOOLEAN : tcond' = [tcond EXCEPT ![x] = @ /\ ~consumed]
  /\ tr' = [tr EXCEPT ![p] = x]
  /\ trend' = [trend EXCEPT ![p] = x]
  /\ tt' = [tt EXCEPT ![p] = None]
  /\ TGoto(p, "arm")
  /\ UNCHANGED <<note, intrvars>>

(* timeradd(up): onto the list of the processor p runs on                  *)
timeradd(p) ==
  /\ tpc[p] = "arm"
  /\ \E c \in Cpu : Free(c) /\ tt' = [tt EXCEPT ![p] = c]
  /\ TGoto(p, "sleep")
  /\ UNCHANGED <<tr, tcond, note, trend, intrvars>>

(* Mutant of tfn: a timeout that came before the sleep is overlooked.      *)
tfnCond(p) == tcond[tr[p]]

tfn(p) == trend[p] = None \/ tcond[tr[p]]

(* sleep(r, tfn, arg)                                                      *)
Sleep(p) ==
  /\ tpc[p] = "sleep"
  /\ SomeFree
  /\ TGoto(p, IF tfn(p) \/ note[p] THEN "woke" ELSE "asleep")
  /\ UNCHANGED <<tr, tcond, note, timervars, intrvars>>

(* Out of sleep.  A note makes it an error, whose handler calls timerdel   *)
(* whatever up->tt is; else up->tt is tested, with no lock held, and an    *)
(* inactive timer is left alone, its interrupt over or not.                *)
TsleepReturn(p) ==
  /\ tpc[p] = "woke"
  /\ SomeFree
  /\ note' = [note EXCEPT ![p] = FALSE]
  /\ IF note[p] \/ tt[p] # None
       THEN /\ TGoto(p, "del")
            /\ UNCHANGED tr
       ELSE /\ TGoto(p, "out")
            /\ tr' = [tr EXCEPT ![p] = None]
  /\ UNCHANGED <<tcond, timervars, intrvars>>

(* timerdel(up): under the locks of the timer and of its list, if it is    *)
(* still on one                                                            *)
timerdel(p) ==
  /\ tpc[p] = "del"
  /\ SomeFree
  /\ tt' = [tt EXCEPT ![p] = None]
  /\ tr' = [tr EXCEPT ![p] = None]
  /\ TGoto(p, "out")
  /\ UNCHANGED <<tcond, note, trend, intrvars>>

(* What else wakes a sleeper: the event, and a note.                       *)
Event(x) ==
  /\ ~tcond[x]
  /\ tcond' = [tcond EXCEPT ![x] = TRUE]
  /\ tpc' = wakeup(x)
  /\ UNCHANGED <<tr, note, timervars, intrvars>>

TNote(p) ==
  /\ tpc[p] \in {"sleep", "asleep"}
  /\ ~note[p]
  /\ note' = [note EXCEPT ![p] = TRUE]
  /\ TGoto(p, IF tpc[p] = "asleep" THEN "woke" ELSE tpc[p])
  /\ UNCHANGED <<tr, tcond, timervars, intrvars>>

-----------------------------------------------------------------------------
(* timerintr: the timer leaves the list, then its function is called       *)
timerintr(c, p) ==
  /\ Free(c)
  /\ tt[p] = c
  /\ tt' = [tt EXCEPT ![p] = None]
  /\ timer' = [timer EXCEPT ![c] = p]
  /\ IGoto(c, "read")
  /\ UNCHANGED <<procvars, trend, towake>>

(* twakeup: trend = p->trend                                               *)
TwakeupRead(c) ==
  /\ ipc[c] = "read"
  /\ towake' = [towake EXCEPT ![c] = trend[timer[c]]]
  /\ IGoto(c, "clear")
  /\ UNCHANGED <<procvars, timervars, timer>>

(* p->trend = 0                                                            *)
TwakeupClear(c) ==
  /\ ipc[c] = "clear"
  /\ trend' = [trend EXCEPT ![timer[c]] = None]
  /\ IGoto(c, "wake")
  /\ UNCHANGED <<procvars, tt, timer, towake>>

(* if(trend) wakeup(trend)                                                 *)
TwakeupWake(c) ==
  /\ ipc[c] = "wake"
  /\ tpc' = IF towake[c] = None THEN tpc ELSE wakeup(towake[c])
  /\ towake' = [towake EXCEPT ![c] = None]
  /\ timer' = [timer EXCEPT ![c] = None]
  /\ IGoto(c, "off")
  /\ UNCHANGED <<tr, tcond, note, timervars>>

-----------------------------------------------------------------------------
ProcStep(p) == timeradd(p) \/ Sleep(p) \/ TsleepReturn(p) \/ timerdel(p)
Interrupt(c) == \E p \in Proc : timerintr(c, p)
twakeup(c) == TwakeupRead(c) \/ TwakeupClear(c) \/ TwakeupWake(c)

TNext ==
  \/ \E p \in Proc : (\E x \in Rendez : TsleepCall(p, x)) \/ ProcStep(p) \/ TNote(p)
  \/ \E x \in Rendez : Event(x)
  \/ \E c \in Cpu : Interrupt(c) \/ twakeup(c)

TSpec == TInit /\ [][TNext]_tvars

(* Processes execute; a timer that stays on its list becomes due, and the  *)
(* interrupt that takes it comes to its end.                               *)
TFairness ==
  /\ \A p \in Proc : WF_tvars(ProcStep(p))
  /\ \A c \in Cpu : WF_tvars(twakeup(c))
  /\ \A c \in Cpu, p \in Proc : SF_tvars(timerintr(c, p))

TFairSpec == TSpec /\ TFairness

(* The usual case: a process does not leave tsleep while the interrupt     *)
(* that took its timer off the list is still in twakeup.                   *)
NotOvertaken ==
  \A p \in Proc :
    tpc[p] \in {"woke", "del"} /\ tpc'[p] = "out" => \A c \in Cpu : timer[c] # p

OrderlySpec == TInit /\ [][TNext /\ NotOvertaken]_tvars /\ TFairness

-----------------------------------------------------------------------------
(* Properties                                                              *)

(* A process asleep in tsleep is going to be woken: its timer is on a list *)
(* with trend set, or an interrupt is about to wake what it sleeps on.     *)
(* Holds of OrderlySpec only: a late twakeup clears the next tsleep's      *)
(* trend.                                                                  *)
TimeoutArmed ==
  \A p \in Proc : tpc[p] = "asleep" =>
    \/ tt[p] # None /\ trend[p] = tr[p]
    \/ \E c \in Cpu :
         \/ ipc[c] = "read" /\ timer[c] = p /\ trend[p] = tr[p]
         \/ ipc[c] \in {"clear", "wake"} /\ towake[c] = tr[p]

(* "If nothing else wakes it within ms milliseconds, the system will wake  *)
(* it" (sleep(9)).  Holds of OrderlySpec, not of TFairSpec.                *)
TimesOut == \A p \in Proc : tpc[p] = "asleep" ~> tpc[p] # "asleep"

=============================================================================
