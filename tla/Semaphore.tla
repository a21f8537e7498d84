------------------------------ MODULE Semaphore ------------------------------
(***************************************************************************)
(* semacquire, tsemacquire and semrelease (sys/src/9/port/sysproc.c):      *)
(* semaphores whose value lives in user memory.  The value may not be      *)
(* touched while a spin lock is held, so it is changed by compare-and-swap *)
(* and the list of waiting acquirers, under the segment's spin lock, is    *)
(* kept apart from it.  An acquirer announces itself by Sema.waiting, which *)
(* a releaser clears, without the lock on the acquirer's side, before it   *)
(* calls wakeup.                                                           *)
(*                                                                         *)
(* sleep and wakeup are the atomic operations that SleepWakeup justifies:  *)
(* sleep returns at once if its condition holds or a note is pending and   *)
(* blocks otherwise, wakeup unblocks a process that is blocked.  A         *)
(* compare-and-swap loop is one step, the one in which it succeeds or      *)
(* finds no permit.  One semaphore of one segment is modelled.             *)
(***************************************************************************)
EXTENDS Naturals, Sequences

CONSTANTS
  Proc,                \* the processes sharing the segment
  NoProc,              \* nil
  Asks,                \* the acquiring calls in use
  MaxValue             \* a bound on the value, for model checking

ASSUME NoProcAssumption == NoProc \notin Proc
ASSUME AsksAssumption == Asks \subseteq {"poll", "block", "timed"}
ASSUME MaxValueAssumption == MaxValue \in Nat

VARIABLES
  value,               \* *addr
  sema,                \* Segment.sema: who holds its lock
  list,                \* the acquirers on the segment's list, in order
  waiting,             \* Sema.waiting
  note,                \* Proc.notepending
  call,                \* the call each process makes, or what it returned
  pc,                  \* where each process is
  n,                   \* semwakeup's n: wakeups left to give
  i                    \* semwakeup's p: its place in the list

vars == <<value, sema, list, waiting, note, call, pc, n, i>>

(* idle: outside; first: before canacquire; queue: before semqueue; set,   *)
(* try, sleep, asleep, woke: semacquire's loop; dequeue, pass: after it;   *)
(* wlock, scan, wake: in semwakeup.                                        *)
Label == {"idle", "first", "queue", "set", "try", "sleep", "asleep", "woke",
          "dequeue", "pass", "wlock", "scan", "wake"}
(* semacquire(addr, 0), semacquire(addr, 1), tsemacquire(addr, ms)         *)
Request == {"poll", "block", "timed"}
(* 1, 0, -1, and what semrelease returns                                   *)
Result == {"acquired", "failed", "interrupted", "released"}

TypeOK ==
  /\ value \in 0 .. MaxValue
  /\ sema \in Proc \cup {NoProc}
  /\ list \in Seq(Proc)
  /\ waiting \in [Proc -> BOOLEAN]
  /\ note \in [Proc -> BOOLEAN]
  /\ call \in [Proc -> Request \cup Result]
  /\ pc \in [Proc -> Label]
  /\ n \in [Proc -> 0 .. MaxValue + 1]
  /\ i \in [Proc -> Nat]

Init ==
  /\ value = 0
  /\ sema = NoProc
  /\ list = <<>>
  /\ waiting = [p \in Proc |-> FALSE]
  /\ note = [p \in Proc |-> FALSE]
  /\ call = [p \in Proc |-> "released"]
  /\ pc = [p \in Proc |-> "idle"]
  /\ n = [p \in Proc |-> 0]
  /\ i = [p \in Proc |-> 1]

Goto(p, l) == pc' = [pc EXCEPT ![p] = l]
Without(s, p) ==
  LET k == CHOOSE k \in DOMAIN s : s[k] = p
  IN [j \in 1 .. Len(s) - 1 |-> IF j < k THEN s[j] ELSE s[j + 1]]

-----------------------------------------------------------------------------
(* Entry                                                                   *)

Becomes(p, c) == call' = [call EXCEPT ![p] = c]

SemAcquireCall(p) ==
  /\ pc[p] = "idle"
  /\ \E c \in Asks : Becomes(p, c)
  /\ Goto(p, "first")
  /\ UNCHANGED <<value, sema, list, waiting, note, n, i>>

(* canacquire(addr): the value is decremented if it is positive            *)
canacquire == value > 0 /\ value' = value - 1

(* the canacquire that needs no list; a poll, or a wait of 0 ms, fails     *)
SemAcquireFirst(p) ==
  /\ pc[p] = "first"
  /\ \/ canacquire /\ Becomes(p, "acquired") /\ Goto(p, "idle")
     \/ /\ value = 0
        /\ call[p] = "poll"
        /\ Becomes(p, "failed")
        /\ Goto(p, "idle")
        /\ UNCHANGED value
     \/ /\ value = 0
        /\ call[p] # "poll"
        /\ Goto(p, "queue")
        /\ UNCHANGED <<value, call>>
  /\ UNCHANGED <<sema, list, waiting, note, n, i>>

(* memset(p, 0), and onto the tail of the list                             *)
semqueue(p) ==
  /\ pc[p] = "queue"
  /\ sema = NoProc
  /\ waiting' = [waiting EXCEPT ![p] = FALSE]
  /\ list' = Append(list, p)
  /\ Goto(p, "set")
  /\ UNCHANGED <<value, sema, note, call, n, i>>

-----------------------------------------------------------------------------
(* semacquire's loop                                                       *)

SetWaiting(p) ==
  /\ pc[p] = "set"
  /\ waiting' = [waiting EXCEPT ![p] = TRUE]
  /\ Goto(p, "try")
  /\ UNCHANGED <<value, sema, list, note, call, n, i>>

TryAgain(p) ==
  /\ pc[p] = "try"
  /\ \/ canacquire /\ Becomes(p, "acquired") /\ Goto(p, "dequeue")
     \/ value = 0 /\ Goto(p, "sleep") /\ UNCHANGED <<value, call>>
  /\ UNCHANGED <<sema, list, waiting, note, n, i>>

(* sleep(&phore, semawoke, &phore)                                         *)
Sleep(p) ==
  /\ pc[p] = "sleep"
  /\ Goto(p, IF ~waiting[p] \/ note[p] THEN "woke" ELSE "asleep")
  /\ UNCHANGED <<value, sema, list, waiting, note, call, n, i>>

(* the timer of a tsleep                                                   *)
TimerWakes(p) ==
  /\ pc[p] = "asleep"
  /\ call[p] = "timed"
  /\ Goto(p, "woke")
  /\ UNCHANGED <<value, sema, list, waiting, note, call, n, i>>

(* a note, which also unblocks a sleeper (outside the loop it makes no     *)
(* difference: it is delivered when the system call returns)               *)
PostNote(p) ==
  /\ pc[p] \in {"set", "try", "sleep", "asleep", "woke"}
  /\ ~note[p]
  /\ note' = [note EXCEPT ![p] = TRUE]
  /\ Goto(p, IF pc[p] = "asleep" THEN "woke" ELSE pc[p])
  /\ UNCHANGED <<value, sema, list, waiting, call, n, i>>

(* Mutant of SleepReturn: a wakeup is taken for a permit.                  *)
SleepReturnTrusting(p) ==
  /\ pc[p] = "woke"
  /\ note' = [note EXCEPT ![p] = FALSE]
  /\ Becomes(p, IF note[p] THEN "interrupted" ELSE "acquired")
  /\ Goto(p, "dequeue")
  /\ UNCHANGED <<value, sema, list, waiting, n, i>>

(* sleep returns, with an error if a note is pending; tsemacquire may find *)
(* that its time is over, whatever woke it                                 *)
SleepReturn(p) ==
  /\ pc[p] = "woke"
  /\ note' = [note EXCEPT ![p] = FALSE]
  /\ \/ /\ note[p]
        /\ Becomes(p, "interrupted")
        /\ Goto(p, "dequeue")
     \/ /\ ~note[p]
        /\ call[p] = "timed"
        /\ Becomes(p, "failed")
        /\ Goto(p, "dequeue")
     \/ ~note[p] /\ Goto(p, "set") /\ UNCHANGED call
  /\ UNCHANGED <<value, sema, list, waiting, n, i>>

(* off the list; a note still pending will be delivered on the way out     *)
semdequeue(p) ==
  /\ pc[p] = "dequeue"
  /\ sema = NoProc
  /\ list' = Without(list, p)
  /\ note' = [note EXCEPT ![p] = FALSE]
  /\ Goto(p, "pass")
  /\ UNCHANGED <<value, sema, waiting, call, n, i>>

(* Mutant of PassOn: the wakeup is not passed on.                          *)
PassOnForgets(p) ==
  /\ pc[p] = "pass"
  /\ Goto(p, "idle")
  /\ waiting' = [waiting EXCEPT ![p] = FALSE]
  /\ UNCHANGED <<value, sema, list, note, call, n, i>>

(* a wakeup that came and was not needed is passed on; the Sema, on the    *)
(* acquirer's stack, goes out of use                                       *)
PassOn(p) ==
  /\ pc[p] = "pass"
  /\ IF waiting[p]
       THEN Goto(p, "idle") /\ UNCHANGED n
       ELSE Goto(p, "wlock") /\ n' = [n EXCEPT ![p] = 1]
  /\ waiting' = [waiting EXCEPT ![p] = FALSE]
  /\ UNCHANGED <<value, sema, list, note, call, i>>

-----------------------------------------------------------------------------
(* semrelease(s, addr, delta): raise the value, then semwakeup(delta)      *)

SemRelease(p) ==
  /\ pc[p] = "idle"
  /\ \E delta \in 1 .. MaxValue - value :
       value' = value + delta /\ n' = [n EXCEPT ![p] = delta]
  /\ Becomes(p, "released")
  /\ Goto(p, "wlock")
  /\ UNCHANGED <<sema, list, waiting, note, i>>

semwakeup(p) ==
  /\ pc[p] = "wlock"
  /\ sema = NoProc
  /\ sema' = p
  /\ i' = [i EXCEPT ![p] = 1]
  /\ Goto(p, "scan")
  /\ UNCHANGED <<value, list, waiting, note, call, n>>

(* the loop: the next on the list that waits is claimed by clearing waiting *)
Scan(p) ==
  /\ pc[p] = "scan"
  /\ i[p] \in DOMAIN list
  /\ n[p] > 0
  /\ IF waiting[list[i[p]]]
       THEN /\ waiting' = [waiting EXCEPT ![list[i[p]]] = FALSE]
            /\ Goto(p, "wake")
            /\ UNCHANGED i
       ELSE /\ i' = [i EXCEPT ![p] = @ + 1]
            /\ UNCHANGED <<waiting, pc>>
  /\ UNCHANGED <<value, sema, list, note, call, n>>

(* wakeup(p)                                                               *)
Wakeup(p) ==
  LET q == list[i[p]] IN
  /\ pc[p] = "wake"
  /\ pc' = [pc EXCEPT ![p] = "scan", ![q] = IF @ = "asleep" THEN "woke" ELSE @]
  /\ n' = [n EXCEPT ![p] = @ - 1]
  /\ i' = [i EXCEPT ![p] = @ + 1]
  /\ UNCHANGED <<value, sema, list, waiting, note, call>>

ScanDone(p) ==
  /\ pc[p] = "scan"
  /\ i[p] \notin DOMAIN list \/ n[p] = 0
  /\ sema' = NoProc
  /\ n' = [n EXCEPT ![p] = 0]
  /\ i' = [i EXCEPT ![p] = 1]
  /\ Goto(p, "idle")
  /\ UNCHANGED <<value, list, waiting, note, call>>

-----------------------------------------------------------------------------
Step(p) ==
  \/ SemAcquireFirst(p) \/ semqueue(p)
  \/ SetWaiting(p) \/ TryAgain(p) \/ Sleep(p) \/ SleepReturn(p)
  \/ semdequeue(p) \/ PassOn(p)
  \/ semwakeup(p) \/ Scan(p) \/ Wakeup(p) \/ ScanDone(p)

Next ==
  \E p \in Proc :
    \/ SemAcquireCall(p) \/ SemRelease(p)
    \/ TimerWakes(p) \/ PostNote(p)
    \/ Step(p)

Spec == Init /\ [][Next]_vars

(* A process in the kernel executes and gets the spin lock in its turn, a  *)
(* timer goes off; nobody has to call or to send a note.                   *)
Fairness == \A p \in Proc : SF_vars(Step(p)) /\ WF_vars(TimerWakes(p))

FairSpec == Spec /\ Fairness

-----------------------------------------------------------------------------
(* Properties                                                              *)

Asleep(p) == pc[p] = "asleep"

(* Nobody sleeps beside a free permit for good: if the value is positive   *)
(* and somebody is asleep, a process that will look at the semaphore again *)
(* or pass a wakeup on is still on its way.                                *)
NoMissedWakeup ==
  value > 0 /\ (\E p \in Proc : Asleep(p)) =>
    \E q \in Proc :
      \/ pc[q] \in {"set", "try", "woke"}
      \/ pc[q] \in {"sleep", "dequeue", "pass"} /\ ~waiting[q]
      \/ pc[q] \in {"wlock", "scan", "wake"} /\ n[q] > 0

(* A wakeup is never lost on the way: an acquirer whose waiting has been   *)
(* cleared is not asleep, unless the wakeup that goes with it is the next  *)
(* thing a releaser does, the acquirer's Sema, which is on its stack, being*)
(* still on the list.                                                      *)
ClearedIsWoken ==
  /\ \A p \in Proc : Asleep(p) /\ ~waiting[p] =>
       \E q \in Proc : pc[q] = "wake" /\ list[i[q]] = p
  /\ \A q \in Proc : pc[q] = "wake" => i[q] \in DOMAIN list

(* Together: no wakeup is missed or lost between a release and an acquirer *)
(* (sysproc.c:950-966, 1015-1034), in states of their types.               *)
WakeupsArrive == TypeOK /\ NoMissedWakeup /\ ClearedIsWoken

(* semacquire and semrelease implement the atomic semaphore: no permit is  *)
(* made or lost, a failure is reported only for its proper reason.         *)
Abs == INSTANCE SemaphoreSpec

ImplementsSemaphore == Abs!Spec

(* And while there is a permit, somebody who wants it is answered, however *)
(* the wakeups are given, passed on, timed out and interrupted.            *)
PermitIsUsed == Abs!FairSpec

=============================================================================
