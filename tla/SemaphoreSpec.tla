--------------------------- MODULE SemaphoreSpec ---------------------------
(***************************************************************************)
(* What semacquire(2) promises: each call takes effect in one step, as if  *)
(* the value were decremented or increased atomically.  A poll fails only  *)
(* when there is no permit, only a tsemacquire times out, and while there  *)
(* is a permit somebody who wants it is answered.                          *)
(***************************************************************************)
EXTENDS Naturals

CONSTANT Proc

VARIABLES
  value,               \* the semaphore
  call                 \* what each process asks for, or what it was answered

vars == <<value, call>>

Request == {"poll", "block", "timed"}
Result == {"acquired", "failed", "interrupted", "released"}

Init ==
  /\ value = 0
  /\ call = [p \in Proc |-> "released"]

Answer(p, a) == call[p] \in Request /\ call' = [call EXCEPT ![p] = a]

Ask(p) ==
  /\ call[p] \in Result
  /\ \E c \in Request : call' = [call EXCEPT ![p] = c]
  /\ UNCHANGED value

Release(p) ==
  /\ call[p] \in Result
  /\ value' > value
  /\ call' = [call EXCEPT ![p] = "released"]

Acquire(p) ==
  /\ value > 0
  /\ value' = value - 1
  /\ Answer(p, "acquired")

Fail(p) ==
  /\ call[p] = "poll" => value = 0
  /\ call[p] # "block"
  /\ Answer(p, "failed")
  /\ UNCHANGED value

Interrupt(p) ==
  /\ call[p] # "poll"
  /\ Answer(p, "interrupted")
  /\ UNCHANGED value

Next == \E p \in Proc :
  Ask(p) \/ Release(p) \/ Acquire(p) \/ Fail(p) \/ Interrupt(p)

Spec == Init /\ [][Next]_vars

PermitUsed == value > 0 /\ \E p \in Proc : Acquire(p) \/ Fail(p) \/ Interrupt(p)

FairSpec == Spec /\ WF_vars(PermitUsed)
=============================================================================
