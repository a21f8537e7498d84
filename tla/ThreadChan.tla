----------------------------- MODULE ThreadChan -----------------------------
(***************************************************************************)
(* Channels of the thread library (sys/src/libthread/channel.c, rendez.c,  *)
(* kill.c): alt, and so send and recv, chanclose, chanfree and threadint.  *)
(*                                                                         *)
(* A thread that cannot proceed puts entries of its Alt array on channels  *)
(* and waits in a rendezvous on the address of its variable c, here the    *)
(* thread itself.  Whoever serves it first sets c, under chanlock, which   *)
(* commits both, and then meets it in the rendezvous, in which either may  *)
(* be the first, and either may be interrupted.                            *)
(*                                                                         *)
(* A section under chanlock is a step, and so is one under the lock of the *)
(* rendezvous group; a thread is interleaved with all others, as if it had *)
(* a proc to itself.  In finish, spinning until the partner is off its     *)
(* processor is part of the step.                                          *)
(***************************************************************************)
EXTENDS Integers, Sequences, FiniteSets, SequencesExt, FiniteSetsExt

CONSTANTS
  Thread, Chan, Nil,
  Size,                \* of each channel, elements it holds
  Caller,              \* bound: the threads that may make each call
  Arrays,              \* bound: the Alt arrays, sequences of [op, c]
  MaxCalls,            \* bound: calls of alt
  MaxInts              \* bound: calls of threadint

Entry == [op : {"SND", "RCV"}, c : Chan]

ASSUME SizeAssumption == Size \in [Chan -> Nat]
ASSUME ArraysAssumption == Arrays \subseteq Seq(Entry)
ASSUME BoundAssumption ==
  /\ MaxCalls \in Nat /\ MaxInts \in Nat
  /\ Caller \in [1..MaxCalls -> SUBSET Thread]

VARIABLES
  buf, closed,         \* the values held, c->closed
  freed,               \* the channels with c->freed
  gone,                \* the channels whose memory was freed
  qentry,              \* c->qentry, entries <<thread, index>> and Nil
  req,                 \* alt's array, CHANNOBLK, errors set, and value to send
  tag,                 \* the variable c of alt
  got,                 \* the value received
  a,                   \* the entry that alt chose
  pc,                  \* where the thread is
  on,                  \* the thread at whose tag it is, or will be
  closing, next,       \* chanclose's channel and i
  rendval,             \* what its partner in the rendezvous gave it
  rendbreak,           \* the threads asleep that were interrupted
  ret,                 \* history: what the last step returned, to whom
  calls, ints          \* counters of the bounds

chanvars == <<buf, closed, freed, gone, qentry>>
altvars == <<req, tag, got, a>>
closevars == <<closing, next>>
rendvars == <<rendval, rendbreak>>
bounds == <<calls, ints>>
vars == <<chanvars, altvars, pc, on, closevars, rendvars, ret, bounds>>

Value == 1..MaxCalls
Index == {0} \cup UNION {1..Len(x) + 1 : x \in Arrays}
Request ==
  {r \in [alts : Arrays, nb : BOOLEAN, known : SUBSET Index] :
     r.known \subseteq DOMAIN r.alts /\ (r.nb => r.known = {})}
Frame == [call : Request, val : Value]
Intred == "Intred"
Result(i, err, v) == [i |-> i, err |-> err, v |-> v]
None == Result(0, FALSE, 0)
Outcomes == [i : Index, err : BOOLEAN, v : {0} \cup Value]
Slot == (Thread \X Index) \cup {Nil}

ASSUME NilAssumption ==
  Nil \notin Thread \cup Chan \cup (Thread \X Nat) \cup Frame \cup Outcomes

TypeOK ==
  /\ buf \in [Chan -> Seq(Value)] /\ \A c \in Chan : Len(buf[c]) <= Size[c]
  /\ closed \in [Chan -> 0..2] /\ freed \subseteq Chan /\ gone \subseteq freed
  /\ qentry \in [Chan -> Seq(Slot)]
  /\ req \in [Thread -> Frame \cup {Nil}]
  /\ tag \in [Thread -> Chan \cup {Nil}]
  /\ got \in [Thread -> {0} \cup Value] /\ a \in [Thread -> Index]
  /\ pc \in [Thread -> {"idle", "rendez", "asleep", "back"}]
  /\ on \in [Thread -> Thread \cup {Nil}]
  /\ closing \in [Thread -> Chan \cup {Nil}] /\ next \in [Thread -> Nat]
  /\ rendval \in [Thread -> {"met", "Closed", Intred}]
  /\ rendbreak \subseteq Thread
  /\ ret \in (Thread \X Outcomes) \cup {Nil}
  /\ calls \in 0..MaxCalls /\ ints \in 0..MaxInts

Init ==
  /\ buf = [c \in Chan |-> <<>>] /\ closed = [c \in Chan |-> 0]
  /\ freed = {} /\ gone = {} /\ qentry = [c \in Chan |-> <<>>]
  /\ req = [t \in Thread |-> Nil] /\ tag = [t \in Thread |-> Nil]
  /\ got = [t \in Thread |-> 0] /\ a = [t \in Thread |-> 0]
  /\ pc = [t \in Thread |-> "idle"] /\ on = [t \in Thread |-> Nil]
  /\ closing = [t \in Thread |-> Nil] /\ next = [t \in Thread |-> 1]
  /\ rendval = [t \in Thread |-> "met"] /\ rendbreak = {}
  /\ ret = Nil
  /\ calls = 0 /\ ints = 0

Go(t, place) == pc' = [pc EXCEPT ![t] = place]
(* To the rendezvous on u's tag                                            *)
GoMeet(t, u) == Go(t, "rendez") /\ on' = [on EXCEPT ![t] = u]

(* The array of t's call, and the entry of one that w points to            *)
Alts(t) == req[t].call.alts
Alt(w) == Alts(w[1])[w[2]]
Entries(c) == Range(qentry[c]) \ {Nil}

Waits(t) == on[t] = t                   \* enqueued, in or around its wait

(* alt returns, and its variables are gone.                                *)
Return(t, result) ==
  /\ ret' = <<t, result>>
  /\ req' = [req EXCEPT ![t] = Nil] /\ tag' = [tag EXCEPT ![t] = Nil]
  /\ got' = [got EXCEPT ![t] = 0] /\ a' = [a EXCEPT ![t] = 0]
  /\ Go(t, "idle") /\ on' = [on EXCEPT ![t] = Nil]
-----------------------------------------------------------------------------
isopenfor(e) == closed[e.c] = 0 \/ (e.op = "RCV" /\ buf[e.c] # <<>>)

(* The entries blocked on e's channel in the other operation               *)
Blocked(e) == {w \in Entries(e.c) : Alt(w).op # e.op /\ tag[w[1]] = Nil}

canexec(e) ==
  \/ Blocked(e) # {}
  \/ e.op = "SND" /\ Len(buf[e.c]) < Size[e.c]
  \/ e.op = "RCV" /\ buf[e.c] # <<>>

(* altexec with a blocked entry w: pass the value, or, where the channel   *)
(* holds some, take the first of these and put w's at the end; commit, and *)
(* go to the rendezvous.                                                   *)
Partner(t, r, i, w) ==
  LET e == r.alts[i]
      u == w[1]
      q == Append(buf[e.c], req[u].val)
  IN
  /\ IF e.op = "RCV"
     THEN /\ got' = [got EXCEPT ![t] = Head(q)]
          /\ buf' = [buf EXCEPT ![e.c] = Tail(q)]
     ELSE got' = [got EXCEPT ![u] = calls + 1] /\ UNCHANGED buf
  /\ tag' = [tag EXCEPT ![u] = e.c]
  /\ req' = [req EXCEPT ![t] = [call |-> r, val |-> calls + 1]]
  /\ a' = [a EXCEPT ![t] = i]
  /\ GoMeet(t, u)
  /\ ret' = Nil

(* ... with the channel's buffer                                           *)
Buffered(t, r, i) ==
  LET c == r.alts[i].c IN
  IF r.alts[i].op = "RCV"
  THEN /\ buf' = [buf EXCEPT ![c] = Tail(@)]
       /\ Return(t, Result(i, FALSE, Head(buf[c])))
  ELSE /\ buf' = [buf EXCEPT ![c] = Append(@, calls + 1)]
       /\ Return(t, Result(i, FALSE, 0))

altexec(t, r, i) ==
  LET B == Blocked(r.alts[i]) IN
  /\ IF B # {} THEN \E w \in B : Partner(t, r, i, w) ELSE Buffered(t, r, i)
  /\ UNCHANGED qentry

(* emptyentry: w goes to the first empty slot                              *)
Put(q, w) ==
  LET empty == {i \in DOMAIN q : q[i] = Nil} IN
  IF empty = {} THEN Append(q, w) ELSE [q EXCEPT ![Min(empty)] = w]

(* alt's loop over its array of n, which enqueues the entries in K         *)
Puts(q, t, K, n) ==
  LET put[i \in 0..n] ==
        IF i = 0 THEN q
        ELSE IF i \in K THEN Put(put[i - 1], <<t, i>>) ELSE put[i - 1]
  IN put[n]

enqueue(t, r, open) ==
  qentry' = [c \in Chan |->
    Puts(qentry[c], t, {i \in open : r.alts[i].c = c}, Len(r.alts))]

(* Nothing can proceed: give up, fail on closed channels, or enqueue       *)
Nothing(t, r, open) ==
  LET unknown == DOMAIN r.alts \ r.known IN
  /\ IF r.nb
     THEN Return(t, Result(Len(r.alts) + 1, FALSE, 0)) /\ UNCHANGED qentry
     ELSE IF open = {}
     THEN /\ Return(t, IF unknown = {} THEN None
                       ELSE Result(Max(unknown), TRUE, 0))
          /\ UNCHANGED qentry
     ELSE /\ enqueue(t, r, open) /\ GoMeet(t, t)
          /\ req' = [req EXCEPT ![t] = [call |-> r, val |-> calls + 1]]
          /\ ret' = Nil /\ UNCHANGED <<tag, got, a>>
  /\ UNCHANGED buf

(* alt up to its wait.  r.known are the entries whose err says, from an    *)
(* earlier call, that the channel is closed.  A channel is not named again *)
(* once chanfree was called.                                               *)
alt(t, r) ==
  LET open == {i \in DOMAIN r.alts : isopenfor(r.alts[i])}
      can == {i \in open : canexec(r.alts[i])}
  IN
  /\ calls' = calls + 1
  /\ r.known \cap open = {}
  /\ \A i \in DOMAIN r.alts : r.alts[i].c \notin freed
  /\ IF can # {} THEN \E i \in can : altexec(t, r, i) ELSE Nothing(t, r, open)
  /\ UNCHANGED <<closed, freed, gone, closevars, rendvars, ints>>
-----------------------------------------------------------------------------
(* _threadrendezvous: meet a thread asleep at the tag, or sleep there      *)
Offer(t) == IF closing[t] # Nil THEN "Closed" ELSE "met"

Rendezvous(t) ==
  LET W == {w \in Thread : pc[w] = "asleep" /\ on[w] = on[t]} IN
  /\ pc[t] = "rendez"
  /\ \/ \E w \in W :
          /\ pc' = [pc EXCEPT ![w] = "back", ![t] = "back"]
          /\ rendval' = [rendval EXCEPT ![w] = Offer(t), ![t] = Offer(w)]
          /\ rendbreak' = rendbreak \ {w}
     \/ W = {} /\ Go(t, "asleep") /\ UNCHANGED rendvars
  /\ ret' = Nil
  /\ UNCHANGED <<chanvars, altvars, on, closevars, bounds>>

(* threadint of a thread blocked in a rendezvous flags it ...              *)
threadint(t) ==
  /\ pc[t] = "asleep" /\ t \notin rendbreak
  /\ ints < MaxInts /\ ints' = ints + 1
  /\ rendbreak' = rendbreak \cup {t}
  /\ ret' = Nil
  /\ UNCHANGED <<chanvars, altvars, pc, on, closevars, rendval, calls>>

(* ... and breaks all that are flagged.                                    *)
_threadbreakrendez ==
  /\ rendbreak # {}
  /\ pc' = [t \in Thread |-> IF t \in rendbreak THEN "back" ELSE pc[t]]
  /\ rendval' = [t \in Thread |-> IF t \in rendbreak THEN Intred
                                                     ELSE rendval[t]]
  /\ rendbreak' = {}
  /\ ret' = Nil
  /\ UNCHANGED <<chanvars, altvars, on, closevars, bounds>>

(* Mutant of Retry: once interrupted, go on                                *)
RetryNever(t) ==
  /\ pc[t] = "back" /\ ~Waits(t) /\ rendval[t] = Intred
  /\ rendval' = [rendval EXCEPT ![t] = "met"]
  /\ ret' = Nil
  /\ UNCHANGED <<chanvars, altvars, pc, on, closevars, rendbreak, bounds>>

(* The partner of an alt, and chanclose, do not take no for an answer.     *)
Retry(t) ==
  /\ pc[t] = "back" /\ ~Waits(t) /\ rendval[t] = Intred
  /\ Go(t, "rendez")
  /\ ret' = Nil
  /\ UNCHANGED <<chanvars, altvars, on, closevars, rendvars, bounds>>

(* altexec's caller returns.                                               *)
Met(t) ==
  /\ pc[t] = "back" /\ ~Waits(t) /\ closing[t] = Nil /\ rendval[t] # Intred
  /\ Return(t, Result(a[t], FALSE, got[t]))
  /\ UNCHANGED <<chanvars, closevars, rendvars, bounds>>

(* Mutant of Meant: an interrupted alt returns, met or not                 *)
MeantNever(t) == pc[t] = "idle"

(* Will somebody meet it?                                                  *)
Meant(t) == tag[t] # Nil

(* A waiting alt that was interrupted goes back if somebody will meet it,  *)
Again(t) ==
  /\ pc[t] = "back" /\ Waits(t) /\ rendval[t] = Intred /\ Meant(t)
  /\ Go(t, "rendez")
  /\ ret' = Nil
  /\ UNCHANGED <<chanvars, altvars, on, closevars, rendvars, bounds>>

(* dequeue: t's entries off every channel; the last one off frees a        *)
(* channel that is freed and not being closed.                             *)
Without(t, q) == [i \in DOMAIN q |-> IF q[i] # Nil /\ q[i][1] = t THEN Nil
                                                                  ELSE q[i]]
dequeue(t) ==
  /\ qentry' = [c \in Chan |-> Without(t, qentry[c])]
  /\ gone' = gone \cup
       {c \in freed : /\ qentry'[c] # qentry[c] /\ closed[c] # 1
                      /\ Range(qentry'[c]) \subseteq {Nil}}
  /\ UNCHANGED <<buf, closed, freed>>

(* ... and else returns.                                                   *)
Interrupted(t) ==
  /\ pc[t] = "back" /\ Waits(t) /\ rendval[t] = Intred /\ ~Meant(t)
  /\ dequeue(t)
  /\ Return(t, None)
  /\ UNCHANGED <<closevars, rendvars, bounds>>

(* Of several entries for the channel that tag names, the last counts.     *)
Chosen(t) == Max({i \in DOMAIN Alts(t) : Alts(t)[i].c = tag[t]})

Chose(t) ==
  /\ pc[t] = "back" /\ Waits(t) /\ rendval[t] # Intred
  /\ dequeue(t)
  /\ Return(t, Result(Chosen(t), rendval[t] = "Closed", got[t]))
  /\ UNCHANGED <<closevars, rendvars, bounds>>
-----------------------------------------------------------------------------
(* The entries that a close wakes: senders, and receivers of an empty      *)
(* channel                                                                 *)
Fails(w) == Alt(w).op = "SND" \/ buf[Alt(w).c] = <<>>

(* Mutant of _chanfree: an ongoing close does not count                    *)
_chanfreeClosing(c) == Entries(c) = {}

(* Is the channel not in use?                                              *)
_chanfree(c) == closed[c] # 1 /\ Entries(c) = {}

(* chanclose from slot n on, up to the next entry that it wakes: commit    *)
(* it and drop the lock; or the end                                        *)
CloseFrom(t, c, n) ==
  LET wakes == {i \in DOMAIN qentry[c] :
                  LET w == qentry[c][i] IN
                  i >= n /\ w # Nil /\ tag[w[1]] = Nil /\ Fails(w)}
      u == qentry[c][Min(wakes)][1]
  IN
  /\ IF wakes # {}
     THEN /\ tag' = [tag EXCEPT ![u] = c]
          /\ GoMeet(t, u)
          /\ closing' = [closing EXCEPT ![t] = c]
          /\ next' = [next EXCEPT ![t] = Min(wakes) + 1]
          /\ closed' = [closed EXCEPT ![c] = 1] /\ UNCHANGED gone
     ELSE /\ closed' = [closed EXCEPT ![c] = 2]
          /\ gone' = IF c \in freed /\ Entries(c) = {} THEN gone \cup {c}
                                                       ELSE gone
          /\ closing' = [closing EXCEPT ![t] = Nil]
          /\ next' = [next EXCEPT ![t] = 1]
          /\ Go(t, "idle") /\ on' = [on EXCEPT ![t] = Nil] /\ UNCHANGED tag
  /\ ret' = Nil
  /\ UNCHANGED <<buf, freed, qentry, req, got, a, rendvars, bounds>>

chanclose(t, c) ==
  /\ pc[t] = "idle" /\ closed[c] = 0 /\ c \notin freed
  /\ CloseFrom(t, c, 1)

CloseNext(t) ==
  /\ pc[t] = "back" /\ closing[t] # Nil /\ rendval[t] # Intred
  /\ CloseFrom(t, closing[t], next[t])

(* A channel that was closed when an alt went to wait does not know of it. *)
(* That alt's dequeue reads it nevertheless, and is taken to find nothing  *)
(* in memory that is gone.                                                 *)
chanfree(t, c) ==
  /\ pc[t] = "idle" /\ c \notin freed
  /\ freed' = freed \cup {c}
  /\ gone' = IF _chanfree(c) THEN gone \cup {c} ELSE gone
  /\ ret' = Nil
  /\ UNCHANGED <<buf, closed, qentry, altvars, pc, on, closevars, rendvars,
                 bounds>>

Step(t) ==
  Rendezvous(t) \/ Retry(t) \/ Met(t) \/ Again(t) \/ Interrupted(t)
  \/ Chose(t) \/ CloseNext(t)

Next ==
  \/ \E t \in Thread :
       \/ /\ pc[t] = "idle" /\ calls < MaxCalls /\ t \in Caller[calls + 1]
          /\ \E r \in Request : alt(t, r)
       \/ Step(t) \/ threadint(t)
       \/ \E c \in Chan : chanclose(t, c) \/ chanfree(t, c)
  \/ _threadbreakrendez

Spec == Init /\ [][Next]_vars

(* As long as some thread can go on, some one of them does.                *)
FairSpec == Spec /\ WF_vars(_threadbreakrendez \/ \E t \in Thread : Step(t))
-----------------------------------------------------------------------------
(* A call that waits is pending until somebody commits it; then its result *)
(* is known.  Did chanclose?                                               *)
Pending(t) == Waits(t) /\ tag[t] = Nil

FailedBy(t) ==
  \/ \E u \in Thread : closing[u] # Nil /\ on[u] = t /\
                       ~(pc[u] = "back" /\ rendval[u] # Intred)
  \/ pc[t] = "back" /\ rendval[t] = "Closed"

Outcome(t) ==
  IF req[t] = Nil \/ Pending(t) THEN Nil
  ELSE IF Waits(t) THEN Result(Chosen(t), FailedBy(t), got[t])
  ELSE Result(a[t], FALSE, got[t])

Call(t) == IF Pending(t) THEN req[t] ELSE Nil
WaitsAt(t) ==
  IF ~Pending(t) THEN {}
  ELSE {i \in DOMAIN Alts(t) : <<t, i>> \in Entries(Alts(t)[i].c)}

Promise == INSTANCE ChanSpec WITH
  req <- [t \in Thread |-> Call(t)],
  at <- [t \in Thread |-> WaitsAt(t)],
  out <- [t \in Thread |-> Outcome(t)]

(* Every call of alt is one atomic operation of thread(2)'s channels, with *)
(* the entry, the value and the error that it returns: an interrupt, a     *)
(* close and two partners never both have a call, no value is lost, sent   *)
(* twice or out of order, and nobody waits who can proceed                 *)
(* (channel.c:175-195, 238-260, 573-600).  That takes arrays that name a   *)
(* channel once; MCChanTwice.cfg shows what one that does not returns.     *)
ImplementsChan == Promise!Spec

(* The memory of a channel goes once chanfree was called and nobody has an *)
(* entry on it, was committed on it and still waits to learn that, or      *)
(* closes it, and then at once (channel.c:27-41, 481-483, 262-264).        *)
FreedInTime ==
  /\ TypeOK
  /\ \A t \in Thread : closing[t] \notin gone /\ (Waits(t) => tag[t] \notin gone)
  /\ \A c \in freed : c \in gone <=> closed[c] # 1 /\ Entries(c) = {}

(* "Freeing the channel will be delayed if there is a thread blocked on it *)
(* until that thread unblocks", thread(2).  MCChanFreed.cfg shows an alt   *)
(* that waits while one of its channels goes: it was closed already        *)
(* (channel.c:153-165, 199-208).                                           *)
BlockedDelaysFree ==
  \A t \in Thread : Waits(t) => \A i \in DOMAIN Alts(t) : Alts(t)[i].c \notin gone

(* A call that was committed, and a close, come to an end, whoever is      *)
(* interrupted and in whatever order the two get to their rendezvous:      *)
(* calls being finitely many, all threads come to rest, idle or waiting    *)
(* for a partner (channel.c:191-193, 256, 599).                            *)
CommittedReturn == <>[](\A t \in Thread : pc[t] = "idle" \/ Pending(t))
=============================================================================
