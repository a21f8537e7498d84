----------------------------- MODULE MountRpc -----------------------------
(***************************************************************************)
(* The mount driver's remote procedure calls (sys/src/9/port/devmnt.c):    *)
(* the processes that use one 9P connection queue their requests on it,    *)
(* and one of them at a time, rip, reads replies and hands them out.  A    *)
(* note turns the call of a process into a flush of the call; the replies  *)
(* are then either the call's or the flush's.                              *)
(*                                                                         *)
(* A request is a Mntrpc structure, recycled through a free list; a call   *)
(* is numbered and a reply carries the number it answers, 0 for Rflush.    *)
(* The server (flush(5)) keeps what it was sent in order, and answers a    *)
(* request or a flush; an Rflush cancels the flushed request and implies   *)
(* the answer of earlier flushes of it.  It may hang up: writes then fail, *)
(* and reads once all that it sent has been read.                          *)
(*                                                                         *)
(* Sections under the lock m are steps, except in mountmux, where the      *)
(* owner of the request that is done may go on without the lock before the *)
(* reader's wakeup; m is held while waking is set.  Reading one message and*)
(* looking for its request is a step: what an interrupted reader has got   *)
(* of a message stays on m->q, and only the reader looks there.            *)
(***************************************************************************)
EXTENDS Integers, Sequences, FiniteSets, SequencesExt, FiniteSetsExt, Lists

CONSTANTS
  Proc,
  Rpc,                 \* the Mntrpc structures there is memory for
  Nil,
  KeepFree,            \* length of the free list, 10 in mntfree
  Caller,              \* bound: the processes that may make each call
  MaxTag,              \* bound: tags, 64K in the code
  MaxCalls,            \* bound: calls
  Noted,               \* bound: the processes that are interrupted
  MaxNotes,            \* bound: interrupts
  MaxHangup            \* bound: hangups, 0 or 1

ASSUME NilAssumption == Nil \notin Proc /\ Nil \notin Rpc
ASSUME BoundAssumption ==
  /\ Caller \in [1..MaxCalls -> SUBSET Proc] /\ Noted \subseteq Proc
  /\ KeepFree \in Nat /\ MaxTag \in Nat /\ MaxCalls \in Nat
  /\ MaxNotes \in Nat /\ MaxHangup \in {0, 1}

VARIABLES
  rpc,                 \* the structures
  rpcfree,             \* mntalloc.rpcfree
  tagmask,             \* the tags allocated
  queue,               \* m->queue, the latest request first
  rip,                 \* m->rip, the reader
  waking,              \* the request that mountmux is about to wake
  pc, cur,             \* of each process: place, and r of mountio
  srv,                 \* what the server has not answered
  wire,                \* replies that nobody has read
  hungup,
  calls, notes,        \* counters of the bounds
  answered,            \* history: the calls the server has answered
  result               \* history: what each call returned

history == <<answered, result>>
bounds == <<calls, notes>>
vars == <<rpc, rpcfree, tagmask, queue, rip, waking, pc, cur, srv, wire,
          hungup, bounds, history>>

Tag == 1..MaxTag
Call == 1..MaxCalls
Rflush == 0
Pending == -1          \* reply.type Tmax
Failed == -2           \* an error other than Eintr
Reply == [tag: Tag, ans: Call \cup {Rflush}]
Tmsg == [tag: Tag, call: Call, old: Tag \cup {0}]

(* A flush has the number of the call it is for, and old # 0; memory that  *)
(* is not allocated has tag 0.                                             *)
Mntrpc == [tag: Tag \cup {0}, call: Call \cup {0}, old: Tag \cup {0},
           done: 0..2, flushed: Rpc \cup {Nil},
           ans: Call \cup {Rflush, Pending}]

InMountio == {"write", "loop", "presleep", "asleep", "awake", "read",
              "wakeup", "gate", "gateflush", "flush"}
Places == InMountio \cup {"idle", "free", "qrm"}

TypeOK ==
  /\ rpc \in [Rpc -> Mntrpc]
  /\ rpcfree \in Seq(Rpc) /\ Len(rpcfree) <= KeepFree
  /\ queue \in Seq(Rpc)
  /\ tagmask \subseteq Tag
  /\ rip \in Proc \cup {Nil} /\ waking \in Rpc \cup {Nil}
  /\ pc \in [Proc -> Places]
  /\ cur \in [Proc -> Rpc \cup {Nil}]
  /\ srv \in Seq(Tmsg) /\ wire \in Seq(Reply)
  /\ hungup \in BOOLEAN
  /\ calls \in 0..MaxCalls /\ notes \in 0..MaxNotes
  /\ answered \subseteq Call
  /\ result \in [Call -> Call \cup {Rflush, Pending, Failed}]

Heap == [tag |-> 0, call |-> 0, old |-> 0, done |-> 0, flushed |-> Nil,
         ans |-> Pending]

Init ==
  /\ rpc = [r \in Rpc |-> Heap]
  /\ rpcfree = <<>> /\ queue = <<>> /\ tagmask = {}
  /\ rip = Nil /\ waking = Nil
  /\ pc = [p \in Proc |-> "idle"]
  /\ cur = [p \in Proc |-> Nil]
  /\ srv = <<>> /\ wire = <<>> /\ hungup = FALSE
  /\ calls = 0 /\ notes = 0
  /\ answered = {} /\ result = [c \in Call |-> Pending]

Go(p, place) == pc' = [pc EXCEPT ![p] = place]

(* alloctag panics when there is none: the system goes no further.         *)
TagLeft == Tag \ tagmask # {}
alloctag == Min(Tag \ tagmask)
-----------------------------------------------------------------------------
(* mntralloc and, in mountio, the queueing of the new request              *)
Unused == {r \in Rpc : rpc[r].tag = 0}

Enqueue(p, r, tag, call, old, flushed) ==
  /\ rpc' = [rpc EXCEPT ![r] =
               [tag |-> tag, call |-> call, old |-> old, done |-> 0,
                flushed |-> flushed, ans |-> Pending]]
  /\ queue' = <<r>> \o queue
  /\ cur' = [cur EXCEPT ![p] = r]
  /\ Go(p, "write")

Request(p, call, old, flushed) ==
  /\ waking = Nil
  /\ \/ /\ rpcfree # <<>>
        /\ rpcfree' = Tail(rpcfree)
        /\ Enqueue(p, Head(rpcfree), rpc[Head(rpcfree)].tag, call, old,
                   flushed)
        /\ UNCHANGED tagmask
     \/ /\ rpcfree = <<>> /\ Unused # {} /\ TagLeft
        /\ tagmask' = tagmask \cup {alloctag}
        /\ Enqueue(p, CHOOSE r \in Unused : TRUE, alloctag, call, old,
                   flushed)
        /\ UNCHANGED rpcfree

(* mountrpc, to the write of its request                                   *)
mountrpc(p) ==
  /\ pc[p] = "idle" /\ calls < MaxCalls /\ p \in Caller[calls + 1]
  /\ calls' = calls + 1
  /\ Request(p, calls + 1, 0, Nil)
  /\ UNCHANGED <<rip, waking, srv, wire, hungup, notes, history>>

(* The write of a request; a note may end it before or after it is sent.   *)
Write(p) ==
  LET r == rpc[cur[p]] IN
  /\ pc[p] = "write"
  /\ IF hungup THEN /\ Go(p, "free")
                    /\ result' = [result EXCEPT ![r.call] = Failed]
                    /\ UNCHANGED srv
     ELSE /\ srv' = Append(srv, [tag |-> r.tag, call |-> r.call,
                                 old |-> r.old])
          /\ Go(p, "loop") /\ UNCHANGED result
  /\ UNCHANGED <<rpc, rpcfree, tagmask, queue, rip, waking, cur, wire,
                 hungup, bounds, answered>>

(* The loop that gates readers: become the reader, or sleep until rpcattn  *)
Loop(p) ==
  /\ pc[p] = "loop" /\ waking = Nil
  /\ IF rip = Nil
     THEN rip' = p /\ Go(p, IF rpc[cur[p]].done # 0 THEN "gate" ELSE "read")
     ELSE UNCHANGED rip /\ Go(p, "presleep")
  /\ UNCHANGED <<rpc, rpcfree, tagmask, queue, waking, cur, srv, wire,
                 hungup, bounds, history>>

AfterSleep(p) == IF rpc[cur[p]].done # 0 THEN "free" ELSE "loop"

Sleep(p) ==
  /\ \/ /\ pc[p] = "presleep"
        /\ Go(p, IF rpc[cur[p]].done # 0 \/ rip = Nil THEN AfterSleep(p)
                                                       ELSE "asleep")
     \/ pc[p] = "awake" /\ Go(p, AfterSleep(p))
  /\ UNCHANGED <<rpc, rpcfree, tagmask, queue, rip, waking, cur, srv,
                 wire, hungup, bounds, history>>

(* pc with the process that sleeps on r->r made ready                      *)
Sleeper(r) == {w \in Proc : pc[w] = "asleep" /\ cur[w] = r}
Woken(r) == [w \in Proc |-> IF w \in Sleeper(r) THEN "awake" ELSE pc[w]]

(* Mutant of Match: by the type of the reply                               *)
MatchType(t, r) == (rpc[r].old # 0) = (t.ans = Rflush)

Match(t, r) == rpc[r].tag = t.tag

(* mntrpcread and mountmux: complete the request with the reply's tag.  The *)
(* reply to a request that was given up frees its tag.                     *)
Mux(p) ==
  LET t == Head(wire)
      i == SelectInSeq(queue, LAMBDA r : Match(t, r))
      q == queue[i]
  IN
  /\ pc[p] = "read" /\ wire # <<>>
  /\ wire' = Tail(wire)
  /\ IF i = 0
     THEN /\ tagmask' = tagmask \ {t.tag}
          /\ UNCHANGED <<queue, rpc, pc, waking>>
     ELSE /\ queue' = RemoveAt(queue, i)
          /\ rpc' = [rpc EXCEPT ![q].done = 1, ![q].ans = t.ans]
          /\ IF q = cur[p]
             THEN Go(p, "gate") /\ UNCHANGED waking
             ELSE Go(p, "wakeup") /\ waking' = q
          /\ UNCHANGED tagmask
  /\ UNCHANGED <<rpcfree, rip, cur, srv, hungup, bounds, history>>

MuxFail(p) ==
  /\ pc[p] = "read" /\ wire = <<>> /\ hungup
  /\ result' = [result EXCEPT ![rpc[cur[p]].call] = Failed]
  /\ Go(p, "gate")
  /\ UNCHANGED <<rpc, rpcfree, tagmask, queue, rip, waking, cur, srv, wire,
                 hungup, bounds, answered>>

(* ... and wake its owner, if another, before m is unlocked                *)
MuxWakeup(p) ==
  /\ pc[p] = "wakeup"
  /\ pc' = [Woken(waking) EXCEPT ![p] = "read"]
  /\ waking' = Nil
  /\ UNCHANGED <<rpc, rpcfree, tagmask, queue, rip, cur, srv, wire, hungup,
                 bounds, history>>

(* Mutant of mntgate: stop at the first request, asleep or not             *)
mntgateFirst ==
  LET i == SelectInSeq(queue, LAMBDA r : rpc[r].done = 0)
  IN IF i = 0 THEN pc ELSE Woken(queue[i])

(* mntgate: let the next reader in, the first queued that sleeps           *)
mntgate ==
  LET i == SelectInSeq(queue, LAMBDA r : rpc[r].done = 0 /\ Sleeper(r) # {})
  IN IF i = 0 THEN pc ELSE Woken(queue[i])

Gate(p) ==
  /\ pc[p] \in {"gate", "gateflush"} /\ waking = Nil
  /\ rip' = Nil
  /\ pc' = [mntgate EXCEPT ![p] = IF @ = "gateflush" THEN "flush" ELSE "free"]
  /\ UNCHANGED <<rpc, rpcfree, tagmask, queue, waking, cur, srv, wire,
                 hungup, bounds, history>>
-----------------------------------------------------------------------------
(* A note raises Eintr wherever mountio can block; the handler lets the    *)
(* next reader in and sends a flush of the original request.               *)
CaughtAnyway(p) == IF p \in Proc THEN "flush" ELSE "idle"   \* mutant
Caught(p) == IF rip = p THEN "gateflush" ELSE "flush"

Interrupt(p) ==
  /\ p \in Noted /\ notes < MaxNotes /\ notes' = notes + 1
  /\ \/ /\ pc[p] \in {"presleep", "asleep", "awake", "read"}
        /\ UNCHANGED srv
     \/ /\ pc[p] = "write"
        /\ LET r == rpc[cur[p]] IN
           srv' \in {srv} \cup IF hungup THEN {} ELSE
             {Append(srv, [tag |-> r.tag, call |-> r.call, old |-> r.old])}
  /\ Go(p, Caught(p))
  /\ UNCHANGED <<rpc, rpcfree, tagmask, queue, rip, waking, cur, wire,
                 hungup, calls, history>>

OldTagLatest(r) == r.tag                                     \* mutant
OldTag(r) == IF r.old # 0 THEN r.old ELSE r.tag

(* mntflushalloc, and back to the top of mountio                           *)
Flush(p) ==
  LET r == rpc[cur[p]] IN
  /\ pc[p] = "flush"
  /\ Request(p, r.call, OldTag(r), cur[p])
  /\ UNCHANGED <<rip, waking, srv, wire, hungup, bounds, history>>

(* Mutant of mntfree: a structure keeps its tag                            *)
mntfreeKeepsTag(r) ==
  IF Len(rpcfree) >= KeepFree
  THEN /\ rpc' = [rpc EXCEPT ![r] = Heap]
       /\ tagmask' = IF rpc[r].done = 2 THEN tagmask
                                        ELSE tagmask \ {rpc[r].tag}
       /\ UNCHANGED rpcfree
  ELSE rpcfree' = <<r>> \o rpcfree /\ UNCHANGED <<rpc, tagmask>>
(* mntfree: a structure given up before its reply came leaves its tag      *)
(* allocated and gets another.                                             *)
mntfree(r) ==
  IF Len(rpcfree) >= KeepFree
  THEN /\ rpc' = [rpc EXCEPT ![r] = Heap]
       /\ tagmask' = IF rpc[r].done = 2 THEN tagmask
                                        ELSE tagmask \ {rpc[r].tag}
       /\ UNCHANGED rpcfree
  ELSE /\ IF rpc[r].done = 2
          THEN /\ TagLeft
               /\ rpc' = [rpc EXCEPT ![r].tag = alloctag]
               /\ tagmask' = tagmask \cup {alloctag}
          ELSE UNCHANGED <<rpc, tagmask>>
       /\ rpcfree' = <<r>> \o rpcfree

(* mntflushfree, one structure of the chain at a time: take it off the     *)
(* queue if it is not done, and free it.  The last, the call itself, is    *)
(* freed by the caller of mountrpc, which returns.                         *)
FlushFree(p) ==
  LET r == cur[p] IN
  /\ pc[p] = "free"
  /\ \/ /\ rpc[r].done = 0
        /\ rpc' = [rpc EXCEPT ![r].ans = Rflush]
        /\ Go(p, "qrm")
        /\ UNCHANGED <<rpcfree, tagmask, cur, result>>
     \/ /\ rpc[r].done # 0 /\ mntfree(r)
        /\ cur' = [cur EXCEPT ![p] = rpc[r].flushed]
        /\ IF rpc[r].flushed # Nil THEN UNCHANGED <<pc, result>>
           ELSE /\ result' = [result EXCEPT ![rpc[r].call] =
                                IF @ = Failed THEN @ ELSE rpc[r].ans]
                /\ Go(p, "idle")
  /\ UNCHANGED <<queue, rip, waking, srv, wire, hungup, bounds, answered>>

(* Mutant of mntqrm: the structure stays on the queue                      *)
mntqrmMarks(p) ==
  /\ pc[p] = "qrm" /\ waking = Nil
  /\ rpc' = [rpc EXCEPT ![cur[p]].done = 2]
  /\ Go(p, "free")
  /\ UNCHANGED <<rpcfree, tagmask, queue, rip, waking, cur, srv, wire, hungup,
                 bounds, history>>

mntqrm(p) ==
  /\ pc[p] = "qrm" /\ waking = Nil
  /\ rpc' = [rpc EXCEPT ![cur[p]].done = 2]
  /\ queue' = RemoveFirst(queue, cur[p])
  /\ Go(p, "free")
  /\ UNCHANGED <<rpcfree, tagmask, rip, waking, cur, srv, wire, hungup,
                 bounds, history>>

-----------------------------------------------------------------------------
(* The server                                                              *)
Answer(i) ==
  LET t == srv[i] IN
  /\ wire' = Append(wire, [tag |-> t.tag,
                           ans |-> IF t.old = 0 THEN t.call ELSE Rflush])
  /\ IF t.old = 0
     THEN srv' = RemoveAt(srv, i) /\ answered' = answered \cup {t.call}
     ELSE /\ srv' = Keep(SubSeq(srv, 1, i - 1),
                         {u \in Range(srv) : u.tag # t.old /\ u.old # t.old})
                     \o SubSeq(srv, i + 1, Len(srv))
          /\ UNCHANGED answered
  /\ UNCHANGED <<rpc, rpcfree, tagmask, queue, rip, waking, pc, cur,
                 hungup, bounds, result>>

Hangup ==
  /\ ~hungup /\ MaxHangup = 1
  /\ hungup' = TRUE /\ srv' = <<>>
  /\ UNCHANGED <<rpc, rpcfree, tagmask, queue, rip, waking, pc, cur, wire,
                 bounds, history>>

Step(p) ==
  \/ Write(p) \/ Loop(p) \/ Sleep(p) \/ Mux(p) \/ MuxFail(p) \/ MuxWakeup(p)
  \/ Gate(p) \/ Flush(p) \/ FlushFree(p) \/ mntqrm(p)

Server == \E i \in DOMAIN srv : Answer(i)

Next ==
  \/ \E p \in Proc : mountrpc(p) \/ Step(p) \/ Interrupt(p)
  \/ Server \/ Hangup

Spec == Init /\ [][Next]_vars

(* As long as a process or the server can go on, some one of them does.    *)
FairSpec == Spec /\ WF_vars(Server \/ \E p \in Proc : Step(p))
-----------------------------------------------------------------------------
(* One process reads the connection, the one rip says: no reply is read by *)
(* two, and no process leaves the reading to itself (devmnt.c:779, 801-817)*)
OneReader ==
  \A p \in Proc : (rip = p) <=> pc[p] \in {"read", "wakeup", "gate", "gateflush"}

(* A call that returns a reply returns the one to its own request          *)
(* (devmnt.c:944-957).                                                     *)
OwnReply == \A c \in Call : result[c] \in Call => result[c] = c

(* A call returns Eintr only if the server has not answered it and never   *)
(* will: a reply that came before the Rflush is honoured, since it may     *)
(* signify a change in the server (devmnt.c:1008-1022).                    *)
HonorsReply ==
  \A c \in Call : result[c] = Rflush =>
    /\ c \notin answered
    /\ \A i \in DOMAIN srv : srv[i].call # c \/ srv[i].old # 0

(* The requests and replies under way have different tags: no tag is used  *)
(* again before its reply was read or its Rflush received (devmnt.c:1107). *)
TagsDistinct ==
  /\ \A i, j \in DOMAIN srv : srv[i].tag = srv[j].tag => i = j
  /\ \A i, j \in DOMAIN wire : wire[i].tag = wire[j].tag => i = j
  /\ \A i \in DOMAIN srv, j \in DOMAIN wire : srv[i].tag # wire[j].tag

(* A tag that a structure has is allocated, to it alone, except to one     *)
(* given up (devmnt.c:964-968, 1107-1127).                                 *)
TagIsOwn ==
  \A r, s \in Rpc : rpc[r].tag # 0 /\ rpc[r].done # 2 =>
    /\ rpc[r].tag \in tagmask
    /\ rpc[s].tag = rpc[r].tag /\ rpc[s].done # 2 => r = s

(* Together: no reply can be taken for another's.                          *)
TagsOwned == TagsDistinct /\ TagIsOwn

(* Everybody on the queue is waiting: nothing freed is on it, nothing      *)
(* twice, and nothing that is done (devmnt.c:944, 1130).                   *)
QueueIsLive ==
  /\ TypeOK
  /\ \A i \in DOMAIN queue :
       /\ rpc[queue[i]].tag # 0 /\ rpc[queue[i]].done = 0
       /\ queue[i] \notin Range(rpcfree)
       /\ \A j \in DOMAIN queue : queue[j] = queue[i] => i = j

(* Every call returns, though its reply is read by others and readers come *)
(* and go: calls being finitely many, the processes come to rest idle      *)
(* (devmnt.c:800-826, 918-931).  If there was a note too, a server that    *)
(* hangs up may leave behind who sleeps while nobody reads; but it alone.  *)
Abandoned(p) ==
  /\ pc[p] = "asleep" /\ rpc[cur[p]].done = 0
  /\ hungup /\ notes > 0 /\ rip = Nil
CallsReturn == <>[](\A p \in Proc : pc[p] = "idle" \/ Abandoned(p))

(* "Each message is implemented by a write of the corresponding protocol   *)
(* message to the server channel followed by a read on the server channel  *)
(* to get the reply", mnt(3): every process reads, or is handed, its reply *)
(* or an error.  MCMountLeft.cfg shows one that is left asleep.            *)
NobodyLeft == <>[](\A p \in Proc : pc[p] = "idle")
=============================================================================
