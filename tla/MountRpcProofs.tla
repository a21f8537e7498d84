--------------------------- MODULE MountRpcProofs ---------------------------
(***************************************************************************)
(* Theorems about MountRpc, for any processes, structures and bounds.      *)
(***************************************************************************)
EXTENDS MountRpc, ListLemmas

Reading == {"read", "wakeup", "gate", "gateflush"}

PcType == pc \in [Proc -> Places]

IInv == PcType /\ OneReader

(* Nobody reads at first.                                                  *)
LEMMA InitInv == Init => IInv
  BY NilAssumption DEF Init, IInv, PcType, OneReader, Places, InMountio

(* Waking the sleeper on a request moves a process from asleep to awake    *)
(* and touches nobody else.                                                *)
LEMMA WokenPc ==
  ASSUME PcType, NEW r
  PROVE  /\ Woken(r) \in [Proc -> Places]
         /\ \A w \in Proc : Woken(r)[w] \in Reading <=> pc[w] \in Reading
         /\ \A w \in Proc : pc[w] # "asleep" => Woken(r)[w] = pc[w]
         /\ \A w \in Proc : pc[w] = "asleep" => Woken(r)[w] \in {"asleep", "awake"}
  BY DEF PcType, Woken, Sleeper, Places, InMountio, Reading

(* The same of mntgate, which passes the gate to one sleeper or to         *)
(* nobody.                                                                 *)
LEMMA GatePc ==
  ASSUME PcType
  PROVE  /\ mntgate \in [Proc -> Places]
         /\ \A w \in Proc : mntgate[w] \in Reading <=> pc[w] \in Reading
         /\ \A w \in Proc : pc[w] # "asleep" => mntgate[w] = pc[w]
         /\ \A w \in Proc : pc[w] = "asleep" => mntgate[w] \in {"asleep", "awake"}
<1> DEFINE i == SelectInSeq(queue, LAMBDA r : rpc[r].done = 0 /\ Sleeper(r) # {})
<1>1. mntgate = IF i = 0 THEN pc ELSE Woken(queue[i])
  BY DEF mntgate
<1> HIDE DEF i
<1>2. CASE i = 0
  BY <1>1, <1>2 DEF PcType
<1>3. CASE i # 0
  BY <1>1, <1>3, WokenPc
<1> QED
  BY <1>2, <1>3

(* Each action moves the reader's place and rip together.                  *)
LEMMA StepInv == IInv /\ [Next]_vars => IInv'
<1> SUFFICES ASSUME IInv, [Next]_vars PROVE IInv'
  OBVIOUS
<1> USE NilAssumption DEF IInv, PcType, OneReader, Reading, Places, InMountio, Go
<1>1. ASSUME NEW p \in Proc, mountrpc(p) PROVE IInv'
  BY <1>1 DEF mountrpc, Request, Enqueue
<1>2. ASSUME NEW p \in Proc, Write(p) PROVE IInv'
  BY <1>2 DEF Write
<1>3. ASSUME NEW p \in Proc, Loop(p) PROVE IInv'
  BY <1>3 DEF Loop
<1>4. ASSUME NEW p \in Proc, Sleep(p) PROVE IInv'
  BY <1>4 DEF Sleep, AfterSleep
<1>5. ASSUME NEW p \in Proc, Mux(p) PROVE IInv'
  <2>1. \E l \in {"read", "wakeup", "gate"} : pc' = [pc EXCEPT ![p] = l]
    BY <1>5 DEF Mux
  <2> QED
    BY <1>5, <2>1 DEF Mux
<1>6. ASSUME NEW p \in Proc, MuxFail(p) PROVE IInv'
  BY <1>6 DEF MuxFail
<1>7. ASSUME NEW p \in Proc, MuxWakeup(p) PROVE IInv'
  BY <1>7, WokenPc DEF MuxWakeup
<1>8. ASSUME NEW p \in Proc, Gate(p) PROVE IInv'
  BY <1>8, GatePc DEF Gate
<1>9. ASSUME NEW p \in Proc, Flush(p) PROVE IInv'
  BY <1>9 DEF Flush, Request, Enqueue
<1>10. ASSUME NEW p \in Proc, FlushFree(p) PROVE IInv'
  BY <1>10 DEF FlushFree
<1>11. ASSUME NEW p \in Proc, mntqrm(p) PROVE IInv'
  BY <1>11 DEF mntqrm
<1>12. ASSUME NEW p \in Proc, Interrupt(p) PROVE IInv'
  BY <1>12 DEF Interrupt, Caught
<1>13. ASSUME Server PROVE IInv'
  BY <1>13 DEF Server, Answer
<1>14. ASSUME Hangup PROVE IInv'
  BY <1>14 DEF Hangup
<1>15. CASE UNCHANGED vars
  BY <1>15 DEF vars
<1> QED
  BY <1>1, <1>2, <1>3, <1>4, <1>5, <1>6, <1>7, <1>8, <1>9, <1>10, <1>11, <1>12, <1>13,
     <1>14, <1>15 DEF Next, Step

(* At every moment the process that rip names, and no other, reads the     *)
(* connection or is on its way to let another in (devmnt.c:779, 801-817),  *)
(* however many processes, interrupts and hangups there are.               *)
THEOREM MountOneReader == Spec => []OneReader
<1>1. IInv => OneReader
  BY DEF IInv
<1> QED
  BY <1>1, InitInv, StepInv, PTL DEF Spec
-----------------------------------------------------------------------------
(* A structure is in use from Request to mntfree.  It holds its tag unless *)
(* it has been given up; on the free list it always does.                  *)
InUse(r) == rpc[r].tag # 0 /\ ~On(rpcfree, r)
Holds(r) == rpc[r].tag # 0 /\ (On(rpcfree, r) \/ rpc[r].done # 2)

(* The free list.                                                          *)
FreeInv ==
  /\ Distinct(rpcfree)
  /\ \A r \in Rpc : On(rpcfree, r) => rpc[r].tag # 0

(* A tag that is held is allocated, and held once.                         *)
TagInv ==
  /\ \A r \in Rpc : Holds(r) => rpc[r].tag \in tagmask
  /\ \A r, s \in Rpc : Holds(r) /\ Holds(s) /\ rpc[r].tag = rpc[s].tag => r = s

(* The structures of a call are a chain from cur along flushed; nothing    *)
(* points to a structure that is not in use, and one thing at most to one  *)
(* that is.                                                                *)
CurInv ==
  /\ \A p \in Proc : IF pc[p] = "idle" THEN cur[p] = Nil
                                       ELSE cur[p] \in Rpc /\ InUse(cur[p])
  /\ \A p, q \in Proc : cur[p] # Nil /\ cur[p] = cur[q] => p = q
  /\ \A p \in Proc, r \in Rpc : InUse(r) /\ cur[p] # Nil => rpc[r].flushed # cur[p]
ChainInv ==
  /\ \A r \in Rpc : InUse(r) /\ rpc[r].flushed # Nil => InUse(rpc[r].flushed)
  /\ \A r, s \in Rpc : InUse(r) /\ InUse(s) /\ rpc[r].flushed # Nil
                         /\ rpc[r].flushed = rpc[s].flushed => r = s

(* What is on the queue is in use and not done, and the other way about.   *)
QueueInv ==
  /\ Distinct(queue)
  /\ \A r \in Rpc : On(queue, r) <=> InUse(r) /\ rpc[r].done = 0

(* A structure in use is for a call that was made, and has its own answer. *)
CallInv ==
  \A r \in Rpc : InUse(r) =>
    /\ rpc[r].call \in 1..calls
    /\ rpc[r].ans \in Call => rpc[r].ans = rpc[r].call

(* No request or reply with tag t is under way.                            *)
NoMsg(t) ==
  /\ \A i \in DOMAIN srv : srv[i].tag # t
  /\ \A i \in DOMAIN wire : wire[i].tag # t

(* None is with a tag that is free, or whose reply has been read, or whose *)
(* request has not been sent.                                              *)
NoneUnder ==
  /\ \A t \in Tag \ tagmask : NoMsg(t)
  /\ \A r \in Rpc : On(rpcfree, r) \/ (InUse(r) /\ rpc[r].done = 1) => NoMsg(rpc[r].tag)
  /\ \A p \in Proc : pc[p] = "write" => rpc[cur[p]].done = 0 /\ NoMsg(rpc[cur[p]].tag)

AnswerTo(call, old) == IF old = 0 THEN call ELSE Rflush

(* Those with the tag of a structure that waits are that structure's.      *)
MsgInv ==
  \A r \in Rpc : InUse(r) /\ rpc[r].done = 0 =>
    /\ \A i \in DOMAIN srv : srv[i].tag = rpc[r].tag =>
         srv[i].call = rpc[r].call /\ srv[i].old = rpc[r].old
    /\ \A i \in DOMAIN wire : wire[i].tag = rpc[r].tag =>
         wire[i].ans = AnswerTo(rpc[r].call, rpc[r].old)

Store == FreeInv /\ TagInv /\ CurInv /\ ChainInv /\ QueueInv /\ CallInv
           /\ NoneUnder /\ MsgInv /\ TagsDistinct

(* A step that moves processes between the places of mountio, and touches  *)
(* neither the structures nor the messages.                                *)
Quiet ==
  /\ pc' \in [Proc -> Places]
  /\ \A w \in Proc : /\ pc'[w] = "idle" <=> pc[w] = "idle"
                     /\ pc'[w] = "write" => pc[w] = "write"
  /\ UNCHANGED <<rpc, rpcfree, tagmask, queue, cur, srv, wire, calls>>

(* Such a step changes nothing that Store is about.                        *)
LEMMA QuietStore == TypeOK /\ Store /\ Quiet => Store'
<1> SUFFICES ASSUME TypeOK, Store, Quiet PROVE Store'
  OBVIOUS
<1> USE DEF Quiet
<1>1. FreeInv' /\ TagInv' /\ ChainInv' /\ QueueInv' /\ CallInv' /\ MsgInv' /\ TagsDistinct'
  BY DEF Store, FreeInv, TagInv, ChainInv, QueueInv, CallInv, MsgInv, TagsDistinct, InUse, Holds, On, Distinct, AnswerTo
<1>2. CurInv'
  BY DEF Store, CurInv, InUse, On
<1>3. NoneUnder'
  BY DEF Store, NoneUnder, NoMsg, InUse, On
<1> QED
  BY <1>1, <1>2, <1>3 DEF Store

(* The facts of types that the proofs use.                                 *)
LEMMA Types ==
  ASSUME TypeOK
  PROVE  /\ rpc \in [Rpc -> Mntrpc] /\ rpcfree \in Seq(Rpc) /\ queue \in Seq(Rpc)
         /\ srv \in Seq(Tmsg) /\ wire \in Seq(Reply)
         /\ pc \in [Proc -> Places] /\ cur \in [Proc -> Rpc \cup {Nil}]
         /\ tagmask \subseteq Tag /\ calls \in Nat /\ 0 \notin Tag /\ Nil \notin Rpc
  BY NilAssumption, BoundAssumption DEF TypeOK, Tag

(* A process that is not idle has a structure, which is in use.            *)
LEMMA CurIs ==
  ASSUME TypeOK, CurInv, NEW p \in Proc, pc[p] # "idle"
  PROVE  cur[p] \in Rpc /\ InUse(cur[p]) /\ rpc[cur[p]] \in Mntrpc /\ rpc[cur[p]].tag \in Tag
  BY Types DEF CurInv, Mntrpc, InUse

(* alloctag gives a tag that is not in use, while one is left.             *)
LEMMA TagIs == TagLeft /\ MaxTag \in Nat => alloctag \in Tag \ tagmask
<1> SUFFICES ASSUME TagLeft, MaxTag \in Nat PROVE alloctag \in Tag \ tagmask
  OBVIOUS
<1>1. Tag \ tagmask \subseteq Nat /\ Tag \ tagmask # {}
  BY DEF Tag, TagLeft
<1>2. PICK x \in Tag \ tagmask : \A y \in Tag \ tagmask : x <= y
  BY <1>1, LeastNat
<1> QED
  BY <1>2 DEF alloctag, Min

(* Elements of a list that keep their order: positions that differ stay so. *)
LEMMA WithinApart ==
  ASSUME NEW S, NEW q \in Seq(S), NEW e, NEW k \in DOMAIN q, NEW l \in DOMAIN q,
         \A x, y \in DOMAIN q : x < y => e[x] < e[y], e[k] = e[l],
         \A x \in DOMAIN q : e[x] \in Nat
  PROVE  k = l
<1>1. k \in Nat /\ l \in Nat
  OBVIOUS
<1> QED
  BY <1>1

Sent(r) == [tag |-> rpc[r].tag, call |-> rpc[r].call, old |-> rpc[r].old]

(* A request is sent: its tag was not under way.                           *)
LEMMA SendStore ==
  ASSUME TypeOK, Store, NEW p \in Proc, NEW l \in Places \ {"idle", "write"},
         pc[p] = "write", pc' = [pc EXCEPT ![p] = l],
         srv' = Append(srv, Sent(cur[p])),
         UNCHANGED <<rpc, rpcfree, tagmask, queue, cur, wire, calls>>
  PROVE  Store' /\ srv' \in Seq(Tmsg)
<1> DEFINE r == cur[p]
           m == Sent(cur[p])
           n == Len(srv)
<1>1. r \in Rpc /\ InUse(r) /\ rpc[r] \in Mntrpc /\ rpc[r].tag \in Tag
  BY CurIs DEF Store
<1>2. rpc[r].done = 0 /\ NoMsg(rpc[r].tag) /\ rpc[r].call \in Call
  BY <1>1 DEF Store, NoneUnder, CallInv, TypeOK, Mntrpc, Call
<1>3. m \in Tmsg
  BY <1>1, <1>2 DEF Sent, Tmsg, Mntrpc
<1>4. srv \in Seq(Tmsg)
  BY Types
<1>5. /\ n \in Nat /\ DOMAIN srv = 1..n /\ DOMAIN srv' = 1..n + 1
      /\ \A i \in 1..n : srv'[i] = srv[i]
      /\ srv'[n + 1] = m
      /\ srv' \in Seq(Tmsg)
  BY <1>3, <1>4
<1>6. m.tag = rpc[r].tag /\ m.call = rpc[r].call /\ m.old = rpc[r].old
  BY DEF Sent
<1> HIDE DEF m, n
<1>7. \A i \in DOMAIN srv' : \/ i \in DOMAIN srv /\ srv'[i] = srv[i]
                             \/ i = n + 1 /\ srv'[i] = m
  BY <1>5
<1>8. Holds(r)
  BY <1>1, <1>2 DEF InUse, Holds
<1>9. pc \in [Proc -> Places]
  BY Types
<1>10. FreeInv' /\ TagInv' /\ ChainInv' /\ QueueInv' /\ CallInv'
  BY DEF Store, FreeInv, TagInv, ChainInv, QueueInv, CallInv, InUse, Holds, On, Distinct
<1>11. CurInv'
  BY <1>9 DEF Store, CurInv, InUse, On
<1>12. ASSUME NEW t, NoMsg(t), t # rpc[r].tag PROVE NoMsg(t)'
  BY <1>6, <1>7, <1>12 DEF NoMsg
<1>13. NoneUnder'
  <2>1. ASSUME NEW t \in Tag \ tagmask PROVE NoMsg(t)'
    <3>1. t # rpc[r].tag
      BY <1>1, <1>8 DEF Store, TagInv
    <3> QED
      BY <1>12, <3>1 DEF Store, NoneUnder
  <2>2. ASSUME NEW s \in Rpc, On(rpcfree, s) \/ (InUse(s) /\ rpc[s].done = 1)
        PROVE  NoMsg(rpc[s].tag)'
    <3>1. Holds(s) /\ s # r
      BY <1>1, <1>2, <2>2 DEF Holds, InUse, Store, FreeInv
    <3>2. rpc[s].tag # rpc[r].tag
      BY <1>1, <1>8, <3>1 DEF Store, TagInv
    <3>3. NoMsg(rpc[s].tag)
      BY <2>2 DEF Store, NoneUnder
    <3> QED
      BY <1>12, <3>2, <3>3
  <2>3. ASSUME NEW w \in Proc, pc'[w] = "write"
        PROVE  rpc[cur[w]].done = 0 /\ NoMsg(rpc[cur[w]].tag)'
    <3>1. w # p /\ pc[w] = "write"
      BY <1>9, <2>3
    <3>2. cur[w] \in Rpc /\ InUse(cur[w]) /\ cur[w] # r /\ rpc[cur[w]].done = 0
          /\ NoMsg(rpc[cur[w]].tag)
      BY <1>1, <3>1, CurIs, Types DEF Store, CurInv, NoneUnder
    <3>3. Holds(cur[w])
      BY <3>2 DEF Holds, InUse
    <3>4. rpc[cur[w]].tag # rpc[r].tag
      BY <1>1, <1>8, <3>2, <3>3 DEF Store, TagInv
    <3> QED
      BY <1>12, <3>2, <3>4
  <2> QED
    BY <2>1, <2>2, <2>3 DEF NoneUnder, InUse, On
<1>14. MsgInv'
  <2> SUFFICES ASSUME NEW s \in Rpc, InUse(s), rpc[s].done = 0
               PROVE  /\ \A i \in DOMAIN srv' : srv'[i].tag = rpc[s].tag =>
                           srv'[i].call = rpc[s].call /\ srv'[i].old = rpc[s].old
                      /\ \A i \in DOMAIN wire : wire[i].tag = rpc[s].tag =>
                           wire[i].ans = AnswerTo(rpc[s].call, rpc[s].old)
    BY DEF MsgInv, InUse, On, AnswerTo
  <2>1. Holds(s)
    BY DEF Holds, InUse
  <2>2. rpc[s].tag = rpc[r].tag => s = r
    BY <1>1, <1>8, <2>1 DEF Store, TagInv
  <2> QED
    BY <1>6, <1>7, <2>2 DEF Store, MsgInv
<1>15. TagsDistinct'
  BY <1>2, <1>5, <1>6, <1>7 DEF Store, TagsDistinct, NoMsg
<1> QED
  BY <1>5, <1>10, <1>11, <1>13, <1>14, <1>15 DEF Store

(* Taking messages away, without giving a tag to a structure or the        *)
(* allocator: srv and wire become lists of messages that they had.         *)
Fewer ==
  /\ srv' \in Seq(Tmsg) /\ wire' \in Seq(Reply)
  /\ Within(srv', srv, DOMAIN srv) /\ Within(wire', wire, DOMAIN wire)

(* A tag with no message still has none.                                   *)
LEMMA FewerNone ==
  ASSUME Fewer, NEW t, NoMsg(t) PROVE NoMsg(t)'
<1>1. /\ \A k \in DOMAIN srv' : \E i \in DOMAIN srv : srv'[k] = srv[i]
      /\ \A k \in DOMAIN wire' : \E i \in DOMAIN wire : wire'[k] = wire[i]
  BY DEF Fewer, Within
<1> QED
  BY <1>1 DEF NoMsg

(* The messages left still have different tags.                            *)
LEMMA FewerDistinct ==
  ASSUME TypeOK, TagsDistinct, Fewer PROVE TagsDistinct'
<1>1. PICK e \in [DOMAIN srv' -> DOMAIN srv] :
         /\ \A k \in DOMAIN srv' : srv'[k] = srv[e[k]]
         /\ \A k, l \in DOMAIN srv' : k < l => e[k] < e[l]
  BY DEF Fewer, Within
<1>2. PICK d \in [DOMAIN wire' -> DOMAIN wire] :
         /\ \A k \in DOMAIN wire' : wire'[k] = wire[d[k]]
         /\ \A k, l \in DOMAIN wire' : k < l => d[k] < d[l]
  BY DEF Fewer, Within
<1>3. DOMAIN srv \subseteq Nat /\ DOMAIN wire \subseteq Nat
  BY Types
<1>4. ASSUME NEW i \in DOMAIN srv', NEW j \in DOMAIN srv', srv'[i].tag = srv'[j].tag
      PROVE  i = j
  <2>1. e[i] = e[j] /\ e[i] \in Nat
    BY <1>1, <1>3, <1>4 DEF TagsDistinct
  <2>2. i \in Nat /\ j \in Nat
    BY DEF Fewer
  <2>3. ~(i < j) /\ ~(j < i)
    BY <1>1, <2>1
  <2> QED
    BY <2>2, <2>3
<1>5. ASSUME NEW i \in DOMAIN wire', NEW j \in DOMAIN wire', wire'[i].tag = wire'[j].tag
      PROVE  i = j
  <2>1. d[i] = d[j] /\ d[i] \in Nat
    BY <1>2, <1>3, <1>5 DEF TagsDistinct
  <2>2. i \in Nat /\ j \in Nat
    BY DEF Fewer
  <2>3. ~(i < j) /\ ~(j < i)
    BY <1>2, <2>1
  <2> QED
    BY <2>2, <2>3
<1>6. \A i \in DOMAIN srv', j \in DOMAIN wire' : srv'[i].tag # wire'[j].tag
  BY <1>1, <1>2 DEF TagsDistinct
<1> QED
  BY <1>4, <1>5, <1>6 DEF TagsDistinct

(* Each message left was there before.                                     *)
LEMMA FewerMsg ==
  ASSUME Fewer
  PROVE  /\ \A i \in DOMAIN srv' : \E j \in DOMAIN srv : srv'[i] = srv[j]
         /\ \A i \in DOMAIN wire' : \E j \in DOMAIN wire : wire'[i] = wire[j]
  BY DEF Fewer, Within

(* No message is taken away: for the actions that touch neither list.      *)
LEMMA SameWithin ==
  ASSUME NEW S, NEW s \in Seq(S)
  PROVE  Within(s, s, DOMAIN s)
<1> DEFINE e == [k \in DOMAIN s |-> k]
<1>1. e \in [DOMAIN s -> DOMAIN s] /\ (\A k \in DOMAIN s : s[k] = s[e[k]])
      /\ \A k, l \in DOMAIN s : k < l => e[k] < e[l]
  OBVIOUS
<1> QED
  BY <1>1 DEF Within

(* The reply read is the first on the wire; it is under way no more.       *)
LEMMA ReadOne ==
  ASSUME TypeOK, TagsDistinct, wire # <<>>, wire' = Tail(wire), UNCHANGED srv,
         NEW t, t = Head(wire)
  PROVE  /\ Fewer
         /\ t = wire[1] /\ 1 \in DOMAIN wire /\ t \in Reply
         /\ NoMsg(t.tag)'
<1>1. wire \in Seq(Reply) /\ srv \in Seq(Tmsg)
  BY Types
<1>2. t = wire[1] /\ 1 \in DOMAIN wire /\ t \in Reply
  BY <1>1
<1>3. wire' \in Seq(Reply) /\ Within(wire', wire, DOMAIN wire \ {1})
  BY <1>1, TailWithin
<1>4. Within(wire', wire, DOMAIN wire)
  BY <1>3 DEF Within
<1>5. Fewer
  BY <1>1, <1>3, <1>4, SameWithin DEF Fewer
<1>6. \A k \in DOMAIN wire' : \E i \in DOMAIN wire \ {1} : wire'[k] = wire[i]
  BY <1>3 DEF Within
<1>7. NoMsg(t.tag)'
  BY <1>2, <1>6 DEF NoMsg, TagsDistinct
<1> QED
  BY <1>2, <1>5, <1>7

(* The first queued request that matches the reply: there is one if any    *)
(* structure that waits has the tag.                                       *)
LEMMA MatchIs ==
  ASSUME TypeOK, Store, NEW t \in Reply
  PROVE  LET i == SelectInSeq(queue, LAMBDA r : Match(t, r))
         IN \/ /\ i = 0
               /\ \A r \in Rpc : InUse(r) /\ rpc[r].done = 0 => rpc[r].tag # t.tag
            \/ /\ i \in DOMAIN queue /\ rpc[queue[i]].tag = t.tag
               /\ queue[i] \in Rpc
<1> DEFINE I == {i \in 1..Len(queue) : rpc[queue[i]].tag = t.tag}
           i == SelectInSeq(queue, LAMBDA r : Match(t, r))
<1>1. i = IF I # {} THEN Min(I) ELSE 0
  BY DEF SelectInSeq, Match
<1>2. queue \in Seq(Rpc) /\ DOMAIN queue = 1..Len(queue) /\ Len(queue) \in Nat
  BY Types
<1> HIDE DEF i
<1>3. CASE I = {}
  <2>1. \A k \in DOMAIN queue : rpc[queue[k]].tag # t.tag
    BY <1>2, <1>3
  <2>2. \A r \in Rpc : InUse(r) /\ rpc[r].done = 0 => rpc[r].tag # t.tag
    BY <2>1 DEF Store, QueueInv, On
  <2> QED
    BY <1>1, <1>3, <2>2 DEF i
<1>4. CASE I # {}
  <2>1. I \subseteq Nat
    BY <1>2
  <2>2. \E x \in I : \A y \in I : x <= y
    BY <1>4, <2>1, LeastNat
  <2>3. i \in I
    BY <1>1, <1>4, <2>2 DEF Min
  <2> QED
    BY <1>2, <2>3 DEF i
<1> QED
  BY <1>3, <1>4

(* A stale reply is read: its tag, that nobody holds, is free.             *)
LEMMA StaleStore ==
  ASSUME TypeOK, Store, NEW t \in Reply, NoMsg(t.tag)', Fewer,
         ~NoMsg(t.tag),
         \A r \in Rpc : InUse(r) /\ rpc[r].done = 0 => rpc[r].tag # t.tag,
         tagmask' = tagmask \ {t.tag},
         UNCHANGED <<rpc, rpcfree, queue, cur, pc, calls>>
  PROVE  Store'
<1>1. ASSUME NEW r \in Rpc, Holds(r) PROVE rpc[r].tag # t.tag
  <2>1. rpc[r] \in Mntrpc
    BY Types
  <2>2. InUse(r) /\ rpc[r].done # 2 /\ rpc[r].done # 1 => rpc[r].done = 0
    BY <2>1 DEF Mntrpc
  <2> QED
    BY <1>1, <2>2 DEF Store, NoneUnder, Holds, InUse
<1>2. FreeInv' /\ ChainInv' /\ QueueInv' /\ CallInv' /\ CurInv'
  BY DEF Store, FreeInv, ChainInv, QueueInv, CallInv, CurInv, InUse, On, Distinct
<1>3. TagInv'
  BY <1>1 DEF Store, TagInv, Holds, On
<1>4. NoneUnder'
  <2>1. ASSUME NEW u \in Tag \ tagmask' PROVE NoMsg(u)'
    BY FewerNone DEF Store, NoneUnder
  <2>2. ASSUME NEW r \in Rpc, On(rpcfree, r) \/ (InUse(r) /\ rpc[r].done = 1)
        PROVE  NoMsg(rpc[r].tag)'
    BY <2>2, FewerNone DEF Store, NoneUnder
  <2>3. ASSUME NEW p \in Proc, pc[p] = "write"
        PROVE  rpc[cur[p]].done = 0 /\ NoMsg(rpc[cur[p]].tag)'
    BY <2>3, FewerNone DEF Store, NoneUnder
  <2> QED
    BY <2>1, <2>2, <2>3 DEF NoneUnder, InUse, On
<1>5. MsgInv'
  BY FewerMsg DEF Store, MsgInv, InUse, On, AnswerTo
<1>6. TagsDistinct'
  BY FewerDistinct DEF Store
<1> QED
  BY <1>2, <1>3, <1>4, <1>5, <1>6 DEF Store

(* How the places may change in a step that starts and ends no call.       *)
Moves ==
  /\ pc' \in [Proc -> Places]
  /\ \A w \in Proc : /\ pc'[w] = "idle" <=> pc[w] = "idle"
                     /\ pc'[w] = "write" => pc[w] = "write"

(* Taking one element off a list without duplicates.                       *)
LEMMA CutOn ==
  ASSUME NEW S, NEW s \in Seq(S), NEW i \in DOMAIN s, Distinct(s)
  PROVE  /\ Cut(s, i) \in Seq(S) /\ Distinct(Cut(s, i))
         /\ \A x : On(Cut(s, i), x) <=> On(s, x) /\ x # s[i]
<1> DEFINE q == Cut(s, i)
<1>1. /\ q \in Seq(S) /\ Within(q, s, DOMAIN s \ {i})
      /\ \A j \in DOMAIN s : j # i => On(q, s[j])
  BY CutWithin
<1>2. DOMAIN s \subseteq Nat
  OBVIOUS
<1> HIDE DEF q
<1>3. PICK e \in [DOMAIN q -> DOMAIN s \ {i}] :
         /\ \A k \in DOMAIN q : q[k] = s[e[k]]
         /\ \A k, l \in DOMAIN q : k < l => e[k] < e[l]
  BY <1>1 DEF Within
<1>4. ASSUME NEW k \in DOMAIN q, NEW l \in DOMAIN q, q[k] = q[l] PROVE k = l
  <2>1. e[k] = e[l]
    BY <1>3, <1>4 DEF Distinct
  <2>2. \A x \in DOMAIN q : e[x] \in Nat
    BY <1>2, <1>3
  <2> QED
    BY <1>1, <1>3, <2>1, <2>2, WithinApart
<1>5. ASSUME NEW x PROVE On(q, x) <=> On(s, x) /\ x # s[i]
  <2>1. ASSUME On(q, x) PROVE On(s, x) /\ x # s[i]
    BY <1>3, <2>1 DEF On, Distinct
  <2>2. ASSUME On(s, x), x # s[i] PROVE On(q, x)
    BY <1>1, <2>2 DEF On
  <2> QED
    BY <2>1, <2>2
<1> QED
  BY <1>1, <1>4, <1>5 DEF q, Distinct

(* A step that changes done and ans of q, and no other field.              *)
Alters(q) ==
  /\ rpc' \in [Rpc -> Mntrpc]
  /\ \A r \in Rpc : /\ rpc'[r].tag = rpc[r].tag /\ rpc'[r].call = rpc[r].call
                    /\ rpc'[r].old = rpc[r].old /\ rpc'[r].flushed = rpc[r].flushed
  /\ \A r \in Rpc : r # q => rpc'[r].done = rpc[r].done /\ rpc'[r].ans = rpc[r].ans

(* The reply to a structure that waits is read.                            *)
LEMMA DoneStore ==
  ASSUME TypeOK, Store, NEW t \in Reply, NoMsg(t.tag)', Fewer,
         NEW k \in DOMAIN wire, wire[k] = t,
         NEW i \in DOMAIN queue, NEW q \in Rpc, q = queue[i], rpc[q].tag = t.tag,
         queue' = Cut(queue, i),
         Alters(q), rpc'[q].done = 1, rpc'[q].ans = t.ans,
         Moves, UNCHANGED <<rpcfree, tagmask, cur, calls>>
  PROVE  Store' /\ queue' \in Seq(Rpc)
<1>1. /\ rpc \in [Rpc -> Mntrpc] /\ t.ans \in Call \cup {Rflush}
      /\ queue \in Seq(Rpc) /\ 0 \notin Call
  BY Types DEF Reply, Call
<1>2. InUse(q) /\ rpc[q].done = 0
  BY DEF Store, QueueInv, On
<1>3. t.ans \in Call => t.ans = rpc[q].call
  BY <1>2 DEF Store, MsgInv, AnswerTo, Rflush, Call
<1>5. /\ rpc' \in [Rpc -> Mntrpc]
      /\ \A r \in Rpc : /\ rpc'[r].tag = rpc[r].tag /\ rpc'[r].call = rpc[r].call
                        /\ rpc'[r].old = rpc[r].old /\ rpc'[r].flushed = rpc[r].flushed
      /\ \A r \in Rpc : r # q => rpc'[r].done = rpc[r].done /\ rpc'[r].ans = rpc[r].ans
  BY DEF Alters
<1>6. ASSUME NEW r \in Rpc PROVE (InUse(r)' <=> InUse(r)) /\ (Holds(r)' <=> Holds(r))
  <2>1. rpc'[r].tag = rpc[r].tag /\ (rpc'[r].done # 2 <=> rpc[r].done # 2)
    BY <1>2, <1>5
  <2>2. On(rpcfree, r)' <=> On(rpcfree, r)
    BY DEF On
  <2> QED
    BY <2>1, <2>2 DEF InUse, Holds
<1>7. /\ queue' \in Seq(Rpc) /\ Distinct(queue)'
      /\ \A x : On(queue, x)' <=> On(queue, x) /\ x # q
  BY <1>1, CutOn DEF Store, QueueInv
<1>8. FreeInv' /\ TagInv'
  BY <1>5, <1>6 DEF Store, FreeInv, TagInv, On, Distinct
<1>9. CurInv'
  BY <1>5, <1>6, Types DEF Store, CurInv, Moves
<1>10. ChainInv'
  <2>1. \A r \in Rpc : rpc[r].flushed \in Rpc \cup {Nil}
    BY <1>1 DEF Mntrpc
  <2> QED
    BY <1>5, <1>6, <2>1 DEF Store, ChainInv
<1>11. QueueInv'
  BY <1>5, <1>6, <1>7, <1>2 DEF Store, QueueInv
<1>12. CallInv'
  BY <1>3, <1>5, <1>6 DEF Store, CallInv
<1>13. NoneUnder'
  <2>1. ASSUME NEW u \in Tag \ tagmask PROVE NoMsg(u)'
    BY FewerNone DEF Store, NoneUnder
  <2>2. ASSUME NEW r \in Rpc, On(rpcfree, r) \/ (InUse(r) /\ rpc'[r].done = 1), NEW u,
               u = rpc[r].tag
        PROVE  NoMsg(u)'
    <3>1. CASE r = q
      BY <2>2, <3>1
    <3>2. CASE r # q
      BY <1>5, <2>2, <3>2, FewerNone DEF Store, NoneUnder
    <3> QED
      BY <3>1, <3>2
  <2>3. ASSUME NEW p \in Proc, pc'[p] = "write", NEW u, u = rpc[cur[p]].tag
        PROVE  cur[p] \in Rpc /\ cur[p] # q /\ rpc[cur[p]].done = 0 /\ NoMsg(u)'
    <3>1. pc[p] = "write"
      BY <2>3 DEF Moves
    <3>2. cur[p] \in Rpc
      BY <3>1, CurIs DEF Store
    <3>3. NoMsg(u) /\ rpc[cur[p]].done = 0
      BY <2>3, <3>1 DEF Store, NoneUnder
    <3>4. cur[p] # q
      BY <2>3, <3>3 DEF NoMsg
    <3> QED
      BY <3>2, <3>3, <3>4, FewerNone
  <2>4. \A r \in Rpc : On(rpcfree', r) \/ (InUse(r)' /\ rpc'[r].done = 1) => NoMsg(rpc[r].tag)'
    BY <1>5, <1>6, <2>2 DEF NoMsg
  <2>5. \A p \in Proc : pc'[p] = "write" => rpc'[cur'[p]].done = 0 /\ NoMsg(rpc[cur[p]].tag)'
    BY <1>5, <2>3 DEF NoMsg
  <2> QED
    BY <2>1, <2>4, <2>5 DEF NoneUnder
<1>14. MsgInv'
  BY <1>5, <1>6, FewerMsg DEF Store, MsgInv, AnswerTo
<1>15. TagsDistinct'
  BY FewerDistinct DEF Store
<1> QED
  BY <1>7, <1>8, <1>9, <1>10, <1>11, <1>12, <1>13, <1>14, <1>15 DEF Store

(* Setting the answer of a request alters nothing else of it.              *)
LEMMA AltersAns ==
  ASSUME rpc \in [Rpc -> Mntrpc], NEW q \in Rpc, NEW a \in Call \cup {Rflush, Pending},
         rpc' = [rpc EXCEPT ![q].ans = a]
  PROVE  Alters(q) /\ rpc'[q].done = rpc[q].done /\ rpc'[q].ans = a
<1> DEFINE v == [rpc[q] EXCEPT !.ans = a]
<1>1. rpc' = [rpc EXCEPT ![q] = v]
  OBVIOUS
<1>2. rpc[q] \in Mntrpc
  OBVIOUS
<1>3. /\ v \in Mntrpc /\ v.done = rpc[q].done /\ v.ans = a /\ v.tag = rpc[q].tag
      /\ v.call = rpc[q].call /\ v.old = rpc[q].old /\ v.flushed = rpc[q].flushed
  BY <1>2 DEF Mntrpc
<1> HIDE DEF v
<1> QED
  BY <1>1, <1>3 DEF Alters

(* Marking a request done alters nothing else of it.                       *)
LEMMA AltersDone ==
  ASSUME rpc \in [Rpc -> Mntrpc], NEW q \in Rpc, NEW d \in 0..2,
         rpc' = [rpc EXCEPT ![q].done = d]
  PROVE  Alters(q) /\ rpc'[q].done = d /\ rpc'[q].ans = rpc[q].ans
<1> DEFINE v == [rpc[q] EXCEPT !.done = d]
<1>1. rpc' = [rpc EXCEPT ![q] = v]
  OBVIOUS
<1>2. rpc[q] \in Mntrpc
  OBVIOUS
<1>3. /\ v \in Mntrpc /\ v.done = d /\ v.ans = rpc[q].ans /\ v.tag = rpc[q].tag
      /\ v.call = rpc[q].call /\ v.old = rpc[q].old /\ v.flushed = rpc[q].flushed
  BY <1>2 DEF Mntrpc
<1> HIDE DEF v
<1> QED
  BY <1>1, <1>3 DEF Alters

(* Marking a structure as flushed, while it is still on the queue.         *)
LEMMA MarkStore ==
  ASSUME TypeOK, Store, NEW q \in Rpc, Alters(q), rpc'[q].done = rpc[q].done,
         rpc'[q].ans = Rflush, Moves,
         UNCHANGED <<rpcfree, tagmask, queue, cur, srv, wire, calls>>
  PROVE  Store'
<1>1. /\ \A r \in Rpc : /\ rpc'[r].tag = rpc[r].tag /\ rpc'[r].call = rpc[r].call
                        /\ rpc'[r].old = rpc[r].old /\ rpc'[r].flushed = rpc[r].flushed
                        /\ rpc'[r].done = rpc[r].done
                        /\ rpc'[r].ans = rpc[r].ans \/ rpc'[r].ans = Rflush
      /\ Rflush \notin Call
  BY DEF Alters, Rflush, Call
<1>2. ASSUME NEW r \in Rpc PROVE (InUse(r)' <=> InUse(r)) /\ (Holds(r)' <=> Holds(r))
  BY <1>1 DEF InUse, Holds, On
<1>3. FreeInv' /\ TagInv' /\ QueueInv'
  BY <1>1, <1>2 DEF Store, FreeInv, TagInv, QueueInv, On, Distinct
<1>4. CurInv'
  BY <1>1, <1>2, Types DEF Store, CurInv, Moves
<1>5. ChainInv'
  <2>1. \A r \in Rpc : rpc[r].flushed \in Rpc \cup {Nil}
    BY Types DEF Mntrpc
  <2> QED
    BY <1>1, <1>2, <2>1 DEF Store, ChainInv
<1>6. CallInv'
  BY <1>1, <1>2 DEF Store, CallInv
<1>7. NoneUnder'
  <2>1. ASSUME NEW p \in Proc, pc'[p] = "write" PROVE pc[p] = "write" /\ cur[p] \in Rpc
    BY <2>1, CurIs DEF Store, Moves
  <2> QED
    BY <1>1, <1>2, <2>1 DEF Store, NoneUnder, NoMsg, On
<1>8. MsgInv' /\ TagsDistinct'
  BY <1>1, <1>2 DEF Store, MsgInv, AnswerTo, TagsDistinct
<1> QED
  BY <1>3, <1>4, <1>5, <1>6, <1>7, <1>8 DEF Store

(* mntqrm takes the structure off the queue, if it is there.               *)
LEMMA RemoveFirstOn ==
  ASSUME NEW S, NEW s \in Seq(S), Distinct(s), NEW x
  PROVE  /\ RemoveFirst(s, x) \in Seq(S) /\ Distinct(RemoveFirst(s, x))
         /\ \A y : On(RemoveFirst(s, x), y) <=> On(s, y) /\ y # x
<1> DEFINE I == {i \in 1..Len(s) : s[i] = x}
           i == SelectInSeq(s, LAMBDA v : v = x)
<1>1. DOMAIN s = 1..Len(s) /\ Len(s) \in Nat
  OBVIOUS
<1>2. i = IF I # {} THEN Min(I) ELSE 0
  BY DEF SelectInSeq
<1>3. RemoveFirst(s, x) = IF I # {} THEN Cut(s, i) ELSE s
  BY DEF RemoveFirst, RemoveAt, Cut
<1> HIDE DEF i
<1>4. CASE I = {}
  BY <1>1, <1>3, <1>4 DEF On
<1>5. CASE I # {}
  <2>1. \E z \in I : \A y \in I : z <= y
    <3>1. I \subseteq Nat
      BY <1>1
    <3> QED
      BY <1>5, <3>1, LeastNat
  <2>2. i \in I
    BY <1>2, <1>5, <2>1 DEF Min
  <2>3. i \in DOMAIN s /\ s[i] = x
    BY <1>1, <2>2
  <2> QED
    BY <1>3, <1>5, <2>3, CutOn
<1> QED
  BY <1>4, <1>5

(* mntqrm marks the request done and unlinks it.                           *)
LEMMA QrmStore ==
  ASSUME TypeOK, Store, NEW q \in Rpc, InUse(q), Alters(q), rpc'[q].done = 2,
         rpc'[q].ans = rpc[q].ans, queue' = RemoveFirst(queue, q), Moves,
         \A p \in Proc : pc'[p] = "write" => cur[p] # q,
         UNCHANGED <<rpcfree, tagmask, cur, srv, wire, calls>>
  PROVE  Store' /\ queue' \in Seq(Rpc)
<1>1. \A r \in Rpc : /\ rpc'[r].tag = rpc[r].tag /\ rpc'[r].call = rpc[r].call
                     /\ rpc'[r].old = rpc[r].old /\ rpc'[r].flushed = rpc[r].flushed
                     /\ rpc'[r].done = IF r = q THEN 2 ELSE rpc[r].done
                     /\ rpc'[r].ans = rpc[r].ans
  BY DEF Alters
<1>2. ASSUME NEW r \in Rpc PROVE (InUse(r)' <=> InUse(r)) /\ (Holds(r)' <=> Holds(r) /\ r # q)
  <2>1. On(rpcfree, r)' <=> On(rpcfree, r)
    BY DEF On
  <2> QED
    BY <1>1, <2>1 DEF InUse, Holds
<1>3. queue' \in Seq(Rpc) /\ Distinct(queue') /\ \A r : On(queue', r) <=> On(queue, r) /\ r # q
  BY Types, RemoveFirstOn DEF Store, QueueInv
<1>4. FreeInv' /\ TagInv'
  BY <1>1, <1>2 DEF Store, FreeInv, TagInv, On, Distinct
<1>5. QueueInv'
  <2>1. \A r \in Rpc : On(queue', r) <=> InUse(r)' /\ rpc'[r].done = 0
    BY <1>1, <1>2, <1>3 DEF Store, QueueInv
  <2> QED
    BY <1>3, <2>1 DEF QueueInv
<1>6. CurInv'
  <2>1. \A r \in Rpc : rpc'[r].flushed = rpc[r].flushed /\ (InUse(r)' <=> InUse(r))
    BY <1>1, <1>2
  <2> QED
    BY <2>1, Types DEF Store, CurInv, Moves
<1>7. ChainInv'
  <2>1. \A r \in Rpc : rpc[r].flushed \in Rpc \cup {Nil}
    BY Types DEF Mntrpc
  <2> QED
    BY <1>1, <1>2, <2>1 DEF Store, ChainInv
<1>8. CallInv'
  BY <1>1, <1>2 DEF Store, CallInv
<1>9. NoneUnder'
  <2>1. ASSUME NEW p \in Proc, pc'[p] = "write"
        PROVE  pc[p] = "write" /\ cur[p] \in Rpc /\ cur[p] # q
    BY <2>1, CurIs DEF Store, Moves
  <2> QED
    BY <1>1, <1>2, <2>1 DEF Store, NoneUnder, NoMsg, On
<1>10. MsgInv' /\ TagsDistinct'
  BY <1>1, <1>2 DEF Store, MsgInv, AnswerTo, TagsDistinct
<1> QED
  BY <1>3, <1>4, <1>5, <1>6, <1>7, <1>8, <1>9, <1>10 DEF Store

(* mntfree of the structure that p is done with: what does not depend on   *)
(* where the structure and its tag go.                                     *)
Frees(p, r) ==
  /\ pc[p] = "free" /\ r = cur[p] /\ rpc[r].done # 0
  /\ rpc' \in [Rpc -> Mntrpc]
  /\ \A s \in Rpc : s # r => rpc'[s] = rpc[s] /\ (On(rpcfree', s) <=> On(rpcfree, s))
  /\ ~InUse(r)'
  /\ cur' = [cur EXCEPT ![p] = rpc[r].flushed]
  /\ pc' = [pc EXCEPT ![p] = IF rpc[r].flushed = Nil THEN "idle" ELSE "free"]
  /\ UNCHANGED <<queue, srv, wire, calls>>

(* What mntfree keeps, wherever the structure and its tag go.              *)
LEMMA FreesCommon ==
  ASSUME TypeOK, Store, NEW p \in Proc, NEW r \in Rpc, Frees(p, r)
  PROVE  CurInv' /\ ChainInv' /\ QueueInv' /\ CallInv' /\ MsgInv' /\ TagsDistinct'
<1>1. /\ cur \in [Proc -> Rpc \cup {Nil}] /\ pc \in [Proc -> Places] /\ Nil \notin Rpc
      /\ rpc \in [Rpc -> Mntrpc]
  BY Types
<1>2. InUse(r) /\ rpc[r].done # 0 /\ cur[p] = r /\ pc[p] = "free"
  <2>1. pc[p] # "idle" /\ rpc[r].done # 0 /\ cur[p] = r /\ pc[p] = "free"
    BY DEF Frees
  <2> QED
    BY <2>1, CurIs DEF Store
<1>3. ASSUME NEW s \in Rpc
      PROVE  (InUse(s)' <=> InUse(s) /\ s # r) /\ (s # r => rpc'[s] = rpc[s])
  BY <1>3 DEF Frees, InUse
<1>4. rpc[r].flushed \in Rpc \cup {Nil} /\ rpc[r].flushed # r
  BY <1>1, <1>2 DEF Mntrpc, Store, CurInv
<1>5. \A w \in Proc : /\ cur'[w] = IF w = p THEN rpc[r].flushed ELSE cur[w]
                      /\ w # p => pc'[w] = pc[w]
                      /\ pc'[p] = IF rpc[r].flushed = Nil THEN "idle" ELSE "free"
  BY <1>1 DEF Frees
<1>6. \A s \in Rpc : InUse(s) /\ s # r => rpc[s].flushed # r
  BY <1>1, <1>2 DEF Store, CurInv
<1>7. CurInv'
  <2>1. ASSUME NEW w \in Proc, NEW u, u = cur'[w]
        PROVE  IF pc'[w] = "idle" THEN u = Nil ELSE u \in Rpc /\ InUse(u)'
    <3>1. CASE w = p
      <4>1. u = rpc[r].flushed /\ (pc'[w] = "idle" <=> u = Nil)
        BY <1>5, <2>1, <3>1
      <4>2. u # Nil => u \in Rpc /\ InUse(u) /\ u # r
        BY <1>2, <1>4, <4>1 DEF Store, ChainInv
      <4> QED
        BY <1>3, <4>1, <4>2
    <3>2. CASE w # p
      <4>1. cur[w] # r
        BY <1>1, <1>2, <3>2 DEF Store, CurInv
      <4>2. u = cur[w] /\ pc'[w] = pc[w]
        BY <1>5, <2>1, <3>2
      <4>3. IF pc[w] = "idle" THEN u = Nil ELSE u \in Rpc /\ InUse(u)
        BY <4>2 DEF Store, CurInv
      <4> QED
        BY <1>3, <4>1, <4>2, <4>3
    <3> QED
      BY <3>1, <3>2
  <2>2. ASSUME NEW w \in Proc, NEW v \in Proc, cur'[w] # Nil, cur'[w] = cur'[v]
        PROVE  w = v
    <3>1. \A x \in Proc : cur[x] # Nil => rpc[r].flushed # cur[x]
      BY <1>2 DEF Store, CurInv
    <3> QED
      BY <1>5, <2>2, <3>1 DEF Store, CurInv
  <2>3. ASSUME NEW w \in Proc, NEW s \in Rpc, InUse(s)', cur'[w] # Nil
        PROVE  rpc'[s].flushed # cur'[w]
    <3>1. InUse(s) /\ s # r /\ rpc'[s] = rpc[s]
      BY <1>3, <2>3
    <3>2. CASE w = p
      <4>1. cur'[w] = rpc[r].flushed
        BY <1>5, <3>2
      <4> QED
        BY <1>2, <2>3, <3>1, <4>1 DEF Store, ChainInv
    <3>3. CASE w # p
      BY <1>5, <2>3, <3>1, <3>3 DEF Store, CurInv
    <3> QED
      BY <3>2, <3>3
  <2>4. \A w \in Proc : IF pc'[w] = "idle" THEN cur'[w] = Nil ELSE cur'[w] \in Rpc /\ InUse(cur[w])'
    BY <2>1 DEF InUse, On
  <2> QED
    BY <2>2, <2>3, <2>4 DEF CurInv
<1>8. ChainInv'
  <2>1. \A s \in Rpc : rpc[s].flushed \in Rpc \cup {Nil}
    BY <1>1 DEF Mntrpc
  <2>2. ASSUME NEW s \in Rpc, InUse(s)', rpc'[s].flushed # Nil
        PROVE  rpc[s].flushed \in Rpc /\ InUse(rpc[s].flushed) /\ rpc[s].flushed # r
               /\ rpc'[s] = rpc[s] /\ InUse(s)
    BY <1>3, <1>6, <2>1, <2>2 DEF Store, ChainInv
  <2>3. \A s \in Rpc : InUse(s)' /\ rpc'[s].flushed # Nil =>
           \E u \in Rpc : u = rpc'[s].flushed /\ InUse(u)'
    BY <1>3, <2>2
  <2>4. \A s \in Rpc : InUse(s)' /\ rpc'[s].flushed # Nil => InUse(rpc[s].flushed)'
    BY <2>3 DEF InUse
  <2>5. \A s, u \in Rpc : InUse(s)' /\ InUse(u)' /\ rpc'[s].flushed # Nil
                            /\ rpc'[s].flushed = rpc'[u].flushed => s = u
    BY <2>2 DEF Store, ChainInv
  <2> QED
    BY <2>4, <2>5 DEF ChainInv
<1>9. QueueInv' /\ CallInv' /\ MsgInv' /\ TagsDistinct'
  <2>1. queue' = queue /\ calls' = calls /\ srv' = srv /\ wire' = wire
    BY DEF Frees
  <2>2. QueueInv'
    BY <1>2, <1>3, <2>1 DEF Store, QueueInv, On, Distinct
  <2>3. CallInv' /\ MsgInv' /\ TagsDistinct'
    BY <1>3, <2>1 DEF Store, CallInv, MsgInv, AnswerTo, TagsDistinct
  <2> QED
    BY <2>2, <2>3
<1> QED
  BY <1>7, <1>8, <1>9

(* Where the structure and its tag go: to the free list with the tag that  *)
(* it holds ...                                                            *)
LEMMA FreesKept ==
  ASSUME TypeOK, Store, NEW p \in Proc, NEW r \in Rpc, Frees(p, r),
         rpc[r].done # 2, rpc' = rpc, rpcfree' = <<r>> \o rpcfree, tagmask' = tagmask
  PROVE  FreeInv' /\ TagInv' /\ NoneUnder'
<1>1. rpcfree \in Seq(Rpc) /\ Distinct(rpcfree) /\ rpc[r] \in Mntrpc
  BY Types DEF Store, FreeInv
<1>2. pc[p] # "idle" /\ cur[p] = r /\ rpc[r].done # 0
  BY DEF Frees
<1>3. InUse(r) /\ ~On(rpcfree, r) /\ rpc[r].tag # 0 /\ rpc[r].done = 1
  BY <1>1, <1>2, CurIs DEF Store, InUse, Mntrpc
<1>4. Distinct(rpcfree') /\ \A s : On(rpcfree', s) <=> s = r \/ On(rpcfree, s)
  BY <1>1, <1>3, ConsOn
<1>5. FreeInv'
  BY <1>3, <1>4 DEF Store, FreeInv
<1>6. ASSUME NEW s \in Rpc PROVE Holds(s)' <=> Holds(s)
  BY <1>3, <1>4 DEF Holds
<1>7. TagInv'
  BY <1>6 DEF Store, TagInv
<1>8. srv' = srv /\ wire' = wire /\ pc \in [Proc -> Places]
      /\ pc' = [pc EXCEPT ![p] = IF rpc[r].flushed = Nil THEN "idle" ELSE "free"]
      /\ cur' = [cur EXCEPT ![p] = rpc[r].flushed]
      /\ cur \in [Proc -> Rpc \cup {Nil}]
  BY Types DEF Frees
<1>9. \A t : NoMsg(t)' <=> NoMsg(t)
  BY <1>8 DEF NoMsg
<1>10. NoneUnder'
  <2>1. \A t \in Tag \ tagmask : NoMsg(t)'
    BY <1>9 DEF Store, NoneUnder
  <2>2. ASSUME NEW s \in Rpc, On(rpcfree', s) \/ (InUse(s)' /\ rpc[s].done = 1)
        PROVE  NoMsg(rpc[s].tag)
    <3>1. CASE s = r
      BY <1>3, <3>1 DEF Store, NoneUnder
    <3>2. CASE s # r
      BY <1>4, <2>2, <3>2 DEF Store, NoneUnder, InUse
    <3> QED
      BY <3>1, <3>2
  <2>3. ASSUME NEW w \in Proc, pc'[w] = "write"
        PROVE  cur'[w] = cur[w] /\ rpc[cur[w]].done = 0 /\ NoMsg(rpc[cur[w]].tag)
    BY <1>8, <2>3 DEF Store, NoneUnder
  <2>4. \A s \in Rpc : On(rpcfree, s)' \/ (InUse(s)' /\ rpc'[s].done = 1) => NoMsg(rpc[s].tag)'
    BY <1>8, <2>2 DEF On, NoMsg
  <2>5. \A w \in Proc : pc'[w] = "write" => rpc'[cur'[w]].done = 0 /\ NoMsg(rpc[cur[w]].tag)'
    BY <1>8, <2>3 DEF NoMsg
  <2> QED
    BY <2>1, <2>4, <2>5 DEF NoneUnder
<1> QED
  BY <1>5, <1>7, <1>10

(* ... or with another, if it was given up ...                             *)
LEMMA FreesRetagged ==
  ASSUME TypeOK, Store, NEW p \in Proc, NEW r \in Rpc, Frees(p, r),
         NEW tag \in Tag \ tagmask, rpc'[r].tag = tag,
         rpc[r].done = 2, rpcfree' = <<r>> \o rpcfree, tagmask' = tagmask \cup {tag}
  PROVE  FreeInv' /\ TagInv' /\ NoneUnder'
<1>1. rpcfree \in Seq(Rpc) /\ Distinct(rpcfree) /\ rpc[r] \in Mntrpc /\ tag # 0
  BY Types DEF Store, FreeInv
<1>2. pc[p] # "idle" /\ cur[p] = r /\ \A s \in Rpc : s # r => rpc'[s] = rpc[s]
  BY DEF Frees
<1>3. InUse(r) /\ ~On(rpcfree, r) /\ ~Holds(r)
  BY <1>1, <1>2, CurIs DEF Store, InUse, Holds
<1>4. Distinct(rpcfree') /\ \A s : On(rpcfree', s) <=> s = r \/ On(rpcfree, s)
  BY <1>1, <1>3, ConsOn
<1>5. FreeInv'
  BY <1>1, <1>2, <1>4 DEF Store, FreeInv
<1>6. ASSUME NEW s \in Rpc PROVE Holds(s)' <=> Holds(s) \/ s = r
  BY <1>1, <1>2, <1>4 DEF Holds
<1>7. TagInv'
  <2>1. \A s \in Rpc : Holds(s) => s # r /\ rpc'[s] = rpc[s] /\ rpc[s].tag # tag
    BY <1>2, <1>3 DEF Store, TagInv
  <2>2. ASSUME NEW s \in Rpc, Holds(s)' PROVE rpc'[s].tag \in tagmask'
    BY <1>6, <2>1, <2>2 DEF Store, TagInv
  <2>3. ASSUME NEW s \in Rpc, NEW u \in Rpc, Holds(s)', Holds(u)', rpc'[s].tag = rpc'[u].tag
        PROVE  s = u
    BY <1>6, <2>1, <2>3 DEF Store, TagInv
  <2> QED
    BY <2>2, <2>3 DEF TagInv
<1>8. srv' = srv /\ wire' = wire /\ pc \in [Proc -> Places]
      /\ pc' = [pc EXCEPT ![p] = IF rpc[r].flushed = Nil THEN "idle" ELSE "free"]
      /\ cur' = [cur EXCEPT ![p] = rpc[r].flushed]
      /\ cur \in [Proc -> Rpc \cup {Nil}]
  BY Types DEF Frees
<1>9. \A t : NoMsg(t)' <=> NoMsg(t)
  BY <1>8 DEF NoMsg
<1>10. NoneUnder'
  <2>1. \A t \in Tag \ tagmask' : NoMsg(t)'
    BY <1>9 DEF Store, NoneUnder
  <2>2. ASSUME NEW s \in Rpc, On(rpcfree', s) \/ (InUse(s)' /\ rpc'[s].done = 1), NEW u,
               u = rpc'[s].tag
        PROVE  NoMsg(u)
    <3>1. CASE s = r
      BY <2>2, <3>1 DEF Store, NoneUnder
    <3>2. CASE s # r
      BY <1>2, <1>4, <2>2, <3>2 DEF Store, NoneUnder, InUse
    <3> QED
      BY <3>1, <3>2
  <2>3. ASSUME NEW w \in Proc, pc'[w] = "write", NEW u, u = rpc'[cur'[w]].tag
        PROVE  rpc'[cur'[w]].done = 0 /\ NoMsg(u)
    <3>1. pc[w] = "write" /\ w # p /\ cur'[w] = cur[w]
      BY <1>8, <2>3
    <3>2. cur[w] \in Rpc /\ cur[w] # r
      BY <1>1, <1>2, <3>1, CurIs, Types DEF Store, CurInv
    <3>3. rpc'[cur'[w]] = rpc[cur[w]]
      BY <1>2, <3>1, <3>2
    <3> QED
      BY <2>3, <3>1, <3>3 DEF Store, NoneUnder
  <2>4. \A s \in Rpc : On(rpcfree, s)' \/ (InUse(s)' /\ rpc'[s].done = 1) => NoMsg(rpc[s].tag)'
    BY <1>8, <2>2 DEF On, NoMsg
  <2>5. \A w \in Proc : pc'[w] = "write" => rpc'[cur'[w]].done = 0 /\ NoMsg(rpc[cur[w]].tag)'
    BY <1>8, <2>3 DEF NoMsg
  <2> QED
    BY <2>1, <2>4, <2>5 DEF NoneUnder
<1> QED
  BY <1>5, <1>7, <1>10

(* ... or back to the heap, the tag to the allocator.                      *)
LEMMA FreesHeap ==
  ASSUME TypeOK, Store, NEW p \in Proc, NEW r \in Rpc, Frees(p, r),
         rpc'[r].tag = 0, rpcfree' = rpcfree,
         tagmask' = IF rpc[r].done = 2 THEN tagmask ELSE tagmask \ {rpc[r].tag}
  PROVE  FreeInv' /\ TagInv' /\ NoneUnder'
<1>1. rpcfree \in Seq(Rpc) /\ Distinct(rpcfree) /\ rpc[r] \in Mntrpc
  BY Types DEF Store, FreeInv
<1>2. /\ pc[p] # "idle" /\ cur[p] = r /\ rpc[r].done # 0
      /\ \A s \in Rpc : s # r => rpc'[s] = rpc[s]
  BY DEF Frees
<1>3. InUse(r) /\ ~On(rpcfree, r)
  BY <1>2, CurIs DEF Store, InUse
<1>4. rpc[r].done # 2 => Holds(r) /\ NoMsg(rpc[r].tag)
  BY <1>1, <1>2, <1>3 DEF Holds, InUse, Mntrpc, Store, NoneUnder
<1>5. FreeInv'
  BY <1>2, <1>3 DEF Store, FreeInv
<1>6. ASSUME NEW s \in Rpc PROVE Holds(s)' <=> Holds(s) /\ s # r
  BY <1>2, <1>3 DEF Holds
<1>7. TagInv'
  <2>1. ASSUME NEW s \in Rpc, Holds(s)' PROVE rpc'[s].tag \in tagmask'
    <3>1. Holds(s) /\ s # r /\ rpc'[s] = rpc[s]
      BY <1>2, <1>6, <2>1
    <3>2. rpc[s].tag \in tagmask
      BY <3>1 DEF Store, TagInv
    <3>3. rpc[r].done # 2 => rpc[s].tag # rpc[r].tag
      BY <1>4, <3>1 DEF Store, TagInv
    <3> QED
      BY <3>1, <3>2, <3>3
  <2>2. ASSUME NEW s \in Rpc, NEW u \in Rpc, Holds(s)', Holds(u)', rpc'[s].tag = rpc'[u].tag
        PROVE  s = u
    BY <1>2, <1>6, <2>2 DEF Store, TagInv
  <2> QED
    BY <2>1, <2>2 DEF TagInv
<1>8. srv' = srv /\ wire' = wire /\ pc \in [Proc -> Places]
      /\ pc' = [pc EXCEPT ![p] = IF rpc[r].flushed = Nil THEN "idle" ELSE "free"]
      /\ cur' = [cur EXCEPT ![p] = rpc[r].flushed]
      /\ cur \in [Proc -> Rpc \cup {Nil}]
  BY Types DEF Frees
<1>9. \A t : NoMsg(t)' <=> NoMsg(t)
  BY <1>8 DEF NoMsg
<1>10. NoneUnder'
  <2>1. \A t \in Tag \ tagmask' : NoMsg(t)'
    BY <1>4, <1>9 DEF Store, NoneUnder
  <2>2. ASSUME NEW s \in Rpc, On(rpcfree', s) \/ (InUse(s)' /\ rpc'[s].done = 1), NEW u,
               u = rpc'[s].tag
        PROVE  NoMsg(u)
    <3>1. s # r
      BY <1>3, <2>2 DEF Frees
    <3> QED
      BY <1>2, <2>2, <3>1 DEF Store, NoneUnder, InUse
  <2>3. ASSUME NEW w \in Proc, pc'[w] = "write", NEW u, u = rpc'[cur'[w]].tag
        PROVE  rpc'[cur'[w]].done = 0 /\ NoMsg(u)
    <3>1. pc[w] = "write" /\ w # p /\ cur'[w] = cur[w]
      BY <1>8, <2>3
    <3>2. cur[w] \in Rpc /\ cur[w] # r
      BY <1>2, <3>1, CurIs, Types DEF Store, CurInv
    <3>3. rpc'[cur'[w]] = rpc[cur[w]]
      BY <1>2, <3>1, <3>2
    <3> QED
      BY <2>3, <3>1, <3>3 DEF Store, NoneUnder
  <2>4. \A s \in Rpc : On(rpcfree, s)' \/ (InUse(s)' /\ rpc'[s].done = 1) => NoMsg(rpc[s].tag)'
    BY <1>8, <2>2 DEF On, NoMsg
  <2>5. \A w \in Proc : pc'[w] = "write" => rpc'[cur'[w]].done = 0 /\ NoMsg(rpc[cur[w]].tag)'
    BY <1>8, <2>3 DEF NoMsg
  <2> QED
    BY <2>1, <2>4, <2>5 DEF NoneUnder
<1> QED
  BY <1>5, <1>7, <1>10

(* mntralloc: a structure that nobody uses becomes the head of p's chain,  *)
(* on the queue, with a request that is yet to be written.                 *)
Takes(p, r) ==
  /\ ~InUse(r) /\ pc[p] \in {"idle", "flush"}
  /\ rpc' \in [Rpc -> Mntrpc]
  /\ rpc'[r].tag \in Tag /\ rpc'[r].done = 0 /\ rpc'[r].ans = Pending
  /\ rpc'[r].call \in 1..calls' /\ rpc'[r].flushed = cur[p]
  /\ \A s \in Rpc : s # r => rpc'[s] = rpc[s]
  /\ rpcfree' \in Seq(Rpc) /\ Distinct(rpcfree')
  /\ \A s \in Rpc : On(rpcfree', s) <=> On(rpcfree, s) /\ s # r
  /\ queue' = <<r>> \o queue
  /\ cur' = [cur EXCEPT ![p] = r]
  /\ pc' = [pc EXCEPT ![p] = "write"]
  /\ calls' \in Nat /\ calls <= calls'
  /\ UNCHANGED <<srv, wire>>

(* What mntralloc keeps, wherever the structure and its tag come from.     *)
LEMMA TakesCommon ==
  ASSUME TypeOK, Store, NEW p \in Proc, NEW r \in Rpc, Takes(p, r)
  PROVE  /\ CurInv' /\ ChainInv' /\ QueueInv' /\ CallInv' /\ TagsDistinct' /\ FreeInv'
         /\ queue' \in Seq(Rpc)
         /\ \A s \in Rpc : InUse(s)' <=> InUse(s) \/ s = r
<1>1. /\ cur \in [Proc -> Rpc \cup {Nil}] /\ pc \in [Proc -> Places] /\ Nil \notin Rpc
      /\ rpc \in [Rpc -> Mntrpc] /\ queue \in Seq(Rpc) /\ calls \in Nat /\ 0 \notin Tag
  BY Types
<1>2. /\ ~InUse(r) /\ rpc'[r].tag \in Tag /\ rpc'[r].done = 0 /\ rpc'[r].ans = Pending
      /\ rpc'[r].call \in 1..calls' /\ rpc'[r].flushed = cur[p]
      /\ \A s \in Rpc : s # r => rpc'[s] = rpc[s]
      /\ \A s \in Rpc : On(rpcfree', s) <=> On(rpcfree, s) /\ s # r
      /\ calls' \in Nat /\ calls <= calls'
  BY DEF Takes
<1>3. ASSUME NEW s \in Rpc
      PROVE  (InUse(s)' <=> InUse(s) \/ s = r) /\ (s # r => rpc'[s] = rpc[s])
  BY <1>1, <1>2, <1>3 DEF InUse
<1>4. \A w \in Proc : /\ cur'[w] = IF w = p THEN r ELSE cur[w]
                      /\ pc'[w] = IF w = p THEN "write" ELSE pc[w]
  BY <1>1 DEF Takes
<1>5. \A w \in Proc : cur[w] # r
  BY <1>1, <1>2 DEF Store, CurInv
<1>6. \A s \in Rpc : InUse(s) => s # r /\ rpc[s].flushed # r
  <2>1. r # Nil /\ ~InUse(r)
    BY <1>1, <1>2
  <2> QED
    BY <2>1 DEF Store, ChainInv
<1>7. CurInv'
  <2>1. ASSUME NEW w \in Proc, NEW u, u = cur'[w]
        PROVE  IF pc'[w] = "idle" THEN u = Nil ELSE u \in Rpc /\ InUse(u)'
    <3>1. CASE w = p
      BY <1>3, <1>4, <2>1, <3>1
    <3>2. CASE w # p
      <4>1. IF pc[w] = "idle" THEN u = Nil ELSE u \in Rpc /\ InUse(u)
        BY <1>4, <2>1, <3>2 DEF Store, CurInv
      <4> QED
        BY <1>3, <1>4, <3>2, <4>1
    <3> QED
      BY <3>1, <3>2
  <2>2. \A w \in Proc, v \in Proc : cur'[w] # Nil /\ cur'[w] = cur'[v] => w = v
    BY <1>4, <1>5 DEF Store, CurInv
  <2>3. ASSUME NEW w \in Proc, NEW s \in Rpc, InUse(s)', cur'[w] # Nil
        PROVE  rpc'[s].flushed # cur'[w]
    <3>1. CASE s = r
      BY <1>2, <1>4, <1>5, <2>3, <3>1 DEF Store, CurInv
    <3>2. CASE s # r
      <4>1. InUse(s) /\ rpc'[s] = rpc[s]
        BY <1>3, <2>3, <3>2
      <4> QED
        BY <1>4, <1>6, <2>3, <4>1 DEF Store, CurInv
    <3> QED
      BY <3>1, <3>2
  <2>4. \A w \in Proc : IF pc'[w] = "idle" THEN cur'[w] = Nil ELSE cur'[w] \in Rpc /\ InUse(cur[w])'
    BY <2>1 DEF InUse, On
  <2> QED
    BY <2>2, <2>3, <2>4 DEF CurInv
<1>8. ChainInv'
  <2>1. \A s \in Rpc : rpc[s].flushed \in Rpc \cup {Nil}
    BY <1>1 DEF Mntrpc
  <2>2. cur[p] # Nil => cur[p] \in Rpc /\ InUse(cur[p])
    BY <1>1 DEF Store, CurInv
  <2>3. ASSUME NEW s \in Rpc, InUse(s)', rpc'[s].flushed # Nil, NEW u, u = rpc'[s].flushed
        PROVE  u \in Rpc /\ InUse(u)'
    <3>1. CASE s = r
      BY <1>2, <1>3, <2>2, <2>3, <3>1
    <3>2. CASE s # r
      BY <1>3, <2>1, <2>3, <3>2 DEF Store, ChainInv
    <3> QED
      BY <3>1, <3>2
  <2>4. ASSUME NEW s \in Rpc, NEW u \in Rpc, InUse(s)', InUse(u)', rpc'[s].flushed # Nil,
               rpc'[s].flushed = rpc'[u].flushed
        PROVE  s = u
    <3>1. CASE s # r /\ u # r
      BY <1>3, <2>4, <3>1 DEF Store, ChainInv
    <3>2. CASE s = r /\ u # r
      BY <1>2, <1>3, <2>4, <3>2 DEF Store, CurInv
    <3>3. CASE s # r /\ u = r
      BY <1>2, <1>3, <2>4, <3>3 DEF Store, CurInv
    <3> QED
      BY <3>1, <3>2, <3>3
  <2>5. \A s \in Rpc : InUse(s)' /\ rpc'[s].flushed # Nil => InUse(rpc[s].flushed)'
    BY <2>3 DEF InUse, On
  <2> QED
    BY <2>4, <2>5 DEF ChainInv
<1>9. /\ queue' \in Seq(Rpc) /\ Distinct(queue')
      /\ \A s : On(queue', s) <=> s = r \/ On(queue, s)
  <2>1. queue' = <<r>> \o queue /\ ~On(queue, r)
    BY <1>2 DEF Store, QueueInv, Takes
  <2> QED
    BY <1>1, <2>1, ConsOn DEF Store, QueueInv
<1>10. QueueInv'
  <2>1. \A s \in Rpc : On(queue', s) <=> InUse(s)' /\ rpc'[s].done = 0
    BY <1>2, <1>3, <1>9 DEF Store, QueueInv
  <2> QED
    BY <1>9, <2>1 DEF QueueInv
<1>11. CallInv'
  BY <1>1, <1>2, <1>3 DEF Store, CallInv, Pending, Call
<1>12. FreeInv'
  BY <1>2 DEF Store, FreeInv, Takes
<1>13. TagsDistinct'
  BY DEF Store, TagsDistinct, Takes
<1> QED
  BY <1>3, <1>7, <1>8, <1>9, <1>10, <1>11, <1>12, <1>13

(* ... whose tag it had on the free list, or that is new.                  *)
LEMMA TakesStore ==
  ASSUME TypeOK, Store, NEW p \in Proc, NEW r \in Rpc, Takes(p, r),
         NEW tag, tag = rpc'[r].tag, tagmask' = tagmask \cup {tag},
         \/ On(rpcfree, r) /\ tag = rpc[r].tag
         \/ ~Holds(r) /\ tag \notin tagmask
  PROVE  Store' /\ queue' \in Seq(Rpc)
<1>1. /\ CurInv' /\ ChainInv' /\ QueueInv' /\ CallInv' /\ TagsDistinct' /\ FreeInv'
      /\ queue' \in Seq(Rpc)
      /\ \A s \in Rpc : InUse(s)' <=> InUse(s) \/ s = r
  BY TakesCommon
<1>2. /\ ~InUse(r) /\ rpc'[r].tag \in Tag /\ rpc'[r].done = 0
      /\ \A s \in Rpc : s # r => rpc'[s] = rpc[s]
      /\ \A s \in Rpc : On(rpcfree', s) <=> On(rpcfree, s) /\ s # r
      /\ srv' = srv /\ wire' = wire /\ 0 \notin Tag
      /\ cur' = [cur EXCEPT ![p] = r]
      /\ pc' = [pc EXCEPT ![p] = "write"]
      /\ pc \in [Proc -> Places] /\ cur \in [Proc -> Rpc \cup {Nil}]
  BY Types DEF Takes
<1>3. ASSUME NEW s \in Rpc PROVE Holds(s)' <=> Holds(s) \/ s = r
  BY <1>2 DEF Holds
<1>4. ASSUME NEW s \in Rpc, Holds(s), s # r PROVE rpc[s].tag # tag
  <2>1. On(rpcfree, r) => Holds(r)
    BY DEF Holds, Store, FreeInv
  <2> QED
    BY <1>4, <2>1 DEF Store, TagInv
<1>5. TagInv'
  <2>1. \A s \in Rpc : Holds(s) => rpc[s].tag \in tagmask
    BY DEF Store, TagInv
  <2>2. ASSUME NEW s \in Rpc, Holds(s)' PROVE rpc'[s].tag \in tagmask'
    BY <1>2, <1>3, <2>1, <2>2
  <2>3. ASSUME NEW s \in Rpc, NEW u \in Rpc, Holds(s)', Holds(u)', rpc'[s].tag = rpc'[u].tag
        PROVE  s = u
    <3>1. CASE s # r /\ u # r
      BY <1>2, <1>3, <2>3, <3>1 DEF Store, TagInv
    <3>2. CASE s = r /\ u # r
      BY <1>2, <1>3, <1>4, <2>3, <3>2
    <3>3. CASE s # r /\ u = r
      BY <1>2, <1>3, <1>4, <2>3, <3>3
    <3> QED
      BY <3>1, <3>2, <3>3
  <2> QED
    BY <2>2, <2>3 DEF TagInv
<1>6. NoMsg(tag)
  BY <1>2 DEF Store, NoneUnder
<1>7. \A t : NoMsg(t)' <=> NoMsg(t)
  BY <1>2 DEF NoMsg
<1>8. NoneUnder'
  <2>1. \A t \in Tag \ tagmask' : NoMsg(t)'
    BY <1>7 DEF Store, NoneUnder
  <2>2. ASSUME NEW s \in Rpc, On(rpcfree', s) \/ (InUse(s)' /\ rpc'[s].done = 1), NEW u,
               u = rpc'[s].tag
        PROVE  NoMsg(u)
    <3>1. s # r
      BY <1>2, <2>2
    <3> QED
      BY <1>1, <1>2, <2>2, <3>1 DEF Store, NoneUnder
  <2>3. ASSUME NEW w \in Proc, pc'[w] = "write", NEW u, u = rpc'[cur'[w]].tag
        PROVE  rpc'[cur'[w]].done = 0 /\ NoMsg(u)
    <3>1. CASE w = p
      BY <1>2, <1>6, <2>3, <3>1
    <3>2. CASE w # p
      <4>1. pc[w] = "write" /\ cur'[w] = cur[w]
        BY <1>2, <2>3, <3>2
      <4>2. cur[w] \in Rpc /\ cur[w] # r
        BY <1>2, <4>1, CurIs DEF Store
      <4>3. rpc'[cur'[w]] = rpc[cur[w]]
        BY <1>2, <4>1, <4>2
      <4> QED
        BY <2>3, <4>1, <4>3 DEF Store, NoneUnder
    <3> QED
      BY <3>1, <3>2
  <2>4. \A s \in Rpc : On(rpcfree, s)' \/ (InUse(s)' /\ rpc'[s].done = 1) => NoMsg(rpc[s].tag)'
    BY <1>7, <2>2 DEF On, NoMsg
  <2>5. \A w \in Proc : pc'[w] = "write" => rpc'[cur'[w]].done = 0 /\ NoMsg(rpc[cur[w]].tag)'
    BY <1>7, <2>3 DEF NoMsg
  <2> QED
    BY <2>1, <2>4, <2>5 DEF NoneUnder
<1>9. MsgInv'
  <2> SUFFICES ASSUME NEW s \in Rpc, InUse(s)', rpc'[s].done = 0
               PROVE  /\ \A i \in DOMAIN srv : srv[i].tag = rpc'[s].tag =>
                           srv[i].call = rpc'[s].call /\ srv[i].old = rpc'[s].old
                      /\ \A i \in DOMAIN wire : wire[i].tag = rpc'[s].tag =>
                           wire[i].ans = AnswerTo(rpc'[s].call, rpc'[s].old)
    BY <1>2 DEF MsgInv, AnswerTo
  <2>1. CASE s = r
    BY <1>6, <2>1 DEF NoMsg
  <2>2. CASE s # r
    BY <1>1, <1>2, <2>2 DEF Store, MsgInv
  <2> QED
    BY <2>1, <2>2
<1> QED
  BY <1>1, <1>5, <1>8, <1>9 DEF Store

(* The structure r, and no other, is filled in for a new request of p.     *)
Filled(p, r, tag, call, old, flushed) ==
  /\ rpc' \in [Rpc -> Mntrpc]
  /\ rpc'[r].tag = tag /\ rpc'[r].done = 0 /\ rpc'[r].ans = Pending
  /\ rpc'[r].call = call /\ rpc'[r].flushed = flushed /\ rpc'[r].old = old
  /\ \A s \in Rpc : s # r => rpc'[s] = rpc[s]
  /\ queue' = <<r>> \o queue
  /\ cur' = [cur EXCEPT ![p] = r]
  /\ pc' = [pc EXCEPT ![p] = "write"]

(* That is what Enqueue does.                                              *)
LEMMA EnqueueIs ==
  ASSUME rpc \in [Rpc -> Mntrpc], NEW p \in Proc, NEW r \in Rpc, NEW tag \in Tag,
         NEW call \in Call, NEW old \in Tag \cup {0}, NEW flushed \in Rpc \cup {Nil},
         Enqueue(p, r, tag, call, old, flushed)
  PROVE  Filled(p, r, tag, call, old, flushed)
<1> DEFINE v == [tag |-> tag, call |-> call, old |-> old, done |-> 0,
                 flushed |-> flushed, ans |-> Pending]
<1>1. v \in Mntrpc
  BY DEF Mntrpc
<1>2. rpc' = [rpc EXCEPT ![r] = v]
  BY DEF Enqueue
<1>3. /\ v.tag = tag /\ v.done = 0 /\ v.ans = Pending
      /\ v.call = call /\ v.flushed = flushed /\ v.old = old
  OBVIOUS
<1> HIDE DEF v
<1>4. rpc' \in [Rpc -> Mntrpc] /\ rpc'[r] = v /\ \A s \in Rpc : s # r => rpc'[s] = rpc[s]
  BY <1>1, <1>2
<1> QED
  BY <1>3, <1>4 DEF Enqueue, Go, Filled

(* A request takes the head of the free list, or memory and a new tag.     *)
LEMMA RequestStore ==
  ASSUME TypeOK, Store, NEW p \in Proc, pc[p] \in {"idle", "flush"},
         NEW call \in 1..calls', NEW old \in Tag \cup {0}, NEW fl, fl = cur[p],
         Request(p, call, old, fl),
         calls' \in 0..MaxCalls, calls <= calls', UNCHANGED <<srv, wire>>
  PROVE  /\ Store'
         /\ rpc' \in [Rpc -> Mntrpc] /\ queue' \in Seq(Rpc)
         /\ rpcfree' \in Seq(Rpc) /\ Len(rpcfree') <= KeepFree
         /\ tagmask' \subseteq Tag
         /\ pc' \in [Proc -> Places] /\ cur' \in [Proc -> Rpc \cup {Nil}]
         /\ \E r \in Rpc : Takes(p, r) /\ rpc'[r].call = call /\ rpc'[r].old = old
<1>1. /\ rpc \in [Rpc -> Mntrpc] /\ rpcfree \in Seq(Rpc) /\ Len(rpcfree) <= KeepFree
      /\ pc \in [Proc -> Places] /\ cur \in [Proc -> Rpc \cup {Nil}]
      /\ tagmask \subseteq Tag /\ KeepFree \in Nat /\ MaxTag \in Nat
      /\ call \in Call /\ calls' \in Nat /\ fl \in Rpc \cup {Nil} /\ Distinct(rpcfree)
  <2>1. TypeOK /\ MaxCalls \in Nat /\ calls' \in Nat /\ KeepFree \in Nat /\ MaxTag \in Nat
    BY BoundAssumption
  <2>2. Distinct(rpcfree)
    BY DEF Store, FreeInv
  <2> QED
    BY <2>1, <2>2 DEF TypeOK, Call
<1>2. CASE rpcfree # <<>> /\ rpcfree' = Tail(rpcfree)
           /\ Enqueue(p, Head(rpcfree), rpc[Head(rpcfree)].tag, call, old, fl)
           /\ tagmask' = tagmask
  <2> DEFINE r == Head(rpcfree)
             tag == rpc[r].tag
  <2>1. r \in Rpc /\ On(rpcfree, r)
    BY <1>1, <1>2, HeadOn
  <2>2. tag \in Tag /\ tag \in tagmask
    <3>1. tag # 0 /\ rpc[r] \in Mntrpc
      BY <1>1, <2>1 DEF Store, FreeInv
    <3> QED
      BY <2>1, <3>1 DEF Mntrpc, Store, TagInv, Holds
  <2>3. Enqueue(p, r, tag, call, old, fl)
    BY <1>2
  <2>4. /\ rpcfree' \in Seq(Rpc) /\ Distinct(rpcfree') /\ Len(rpcfree') <= KeepFree
        /\ \A s \in Rpc : On(rpcfree', s) <=> On(rpcfree, s) /\ s # r
    <3>1. rpcfree' = Tail(rpcfree) /\ rpcfree # <<>>
      BY <1>2
    <3>2. Tail(rpcfree) \in Seq(Rpc) /\ Len(Tail(rpcfree)) <= KeepFree
      BY <1>1, <3>1
    <3> QED
      BY <1>1, <3>1, <3>2, TailOn, TailDistinct
  <2> HIDE DEF r, tag
  <2>5. Filled(p, r, tag, call, old, fl)
    <3>1. rpc \in [Rpc -> Mntrpc] /\ call \in Call /\ fl \in Rpc \cup {Nil}
      BY <1>1
    <3> QED
      BY <2>1, <2>2, <2>3, <3>1, EnqueueIs
  <2>6. Takes(p, r)
    BY <1>1, <2>1, <2>2, <2>4, <2>5 DEF Takes, InUse, Filled
  <2>7. Store' /\ queue' \in Seq(Rpc)
    <3>1. tagmask' = tagmask \cup {tag} /\ tag = rpc[r].tag /\ tag = rpc'[r].tag
      BY <1>2, <2>2, <2>5 DEF tag, Filled
    <3> QED
      BY <2>1, <2>6, <3>1, TakesStore
  <2> QED
    BY <1>1, <1>2, <2>1, <2>4, <2>5, <2>6, <2>7 DEF Places, InMountio, Filled
<1>3. CASE rpcfree = <<>> /\ Unused # {} /\ TagLeft
           /\ tagmask' = tagmask \cup {alloctag}
           /\ Enqueue(p, CHOOSE r \in Unused : TRUE, alloctag, call, old, fl)
           /\ rpcfree' = rpcfree
  <2> DEFINE r == CHOOSE r \in Unused : TRUE
             tag == alloctag
  <2>1. r \in Rpc /\ rpc[r].tag = 0
    BY <1>3 DEF Unused
  <2>2. tag \in Tag /\ tag \notin tagmask
    BY <1>1, <1>3, TagIs
  <2>3. Enqueue(p, r, tag, call, old, fl)
    BY <1>3
  <2>4. tagmask' = tagmask \cup {tag} /\ rpcfree' = rpcfree
    BY <1>3
  <2> HIDE DEF r, tag
  <2>5. Filled(p, r, tag, call, old, fl)
    <3>1. rpc \in [Rpc -> Mntrpc] /\ call \in Call /\ fl \in Rpc \cup {Nil}
      BY <1>1
    <3> QED
      BY <2>1, <2>2, <2>3, <3>1, EnqueueIs
  <2>6. ~InUse(r) /\ ~Holds(r) /\ ~On(rpcfree, r)
    BY <2>1 DEF InUse, Holds, Store, FreeInv
  <2>7. Takes(p, r)
    BY <1>1, <2>1, <2>2, <2>4, <2>5, <2>6 DEF Takes, Filled
  <2>8. Store' /\ queue' \in Seq(Rpc)
    <3>1. tag = rpc'[r].tag
      BY <2>5 DEF Filled
    <3> QED
      BY <2>1, <2>2, <2>4, <2>6, <2>7, <3>1, TakesStore
  <2> QED
    BY <1>1, <2>1, <2>2, <2>4, <2>5, <2>7, <2>8 DEF Places, InMountio, Filled
<1> QED
  BY <1>2, <1>3 DEF Request

(* mntfree changes the structure r only, which is in use no more.          *)
LEMMA FreeStore ==
  ASSUME TypeOK, Store, NEW p \in Proc, pc[p] = "free", NEW r, r = cur[p],
         rpc[r].done # 0, mntfree(r), cur' = [cur EXCEPT ![p] = rpc[r].flushed],
         pc' = [pc EXCEPT ![p] = IF rpc[r].flushed = Nil THEN "idle" ELSE "free"],
         UNCHANGED <<queue, srv, wire, calls>>
  PROVE  /\ Store' /\ Frees(p, r)
         /\ rpc' \in [Rpc -> Mntrpc]
         /\ rpcfree' \in Seq(Rpc) /\ Len(rpcfree') <= KeepFree
         /\ tagmask' \subseteq Tag
         /\ pc' \in [Proc -> Places] /\ cur' \in [Proc -> Rpc \cup {Nil}]
<1>1. /\ rpc \in [Rpc -> Mntrpc] /\ rpcfree \in Seq(Rpc) /\ Len(rpcfree) <= KeepFree
      /\ pc \in [Proc -> Places] /\ cur \in [Proc -> Rpc \cup {Nil}]
      /\ tagmask \subseteq Tag /\ KeepFree \in Nat /\ MaxTag \in Nat /\ 0 \notin Tag
  BY Types, BoundAssumption DEF TypeOK
<1>2. r \in Rpc /\ InUse(r) /\ rpc[r] \in Mntrpc /\ rpc[r].tag \in Tag /\ ~On(rpcfree, r)
  BY CurIs DEF Store, InUse
<1>3. pc' \in [Proc -> Places] /\ cur' \in [Proc -> Rpc \cup {Nil}]
  <2>1. rpc[r].flushed \in Rpc \cup {Nil}
    BY <1>2 DEF Mntrpc
  <2> QED
    BY <1>1, <2>1 DEF Places, InMountio
<1>4. ASSUME NEW v \in Mntrpc, rpc' = [rpc EXCEPT ![r] = v],
             NEW L, L = rpcfree', L \in Seq(Rpc),
             \A s \in Rpc : s # r => (On(L, s) <=> On(rpcfree, s)),
             v.tag = 0 \/ On(L, r)
      PROVE  Frees(p, r) /\ rpc'[r] = v /\ rpc' \in [Rpc -> Mntrpc]
  <2>1. rpc' \in [Rpc -> Mntrpc] /\ rpc'[r] = v /\ \A s \in Rpc : s # r => rpc'[s] = rpc[s]
    BY <1>1, <1>2, <1>4
  <2>2. ~InUse(r)'
    BY <1>4, <2>1 DEF InUse
  <2> QED
    BY <1>4, <2>1, <2>2 DEF Frees
<1>5. CASE Len(rpcfree) >= KeepFree
  <2>1. /\ rpc' = [rpc EXCEPT ![r] = Heap]
        /\ tagmask' = IF rpc[r].done = 2 THEN tagmask ELSE tagmask \ {rpc[r].tag}
        /\ rpcfree' = rpcfree
    BY <1>5 DEF mntfree
  <2>2. Heap \in Mntrpc /\ Heap.tag = 0
    BY DEF Heap, Mntrpc
  <2>3. Frees(p, r) /\ rpc'[r] = Heap /\ rpc' \in [Rpc -> Mntrpc]
    BY <1>1, <1>4, <2>1, <2>2
  <2>4. FreeInv' /\ TagInv' /\ NoneUnder'
    BY <1>2, <2>1, <2>2, <2>3, FreesHeap
  <2>5. CurInv' /\ ChainInv' /\ QueueInv' /\ CallInv' /\ MsgInv' /\ TagsDistinct'
    BY <1>2, <2>3, FreesCommon
  <2> QED
    BY <1>1, <1>3, <2>1, <2>3, <2>4, <2>5 DEF Store
<1>6. CASE ~(Len(rpcfree) >= KeepFree) /\ rpc[r].done # 2
  <2>1. rpc' = rpc /\ tagmask' = tagmask /\ rpcfree' = <<r>> \o rpcfree
    BY <1>6 DEF mntfree
  <2>2. /\ rpcfree' \in Seq(Rpc) /\ Len(rpcfree') = Len(rpcfree) + 1
        /\ \A s : On(rpcfree', s) <=> s = r \/ On(rpcfree, s)
    BY <1>1, <1>2, <2>1, ConsOn
  <2>3. rpc' = [rpc EXCEPT ![r] = rpc[r]]
    BY <1>1, <2>1
  <2>4. Frees(p, r)
    BY <1>2, <1>4, <2>2, <2>3
  <2>5. FreeInv' /\ TagInv' /\ NoneUnder'
    BY <1>2, <1>6, <2>1, <2>4, FreesKept
  <2>6. CurInv' /\ ChainInv' /\ QueueInv' /\ CallInv' /\ MsgInv' /\ TagsDistinct'
    BY <1>2, <2>4, FreesCommon
  <2>7. Len(rpcfree') <= KeepFree
    BY <1>1, <1>6, <2>2
  <2> QED
    BY <1>1, <1>3, <2>1, <2>2, <2>4, <2>5, <2>6, <2>7 DEF Store
<1>7. CASE ~(Len(rpcfree) >= KeepFree) /\ rpc[r].done = 2
  <2>1. /\ TagLeft /\ rpcfree' = <<r>> \o rpcfree
        /\ rpc' = [rpc EXCEPT ![r].tag = alloctag]
        /\ tagmask' = tagmask \cup {alloctag}
    BY <1>7 DEF mntfree
  <2>2. /\ rpcfree' \in Seq(Rpc) /\ Len(rpcfree') = Len(rpcfree) + 1
        /\ \A s : On(rpcfree', s) <=> s = r \/ On(rpcfree, s)
    BY <1>1, <1>2, <2>1, ConsOn
  <2>3. alloctag \in Tag /\ alloctag \notin tagmask
    BY <1>1, <2>1, TagIs
  <2> DEFINE v == [rpc[r] EXCEPT !.tag = alloctag]
  <2>4. v \in Mntrpc /\ v.tag = alloctag
    BY <1>2, <2>3 DEF Mntrpc
  <2>5. rpc' = [rpc EXCEPT ![r] = v]
    BY <2>1
  <2> HIDE DEF v
  <2>6. Frees(p, r) /\ rpc'[r] = v /\ rpc' \in [Rpc -> Mntrpc]
    BY <1>2, <1>4, <2>2, <2>4, <2>5
  <2>7. FreeInv' /\ TagInv' /\ NoneUnder'
    BY <1>2, <1>7, <2>1, <2>3, <2>4, <2>6, FreesRetagged
  <2>8. CurInv' /\ ChainInv' /\ QueueInv' /\ CallInv' /\ MsgInv' /\ TagsDistinct'
    BY <1>2, <2>6, FreesCommon
  <2>9. Len(rpcfree') <= KeepFree /\ tagmask' \subseteq Tag
    BY <1>1, <1>7, <2>1, <2>2, <2>3
  <2> QED
    BY <1>3, <2>2, <2>6, <2>7, <2>8, <2>9 DEF Store
<1> QED
  BY <1>5, <1>6, <1>7

(* The server answers a request that it has, and may forget others.        *)
LEMMA AnswerStore ==
  ASSUME TypeOK, Store, NEW i \in DOMAIN srv, NEW m \in Reply, m.tag = srv[i].tag,
         m.ans = AnswerTo(srv[i].call, srv[i].old), wire' = Append(wire, m),
         srv' \in Seq(Tmsg), Within(srv', srv, DOMAIN srv \ {i}),
         UNCHANGED <<rpc, rpcfree, tagmask, queue, cur, pc, calls>>
  PROVE  Store' /\ wire' \in Seq(Reply)
<1> DEFINE n == Len(wire)
<1>1. srv \in Seq(Tmsg) /\ wire \in Seq(Reply) /\ DOMAIN srv \subseteq Nat
  BY Types
<1>2. /\ n \in Nat /\ DOMAIN wire = 1..n /\ DOMAIN wire' = 1..n + 1
      /\ \A k \in 1..n : wire'[k] = wire[k]
      /\ wire'[n + 1] = m
      /\ wire' \in Seq(Reply)
  BY <1>1
<1> HIDE DEF n
<1>3. \A k \in DOMAIN wire' : \/ k \in DOMAIN wire /\ wire'[k] = wire[k]
                              \/ k = n + 1 /\ wire'[k] = m
  BY <1>2
<1>4. PICK e \in [DOMAIN srv' -> DOMAIN srv \ {i}] :
         /\ \A k \in DOMAIN srv' : srv'[k] = srv[e[k]]
         /\ \A k, l \in DOMAIN srv' : k < l => e[k] < e[l]
  BY DEF Within
<1>5. FreeInv' /\ TagInv' /\ ChainInv' /\ QueueInv' /\ CallInv' /\ CurInv'
  BY DEF Store, FreeInv, TagInv, ChainInv, QueueInv, CallInv, CurInv, InUse, Holds, On,
         Distinct
<1>6. ASSUME NEW t, NoMsg(t) PROVE NoMsg(t)'
  <2>1. m.tag # t
    BY <1>6 DEF NoMsg
  <2> QED
    BY <1>3, <1>4, <1>6, <2>1 DEF NoMsg
<1>7. NoneUnder'
  <2>1. ASSUME NEW u \in Tag \ tagmask PROVE NoMsg(u)'
    BY <1>6 DEF Store, NoneUnder
  <2>2. ASSUME NEW r \in Rpc, On(rpcfree, r) \/ (InUse(r) /\ rpc[r].done = 1)
        PROVE  NoMsg(rpc[r].tag)'
    BY <1>6, <2>2 DEF Store, NoneUnder
  <2>3. ASSUME NEW p \in Proc, pc[p] = "write"
        PROVE  rpc[cur[p]].done = 0 /\ NoMsg(rpc[cur[p]].tag)'
    BY <1>6, <2>3 DEF Store, NoneUnder
  <2> QED
    BY <2>1, <2>2, <2>3 DEF NoneUnder, InUse, On
<1>8. MsgInv'
  <2> SUFFICES ASSUME NEW r \in Rpc, InUse(r), rpc[r].done = 0
               PROVE  /\ \A k \in DOMAIN srv' : srv'[k].tag = rpc[r].tag =>
                           srv'[k].call = rpc[r].call /\ srv'[k].old = rpc[r].old
                      /\ \A k \in DOMAIN wire' : wire'[k].tag = rpc[r].tag =>
                           wire'[k].ans = AnswerTo(rpc[r].call, rpc[r].old)
    BY DEF MsgInv, InUse, On, AnswerTo
  <2>1. \A k \in DOMAIN srv' : srv'[k].tag = rpc[r].tag =>
          srv'[k].call = rpc[r].call /\ srv'[k].old = rpc[r].old
    BY <1>4 DEF Store, MsgInv
  <2>2. m.tag = rpc[r].tag => m.ans = AnswerTo(rpc[r].call, rpc[r].old)
    BY DEF Store, MsgInv
  <2> QED
    BY <1>3, <2>1, <2>2 DEF Store, MsgInv
<1>9. TagsDistinct'
  <2>1. ASSUME NEW k \in DOMAIN srv', NEW l \in DOMAIN srv', srv'[k].tag = srv'[l].tag
        PROVE  k = l
    <3>1. e[k] = e[l]
      BY <1>4, <2>1 DEF Store, TagsDistinct
    <3>2. \A x \in DOMAIN srv' : e[x] \in Nat
      BY <1>1, <1>4
    <3> QED
      BY <1>4, <3>1, <3>2, WithinApart
  <2>2. \A k, l \in DOMAIN wire' : wire'[k].tag = wire'[l].tag => k = l
    BY <1>3 DEF Store, TagsDistinct
  <2>3. \A k \in DOMAIN srv', l \in DOMAIN wire' : srv'[k].tag # wire'[l].tag
    BY <1>3, <1>4 DEF Store, TagsDistinct
  <2> QED
    BY <2>1, <2>2, <2>3 DEF TagsDistinct
<1> QED
  BY <1>2, <1>5, <1>7, <1>8, <1>9 DEF Store

(* A list within a list, but for some positions, is within it.             *)
LEMMA WithinMore ==
  ASSUME NEW q, NEW s, NEW I, NEW J, I \subseteq J, Within(q, s, I)
  PROVE  Within(q, s, J)
<1>1. PICK e \in [DOMAIN q -> I] :
         /\ \A k \in DOMAIN q : q[k] = s[e[k]]
         /\ \A k, l \in DOMAIN q : k < l => e[k] < e[l]
  BY DEF Within
<1>2. e \in [DOMAIN q -> J]
  BY <1>1
<1> QED
  BY <1>1, <1>2 DEF Within

(* What the server keeps when it answers.                                  *)
LEMMA AnswerKeeps ==
  ASSUME srv \in Seq(Tmsg), NEW i \in DOMAIN srv, Answer(i)
  PROVE  srv' \in Seq(Tmsg) /\ Within(srv', srv, DOMAIN srv \ {i})
<1>1. CASE srv[i].old = 0
  <2>1. srv' = Cut(srv, i)
    BY <1>1 DEF Answer, RemoveAt, Cut
  <2> QED
    BY <2>1, CutWithin
<1>2. CASE srv[i].old # 0
  <2> DEFINE T == {u \in Range(srv) : u.tag # srv[i].old /\ u.old # srv[i].old}
             I == {j \in DOMAIN srv : j # i /\ (j < i => srv[j] \in T)}
  <2>1. srv' = Keep(SubSeq(srv, 1, i - 1), T) \o SubSeq(srv, i + 1, Len(srv))
    BY <1>2 DEF Answer
  <2> HIDE DEF T
  <2>2. srv' \in Seq(Tmsg) /\ Within(srv', srv, I)
    BY <2>1, CancelWithin
  <2>3. I \subseteq DOMAIN srv \ {i}
    OBVIOUS
  <2> QED
    BY <2>2, <2>3, WithinMore
<1> QED
  BY <1>1, <1>2

(* mountmux by p completes the request q, at i in the queue, with reply t. *)
Completes(p, t, q, i) ==
  /\ q = queue[i] /\ rpc[q].tag = t.tag /\ InUse(q) /\ rpc[q].done = 0
  /\ Alters(q) /\ rpc'[q].done = 1 /\ rpc'[q].ans = t.ans
  /\ queue' = Cut(queue, i) /\ tagmask' = tagmask
  /\ waking' \in Rpc \cup {Nil}
  /\ \/ q = cur[p] /\ pc' = [pc EXCEPT ![p] = "gate"]
     \/ pc' = [pc EXCEPT ![p] = "wakeup"]

(* What mountmux does with a reply: it completes the request that it is    *)
(* the reply to, if that still waits; or it frees the tag.                 *)
LEMMA MuxIs ==
  ASSUME TypeOK, Store, NEW p \in Proc, Mux(p), NEW t, t = Head(wire), t \in Reply
  PROVE  \/ /\ \A r \in Rpc : InUse(r) /\ rpc[r].done = 0 => rpc[r].tag # t.tag
            /\ tagmask' = tagmask \ {t.tag} /\ UNCHANGED <<queue, rpc, pc, waking>>
         \/ \E q \in Rpc, i \in DOMAIN queue : Completes(p, t, q, i)
<1> DEFINE i == SelectInSeq(queue, LAMBDA r : Match(Head(wire), r))
           q == queue[i]
<1>T. rpc \in [Rpc -> Mntrpc] /\ waking \in Rpc \cup {Nil}
  BY DEF TypeOK
<1>1. \/ /\ i = 0
         /\ \A r \in Rpc : InUse(r) /\ rpc[r].done = 0 => rpc[r].tag # t.tag
      \/ i \in DOMAIN queue /\ rpc[q].tag = t.tag /\ q \in Rpc
  <2>1. LET k == SelectInSeq(queue, LAMBDA r : Match(t, r))
        IN \/ /\ k = 0
              /\ \A r \in Rpc : InUse(r) /\ rpc[r].done = 0 => rpc[r].tag # t.tag
           \/ k \in DOMAIN queue /\ rpc[queue[k]].tag = t.tag /\ queue[k] \in Rpc
    BY MatchIs
  <2> QED
    BY <2>1
<1>2. i = 0 => /\ tagmask' = tagmask \ {t.tag}
               /\ UNCHANGED <<queue, rpc, pc, waking>>
  BY DEF Mux, Go
<1>3. i # 0 => /\ queue' = RemoveAt(queue, i)
               /\ rpc' = [rpc EXCEPT ![q].done = 1, ![q].ans = t.ans]
               /\ \/ q = cur[p] /\ pc' = [pc EXCEPT ![p] = "gate"] /\ waking' = waking
                  \/ pc' = [pc EXCEPT ![p] = "wakeup"] /\ waking' = q
               /\ tagmask' = tagmask
  BY DEF Mux, Go
<1>4. 0 \notin DOMAIN queue
  BY Types
<1> HIDE DEF i
<1>5. CASE i = 0
  BY <1>1, <1>2, <1>4, <1>5
<1>6. CASE i # 0
  <2>1. i \in DOMAIN queue /\ q \in Rpc /\ rpc[q].tag = t.tag
    BY <1>1, <1>6
  <2>2. InUse(q) /\ rpc[q].done = 0
    BY <2>1 DEF Store, QueueInv, On
  <2>3. PICK v : v = [rpc[q] EXCEPT !.done = 1, !.ans = t.ans]
    OBVIOUS
  <2>4. rpc' = [rpc EXCEPT ![q] = v]
    BY <1>3, <1>6, <1>T, <2>1, <2>3
  <2>5. rpc[q] \in Mntrpc /\ t.ans \in Call \cup {Rflush, Pending} /\ 1 \in 0..2
    BY <1>T, <2>1 DEF Reply
  <2> HIDE DEF q
  <2>6. /\ v \in Mntrpc /\ v.done = 1 /\ v.ans = t.ans /\ v.tag = rpc[q].tag
        /\ v.call = rpc[q].call /\ v.old = rpc[q].old /\ v.flushed = rpc[q].flushed
    BY <2>3, <2>5 DEF Mntrpc
  <2>7. PICK u \in Rpc : u = q
    BY <2>1
  <2>8. Alters(u) /\ rpc'[u].done = 1 /\ rpc'[u].ans = t.ans
    <3>1. rpc' = [rpc EXCEPT ![u] = v]
      BY <2>4, <2>7
    <3>2. v.tag = rpc[u].tag /\ v.call = rpc[u].call /\ v.old = rpc[u].old
          /\ v.flushed = rpc[u].flushed
      BY <2>6, <2>7
    <3> QED
      BY <1>T, <2>6, <3>1, <3>2 DEF Alters
  <2>9. queue' = Cut(queue, i)
    BY <1>3, <1>6 DEF RemoveAt, Cut
  <2>10. \/ u = cur[p] /\ pc' = [pc EXCEPT ![p] = "gate"]
         \/ pc' = [pc EXCEPT ![p] = "wakeup"]
    BY <1>3, <1>6, <2>7
  <2>11. waking' \in Rpc \cup {Nil} /\ tagmask' = tagmask
    BY <1>3, <1>6, <1>T, <2>1
  <2>12. u = queue[i] /\ rpc[u].tag = t.tag /\ InUse(u) /\ rpc[u].done = 0
    BY <2>1, <2>2, <2>7 DEF q
  <2>13. PICK k \in DOMAIN queue : k = i
    BY <2>1
  <2>14. u = queue[k] /\ queue' = Cut(queue, k)
    BY <2>9, <2>12, <2>13
  <2>15. Completes(p, t, u, k)
    BY <2>8, <2>10, <2>11, <2>12, <2>14 DEF Completes
  <2> QED
    BY <2>15
<1> QED
  BY <1>5, <1>6

(* The structures, lists and tags stay of their types, and Store holds,    *)
(* whatever the step.                                                      *)
MInv == TypeOK /\ Store

(* The invariant holds when the mount is made.                             *)
LEMMA MInit == Init => MInv
<1> SUFFICES ASSUME Init PROVE MInv
  OBVIOUS
<1>1. TypeOK
  <2>1. Heap \in Mntrpc
    BY DEF Heap, Mntrpc
  <2>2. <<>> \in Seq(Rpc) /\ <<>> \in Seq(Tmsg) /\ <<>> \in Seq(Reply) /\ Len(<<>>) = 0
    OBVIOUS
  <2>3. rpc \in [Rpc -> Mntrpc] /\ pc \in [Proc -> Places] /\ cur \in [Proc -> Rpc \cup {Nil}]
    BY <2>1 DEF Init, Places, InMountio
  <2>4. result \in [Call -> Call \cup {Rflush, Pending, Failed}]
    BY DEF Init
  <2>5. rpcfree \in Seq(Rpc) /\ Len(rpcfree) <= KeepFree /\ queue \in Seq(Rpc)
        /\ srv \in Seq(Tmsg) /\ wire \in Seq(Reply)
    BY <2>2, BoundAssumption DEF Init
  <2>6. calls \in 0..MaxCalls /\ notes \in 0..MaxNotes
    BY BoundAssumption DEF Init
  <2>8. hungup \in BOOLEAN
    BY DEF Init
  <2>7. /\ tagmask \subseteq Tag /\ answered \subseteq Call
        /\ rip \in Proc \cup {Nil} /\ waking \in Rpc \cup {Nil}
    BY DEF Init
  <2> QED
    BY <2>3, <2>4, <2>5, <2>6, <2>7, <2>8 DEF TypeOK
<1>2. \A r \in Rpc : rpc[r].tag = 0 /\ ~On(rpcfree, r) /\ ~On(queue, r)
  BY NoneOn DEF Init, Heap
<1>3. DOMAIN rpcfree = {} /\ DOMAIN queue = {} /\ DOMAIN srv = {} /\ DOMAIN wire = {}
  BY DEF Init
<1>4. FreeInv /\ TagInv /\ ChainInv /\ QueueInv /\ CallInv /\ MsgInv /\ TagsDistinct
  BY <1>2, <1>3 DEF FreeInv, TagInv, ChainInv, QueueInv, CallInv, MsgInv, TagsDistinct,
                    InUse, Holds, Distinct
<1>5. CurInv
  BY <1>2 DEF Init, CurInv, InUse
<1>6. NoneUnder
  BY <1>2, <1>3 DEF Init, NoneUnder, NoMsg, InUse
<1> QED
  BY <1>1, <1>4, <1>5, <1>6 DEF MInv, Store

(* Every step keeps it.                                                    *)
LEMMA MStep == MInv /\ [Next]_vars => MInv'
<1> SUFFICES ASSUME TypeOK, Store, [Next]_vars PROVE TypeOK' /\ Store'
  BY DEF MInv
<1>T. /\ rpc \in [Rpc -> Mntrpc] /\ rpcfree \in Seq(Rpc) /\ queue \in Seq(Rpc)
      /\ srv \in Seq(Tmsg) /\ wire \in Seq(Reply)
      /\ pc \in [Proc -> Places] /\ cur \in [Proc -> Rpc \cup {Nil}]
      /\ tagmask \subseteq Tag /\ calls \in Nat /\ 0 \notin Tag /\ Nil \notin Rpc
      /\ calls \in 0..MaxCalls /\ MaxCalls \in Nat
      /\ result \in [Call -> Call \cup {Rflush, Pending, Failed}]
  BY Types, BoundAssumption DEF TypeOK
<1>C. ASSUME NEW p \in Proc, pc[p] # "idle"
      PROVE  /\ cur[p] \in Rpc /\ InUse(cur[p]) /\ rpc[cur[p]] \in Mntrpc
             /\ rpc[cur[p]].tag \in Tag /\ rpc[cur[p]].call \in 1..calls
             /\ rpc[cur[p]].call \in Call
  <2>1. cur[p] \in Rpc /\ InUse(cur[p]) /\ rpc[cur[p]] \in Mntrpc /\ rpc[cur[p]].tag \in Tag
    BY <1>C, CurIs DEF Store
  <2>2. rpc[cur[p]].call \in 1..calls
    BY <2>1 DEF Store, CallInv
  <2> QED
    BY <1>T, <2>1, <2>2 DEF Call
<1>Q. ASSUME Quiet PROVE Store' /\ pc' \in [Proc -> Places]
  BY <1>Q, QuietStore DEF Quiet
<1>1. ASSUME NEW p \in Proc, mountrpc(p) PROVE TypeOK' /\ Store'
  <2>1. /\ pc[p] = "idle" /\ calls < MaxCalls /\ calls' = calls + 1
        /\ Request(p, calls + 1, 0, Nil)
        /\ UNCHANGED <<rip, waking, srv, wire, hungup, notes, history>>
    BY <1>1 DEF mountrpc
  <2>2. cur[p] = Nil
    BY <2>1 DEF Store, CurInv
  <2>3. calls + 1 \in 1..calls' /\ calls' \in 0..MaxCalls /\ calls <= calls'
    BY <1>T, <2>1
  <2>4. /\ Store' /\ rpc' \in [Rpc -> Mntrpc] /\ queue' \in Seq(Rpc)
        /\ rpcfree' \in Seq(Rpc) /\ Len(rpcfree') <= KeepFree /\ tagmask' \subseteq Tag
        /\ pc' \in [Proc -> Places] /\ cur' \in [Proc -> Rpc \cup {Nil}]
    <3>1. pc[p] \in {"idle", "flush"} /\ 0 \in Tag \cup {0} /\ UNCHANGED <<srv, wire>>
      BY <2>1
    <3> QED
      BY <2>1, <2>2, <2>3, <3>1, RequestStore
  <2> QED
    BY <2>1, <2>3, <2>4 DEF TypeOK, history
<1>2. ASSUME NEW p \in Proc, Write(p) PROVE TypeOK' /\ Store'
  <2>1. /\ pc[p] = "write"
        /\ UNCHANGED <<rpc, rpcfree, tagmask, queue, rip, waking, cur, wire, hungup, bounds,
                       answered>>
    BY <1>2 DEF Write
  <2>2. CASE hungup
    <3>1. /\ pc' = [pc EXCEPT ![p] = "free"] /\ srv' = srv
          /\ result' = [result EXCEPT ![rpc[cur[p]].call] = Failed]
      BY <1>2, <2>2 DEF Write, Go
    <3>2. Quiet
      BY <1>T, <2>1, <3>1 DEF Quiet, bounds, Places, InMountio
    <3>3. result' \in [Call -> Call \cup {Rflush, Pending, Failed}]
      BY <1>T, <3>1
    <3> QED
      BY <1>Q, <2>1, <3>1, <3>2, <3>3 DEF TypeOK, bounds
  <2>3. CASE ~hungup
    <3>1. /\ pc' = [pc EXCEPT ![p] = "loop"] /\ srv' = Append(srv, Sent(cur[p]))
          /\ result' = result
      BY <1>2, <2>3 DEF Write, Go, Sent
    <3>2. Store' /\ srv' \in Seq(Tmsg)
      BY <2>1, <3>1, SendStore DEF bounds, Places, InMountio
    <3>3. pc' \in [Proc -> Places]
      BY <1>T, <3>1 DEF Places, InMountio
    <3> QED
      BY <2>1, <3>1, <3>2, <3>3 DEF TypeOK, bounds
  <2> QED
    BY <2>2, <2>3
<1>3. ASSUME NEW p \in Proc, Loop(p) PROVE TypeOK' /\ Store'
  <2>1. Quiet
    <3>1. \E l \in Places \ {"idle", "write"} : pc' = [pc EXCEPT ![p] = l]
      BY <1>3 DEF Loop, Go, Places, InMountio
    <3>2. pc[p] = "loop" /\ UNCHANGED <<rpc, rpcfree, tagmask, queue, cur, srv, wire, calls>>
      BY <1>3 DEF Loop, bounds
    <3> QED
      BY <1>T, <3>1, <3>2 DEF Quiet
  <2>2. rip' \in Proc \cup {Nil}
    BY <1>3 DEF Loop, TypeOK
  <2> QED
    BY <1>3, <1>Q, <2>1, <2>2 DEF Loop, TypeOK, bounds, history
<1>4. ASSUME NEW p \in Proc, Sleep(p) PROVE TypeOK' /\ Store'
  <2>1. Quiet
    <3>1. \E l \in Places \ {"idle", "write"} : pc' = [pc EXCEPT ![p] = l]
      BY <1>4 DEF Sleep, AfterSleep, Go, Places, InMountio
    <3>2. /\ pc[p] \in {"presleep", "awake"}
          /\ UNCHANGED <<rpc, rpcfree, tagmask, queue, cur, srv, wire, calls>>
      BY <1>4 DEF Sleep, bounds
    <3> QED
      BY <1>T, <3>1, <3>2 DEF Quiet
  <2> QED
    BY <1>4, <1>Q, <2>1 DEF Sleep, TypeOK, bounds, history
<1>5. ASSUME NEW p \in Proc, Mux(p) PROVE TypeOK' /\ Store'
  <2>1. /\ pc[p] = "read" /\ wire # <<>> /\ wire' = Tail(wire)
        /\ UNCHANGED <<rpcfree, rip, cur, srv, hungup, bounds, history>>
    BY <1>5 DEF Mux
  <2>2. PICK t : t = Head(wire)
    OBVIOUS
  <2>3. Fewer /\ t = wire[1] /\ 1 \in DOMAIN wire /\ t \in Reply /\ NoMsg(t.tag)'
    BY <2>1, <2>2, ReadOne DEF Store
  <2>4. ~NoMsg(t.tag)
    BY <2>3 DEF NoMsg
  <2>5. wire' \in Seq(Reply)
    BY <2>3 DEF Fewer
  <2>6. CASE /\ \A r \in Rpc : InUse(r) /\ rpc[r].done = 0 => rpc[r].tag # t.tag
             /\ tagmask' = tagmask \ {t.tag} /\ UNCHANGED <<queue, rpc, pc, waking>>
    <3>1. Store'
      BY <2>1, <2>3, <2>4, <2>6, StaleStore DEF bounds
    <3> QED
      BY <2>1, <2>5, <2>6, <3>1 DEF TypeOK, bounds, history
  <2>7. ASSUME NEW q \in Rpc, NEW i \in DOMAIN queue, Completes(p, t, q, i)
        PROVE  TypeOK' /\ Store'
    <3>1. Moves
      BY <1>T, <2>1, <2>7 DEF Completes, Moves, Places, InMountio
    <3>2. Store' /\ queue' \in Seq(Rpc)
      <4>1. /\ q = queue[i] /\ rpc[q].tag = t.tag /\ Alters(q)
            /\ rpc'[q].done = 1 /\ rpc'[q].ans = t.ans
            /\ queue' = Cut(queue, i) /\ tagmask' = tagmask
        BY <2>7 DEF Completes
      <4> QED
        BY <2>1, <2>3, <3>1, <4>1, DoneStore DEF bounds
    <3>3. rpc' \in [Rpc -> Mntrpc] /\ pc' \in [Proc -> Places]
      BY <2>7, <3>1 DEF Completes, Alters, Moves
    <3> QED
      BY <2>1, <2>5, <2>7, <3>2, <3>3 DEF Completes, TypeOK, bounds, history
  <2> QED
    BY <1>5, <2>2, <2>3, <2>6, <2>7, MuxIs
<1>6. ASSUME NEW p \in Proc, MuxFail(p) PROVE TypeOK' /\ Store'
  <2>1. /\ pc[p] = "read" /\ pc' = [pc EXCEPT ![p] = "gate"]
        /\ result' = [result EXCEPT ![rpc[cur[p]].call] = Failed]
        /\ UNCHANGED <<rpc, rpcfree, tagmask, queue, rip, waking, cur, srv, wire, hungup,
                       bounds, answered>>
    BY <1>6 DEF MuxFail, Go
  <2>2. Quiet
    BY <1>T, <2>1 DEF Quiet, bounds, Places, InMountio
  <2>3. result' \in [Call -> Call \cup {Rflush, Pending, Failed}]
    BY <1>T, <2>1
  <2> QED
    BY <1>Q, <2>1, <2>2, <2>3 DEF TypeOK, bounds
<1>7. ASSUME NEW p \in Proc, MuxWakeup(p) PROVE TypeOK' /\ Store'
  <2>1. /\ pc[p] = "wakeup" /\ pc' = [Woken(waking) EXCEPT ![p] = "read"] /\ waking' = Nil
        /\ UNCHANGED <<rpc, rpcfree, tagmask, queue, rip, cur, srv, wire, hungup, bounds,
                       history>>
    BY <1>7 DEF MuxWakeup
  <2>2. /\ Woken(waking) \in [Proc -> Places]
        /\ \A w \in Proc : pc[w] # "asleep" => Woken(waking)[w] = pc[w]
        /\ \A w \in Proc : pc[w] = "asleep" => Woken(waking)[w] \in {"asleep", "awake"}
    BY <1>T, WokenPc DEF PcType
  <2>3. Quiet
    BY <2>1, <2>2 DEF Quiet, bounds, Places, InMountio
  <2> QED
    BY <1>Q, <2>1, <2>3 DEF TypeOK, bounds, history
<1>8. ASSUME NEW p \in Proc, Gate(p) PROVE TypeOK' /\ Store'
  <2>1. /\ pc[p] \in {"gate", "gateflush"} /\ rip' = Nil
        /\ \E l \in {"flush", "free"} : pc' = [mntgate EXCEPT ![p] = l]
        /\ UNCHANGED <<rpc, rpcfree, tagmask, queue, waking, cur, srv, wire, hungup, bounds,
                       history>>
    BY <1>8 DEF Gate
  <2>2. /\ mntgate \in [Proc -> Places]
        /\ \A w \in Proc : pc[w] # "asleep" => mntgate[w] = pc[w]
        /\ \A w \in Proc : pc[w] = "asleep" => mntgate[w] \in {"asleep", "awake"}
    BY <1>T, GatePc DEF PcType
  <2>3. Quiet
    BY <2>1, <2>2 DEF Quiet, bounds, Places, InMountio
  <2> QED
    BY <1>Q, <2>1, <2>3 DEF TypeOK, bounds, history
<1>9. ASSUME NEW p \in Proc, Flush(p) PROVE TypeOK' /\ Store'
  <2>1. /\ pc[p] = "flush" /\ Request(p, rpc[cur[p]].call, OldTag(rpc[cur[p]]), cur[p])
        /\ UNCHANGED <<rip, waking, srv, wire, hungup, bounds, history>>
    BY <1>9 DEF Flush
  <2>2. /\ cur[p] \in Rpc /\ rpc[cur[p]] \in Mntrpc /\ rpc[cur[p]].tag \in Tag
        /\ rpc[cur[p]].call \in 1..calls
    BY <1>C, <2>1
  <2>3. OldTag(rpc[cur[p]]) \in Tag \cup {0}
    BY <2>2 DEF OldTag, Mntrpc
  <2>4. /\ Store' /\ rpc' \in [Rpc -> Mntrpc] /\ queue' \in Seq(Rpc)
        /\ rpcfree' \in Seq(Rpc) /\ Len(rpcfree') <= KeepFree /\ tagmask' \subseteq Tag
        /\ pc' \in [Proc -> Places] /\ cur' \in [Proc -> Rpc \cup {Nil}]
    <3>1. /\ pc[p] \in {"idle", "flush"} /\ UNCHANGED <<srv, wire>> /\ calls <= calls'
          /\ calls' \in 0..MaxCalls /\ rpc[cur[p]].call \in 1..calls'
      BY <1>T, <2>1, <2>2 DEF bounds
    <3> QED
      BY <2>1, <2>3, <3>1, RequestStore
  <2> QED
    BY <2>1, <2>4 DEF TypeOK, bounds, history
<1>10. ASSUME NEW p \in Proc, FlushFree(p) PROVE TypeOK' /\ Store'
  <2> DEFINE r == cur[p]
  <2>1. /\ pc[p] = "free"
        /\ UNCHANGED <<queue, rip, waking, srv, wire, hungup, bounds, answered>>
    BY <1>10 DEF FlushFree
  <2>2. r \in Rpc /\ rpc[r] \in Mntrpc /\ rpc[r].call \in Call /\ InUse(r)
    BY <1>C, <2>1
  <2>3. CASE rpc[r].done = 0
    <3>1. /\ rpc' = [rpc EXCEPT ![r].ans = Rflush] /\ pc' = [pc EXCEPT ![p] = "qrm"]
          /\ UNCHANGED <<rpcfree, tagmask, cur, result>>
      BY <1>10, <2>3 DEF FlushFree, Go
    <3>2. Moves
      BY <1>T, <2>1, <3>1 DEF Moves, Places, InMountio
    <3> HIDE DEF r
    <3>3. Alters(r) /\ rpc'[r].done = rpc[r].done /\ rpc'[r].ans = Rflush
      BY <1>T, <2>2, <3>1, AltersAns
    <3>4. Store'
      BY <2>1, <2>2, <3>1, <3>2, <3>3, MarkStore DEF bounds
    <3>5. rpc' \in [Rpc -> Mntrpc] /\ pc' \in [Proc -> Places]
      BY <3>2, <3>3 DEF Alters, Moves
    <3> QED
      BY <2>1, <3>1, <3>4, <3>5 DEF TypeOK, bounds
  <2>4. CASE rpc[r].done # 0
    <3>1. mntfree(r) /\ cur' = [cur EXCEPT ![p] = rpc[r].flushed]
      BY <1>10, <2>4 DEF FlushFree
    <3>2. /\ rpc[r].flushed # Nil => UNCHANGED <<pc, result>>
          /\ rpc[r].flushed = Nil => /\ pc' = [pc EXCEPT ![p] = "idle"]
                                     /\ \E a \in {Failed, rpc[r].ans, result[rpc[r].call]} :
                                          result' = [result EXCEPT ![rpc[r].call] = a]
      BY <1>10, <2>4 DEF FlushFree, Go
    <3>3. pc' = [pc EXCEPT ![p] = IF rpc[r].flushed = Nil THEN "idle" ELSE "free"]
      BY <1>T, <2>1, <3>2
    <3>4. result' \in [Call -> Call \cup {Rflush, Pending, Failed}]
      <4>1. {Failed, rpc[r].ans, result[rpc[r].call]} \subseteq Call \cup {Rflush, Pending, Failed}
        BY <1>T, <2>2 DEF Mntrpc
      <4> QED
        BY <1>T, <3>2, <4>1
    <3>5. PICK s : s = r
      OBVIOUS
    <3>6. /\ s = cur[p] /\ rpc[s].done # 0 /\ mntfree(s)
          /\ cur' = [cur EXCEPT ![p] = rpc[s].flushed]
          /\ pc' = [pc EXCEPT ![p] = IF rpc[s].flushed = Nil THEN "idle" ELSE "free"]
          /\ UNCHANGED <<queue, srv, wire, calls>>
      BY <2>1, <2>4, <3>1, <3>3, <3>5 DEF bounds
    <3>7. /\ Store' /\ rpc' \in [Rpc -> Mntrpc]
          /\ rpcfree' \in Seq(Rpc) /\ Len(rpcfree') <= KeepFree /\ tagmask' \subseteq Tag
          /\ pc' \in [Proc -> Places] /\ cur' \in [Proc -> Rpc \cup {Nil}]
      BY <2>1, <3>6, FreeStore
    <3> QED
      BY <2>1, <3>4, <3>7 DEF TypeOK, bounds
  <2> QED
    BY <2>3, <2>4
<1>11. ASSUME NEW p \in Proc, mntqrm(p) PROVE TypeOK' /\ Store'
  <2>1. /\ pc[p] = "qrm" /\ rpc' = [rpc EXCEPT ![cur[p]].done = 2]
        /\ queue' = RemoveFirst(queue, cur[p]) /\ pc' = [pc EXCEPT ![p] = "free"]
        /\ UNCHANGED <<rpcfree, tagmask, rip, waking, cur, srv, wire, hungup, bounds, history>>
    BY <1>11 DEF mntqrm, Go
  <2>2. PICK q : q = cur[p]
    OBVIOUS
  <2>3. q \in Rpc /\ InUse(q)
    BY <1>C, <2>1, <2>2
  <2>4. Alters(q) /\ rpc'[q].done = 2 /\ rpc'[q].ans = rpc[q].ans
    <3>1. 2 \in 0..2 /\ rpc' = [rpc EXCEPT ![q].done = 2]
      BY <2>1, <2>2
    <3> QED
      BY <1>T, <2>3, <3>1, AltersDone
  <2>5. Moves
    BY <1>T, <2>1 DEF Moves, Places, InMountio
  <2>6. \A w \in Proc : pc'[w] = "write" => cur[w] # q
    <3>1. ASSUME NEW w \in Proc, pc'[w] = "write" PROVE cur[w] # q
      <4>1. w # p
        BY <1>T, <2>1, <3>1
      <4>2. q # Nil
        BY <1>T, <2>3
      <4> QED
        BY <2>2, <4>1, <4>2 DEF Store, CurInv
    <3> QED
      BY <3>1
  <2>7. queue' = RemoveFirst(queue, q) /\ UNCHANGED <<rpcfree, tagmask, cur, srv, wire, calls>>
    BY <2>1, <2>2 DEF bounds
  <2>8. Store' /\ queue' \in Seq(Rpc)
    BY <2>3, <2>4, <2>5, <2>6, <2>7, QrmStore
  <2>9. rpc' \in [Rpc -> Mntrpc] /\ pc' \in [Proc -> Places]
    BY <2>4, <2>5 DEF Alters, Moves
  <2> QED
    BY <2>1, <2>8, <2>9 DEF TypeOK, bounds, history
<1>12. ASSUME NEW p \in Proc, Interrupt(p) PROVE TypeOK' /\ Store'
  <2>1. /\ \E l \in {"flush", "gateflush"} : pc' = [pc EXCEPT ![p] = l]
        /\ notes' = notes + 1 /\ notes < MaxNotes
        /\ UNCHANGED <<rpc, rpcfree, tagmask, queue, rip, waking, cur, wire, hungup, calls,
                       history>>
    BY <1>12 DEF Interrupt, Go, Caught
  <2>2. notes' \in 0..MaxNotes
    BY <2>1, BoundAssumption DEF TypeOK
  <2>3. pc' \in [Proc -> Places]
    BY <1>T, <2>1 DEF Places, InMountio
  <2>4. \/ pc[p] \in {"presleep", "asleep", "read", "awake", "write"} /\ srv' = srv
        \/ pc[p] = "write" /\ srv' = Append(srv, Sent(cur[p]))
    BY <1>12 DEF Interrupt, Sent
  <2>5. Store' /\ srv' \in Seq(Tmsg)
    <3>1. CASE pc[p] \in {"presleep", "asleep", "read", "awake", "write"} /\ srv' = srv
      <4>1. Quiet
        BY <1>T, <2>1, <2>3, <3>1 DEF Quiet
      <4> QED
        BY <1>T, <1>Q, <3>1, <4>1
    <3>2. CASE pc[p] = "write" /\ srv' = Append(srv, Sent(cur[p]))
      <4>1. PICK l \in {"flush", "gateflush"} : pc' = [pc EXCEPT ![p] = l]
        BY <2>1
      <4>2. l \in Places \ {"idle", "write"}
        BY DEF Places, InMountio
      <4>3. UNCHANGED <<rpc, rpcfree, tagmask, queue, cur, wire, calls>>
        BY <2>1
      <4> QED
        BY <3>2, <4>1, <4>2, <4>3, SendStore
    <3> QED
      BY <2>4, <3>1, <3>2
  <2> QED
    BY <2>1, <2>2, <2>3, <2>5 DEF TypeOK, history
<1>13. ASSUME NEW i \in DOMAIN srv, Answer(i) PROVE TypeOK' /\ Store'
  <2>1. UNCHANGED <<rpc, rpcfree, tagmask, queue, rip, waking, pc, cur, hungup, bounds, result>>
    BY <1>13 DEF Answer
  <2>2. srv[i] \in Tmsg
    BY <1>T
  <2>3. PICK m : m = [tag |-> srv[i].tag, ans |-> IF srv[i].old = 0 THEN srv[i].call ELSE Rflush]
    OBVIOUS
  <2>4. /\ m \in Reply /\ m.tag = srv[i].tag
        /\ m.ans = AnswerTo(srv[i].call, srv[i].old)
    BY <2>2, <2>3 DEF Tmsg, Reply, AnswerTo
  <2>5. wire' = Append(wire, m)
    BY <1>13, <2>3 DEF Answer
  <2>6. srv' \in Seq(Tmsg) /\ Within(srv', srv, DOMAIN srv \ {i})
    BY <1>13, <1>T, AnswerKeeps
  <2>7. Store' /\ wire' \in Seq(Reply)
    BY <2>1, <2>4, <2>5, <2>6, AnswerStore DEF bounds
  <2>8. answered' \subseteq Call
    BY <1>13, <2>2 DEF Answer, TypeOK, Tmsg
  <2> QED
    BY <2>1, <2>6, <2>7, <2>8 DEF TypeOK, bounds
<1>14. ASSUME Hangup PROVE TypeOK' /\ Store'
  <2>1. /\ srv' = <<>> /\ hungup' = TRUE
        /\ UNCHANGED <<rpc, rpcfree, tagmask, queue, rip, waking, pc, cur, wire, bounds,
                       history>>
    BY <1>14 DEF Hangup
  <2>2. srv' \in Seq(Tmsg) /\ DOMAIN srv' = {}
    BY <2>1
  <2>3. \A t : NoMsg(t) => NoMsg(t)'
    BY <2>1, <2>2 DEF NoMsg
  <2>4. FreeInv' /\ TagInv' /\ ChainInv' /\ QueueInv' /\ CallInv' /\ CurInv'
    BY <2>1 DEF Store, FreeInv, TagInv, ChainInv, QueueInv, CallInv, CurInv, InUse, Holds,
                On, Distinct, bounds
  <2>5. NoneUnder'
    <3>1. \A t \in Tag \ tagmask : NoMsg(t)'
      BY <2>3 DEF Store, NoneUnder
    <3>2. \A r \in Rpc : On(rpcfree, r) \/ (InUse(r) /\ rpc[r].done = 1) => NoMsg(rpc[r].tag)'
      BY <2>1, <2>2 DEF Store, NoneUnder, NoMsg
    <3>3. \A w \in Proc : pc[w] = "write" => rpc[cur[w]].done = 0 /\ NoMsg(rpc[cur[w]].tag)'
      BY <2>1, <2>2 DEF Store, NoneUnder, NoMsg
    <3> QED
      BY <2>1, <3>1, <3>2, <3>3 DEF NoneUnder, InUse, On
  <2>6. MsgInv' /\ TagsDistinct'
    BY <2>1, <2>2 DEF Store, MsgInv, TagsDistinct, InUse, On, AnswerTo
  <2> QED
    BY <2>1, <2>2, <2>4, <2>5, <2>6 DEF TypeOK, Store, bounds, history
<1>15. CASE UNCHANGED vars
  <2>1. TypeOK'
    BY <1>15 DEF vars, bounds, history, TypeOK
  <2>2. Quiet
    BY <1>15, <1>T DEF vars, bounds, Quiet
  <2> QED
    BY <1>Q, <2>1, <2>2
<1> QED
  BY <1>1, <1>2, <1>3, <1>4, <1>5, <1>6, <1>7, <1>8, <1>9, <1>10, <1>11, <1>12, <1>13,
     <1>14, <1>15 DEF Next, Step, Server

(* The store of structures, the queue and the tags are right in every      *)
(* reachable state, as the theorems below use them.                        *)
LEMMA MInvariant == Spec => []MInv
  BY MInit, MStep, PTL DEF Spec

(* A request on the queue is live.                                         *)
LEMMA QueueFollows == MInv => QueueIsLive
<1> SUFFICES ASSUME MInv, NEW i \in DOMAIN queue
             PROVE  /\ rpc[queue[i]].tag # 0 /\ rpc[queue[i]].done = 0
                    /\ queue[i] \notin Range(rpcfree)
                    /\ \A j \in DOMAIN queue : queue[j] = queue[i] => i = j
  BY DEF QueueIsLive, MInv
<1>1. queue[i] \in Rpc /\ On(queue, queue[i])
  BY Types DEF MInv, On
<1>2. InUse(queue[i]) /\ rpc[queue[i]].done = 0
  BY <1>1 DEF MInv, Store, QueueInv
<1> QED
  BY <1>2 DEF InUse, On, Range, MInv, Store, QueueInv, Distinct

(* Types, and: everything on the queue is a request in use that is not     *)
(* done, and is there once (devmnt.c:944, 1130).                           *)
THEOREM MountQueue == Spec => []QueueIsLive
  BY MInvariant, QueueFollows, PTL

(* A tag in use has one owner.                                             *)
LEMMA TagsFollow == MInv => TagsOwned
<1> SUFFICES ASSUME MInv PROVE TagIsOwn
  BY DEF TagsOwned, MInv, Store
<1>1. ASSUME NEW r \in Rpc, rpc[r].tag # 0, rpc[r].done # 2 PROVE Holds(r)
  BY <1>1 DEF Holds
<1> QED
  BY <1>1 DEF TagIsOwn, MInv, Store, TagInv

(* No tag is used again before the reply to its request was read or its    *)
(* Rflush received, and no two requests that wait have one tag             *)
(* (devmnt.c:964-968, 1107-1127): whatever the number of tags and          *)
(* structures, interrupts and hangups.                                     *)
THEOREM MountTags == Spec => []TagsOwned
  BY MInvariant, TagsFollow, PTL

(* A call returns what its own structure was answered.                     *)
LEMMA ReplyStep == MInv /\ OwnReply /\ [Next]_vars => OwnReply'
<1> SUFFICES ASSUME MInv, OwnReply, [Next]_vars PROVE OwnReply'
  OBVIOUS
<1>1. result \in [Call -> Call \cup {Rflush, Pending, Failed}]
  BY DEF MInv, TypeOK
<1>2. Failed \notin Call
  BY DEF Failed, Call
<1>3. ASSUME NEW c, result' = [result EXCEPT ![c] = Failed] PROVE OwnReply'
  BY <1>1, <1>2, <1>3 DEF OwnReply
<1>4. ASSUME result' = result PROVE OwnReply'
  BY <1>4 DEF OwnReply
<1>5. ASSUME NEW p \in Proc, Write(p) PROVE OwnReply'
  BY <1>3, <1>4, <1>5 DEF Write
<1>6. ASSUME NEW p \in Proc, MuxFail(p) PROVE OwnReply'
  BY <1>3, <1>6 DEF MuxFail
<1>7. ASSUME NEW p \in Proc, FlushFree(p) PROVE OwnReply'
  <2> DEFINE r == cur[p]
  <2>1. pc[p] # "idle" /\ TypeOK /\ CurInv
    BY <1>7 DEF FlushFree, MInv, Store
  <2>2. r \in Rpc /\ InUse(r)
    BY <2>1, CurIs
  <2>3. rpc[r].ans \in Call => rpc[r].ans = rpc[r].call
    BY <2>2 DEF MInv, Store, CallInv
  <2>4. \/ result' = result
        \/ result' = [result EXCEPT ![rpc[r].call] = IF @ = Failed THEN @ ELSE rpc[r].ans]
    BY <1>7 DEF FlushFree
  <2> QED
    BY <1>1, <1>2, <2>3, <2>4 DEF OwnReply
<1>8. CASE UNCHANGED result
  BY <1>4, <1>8
<1> QED
  BY <1>5, <1>6, <1>7, <1>8 DEF Next, Step, Server, vars, history, mountrpc, Loop, Sleep,
     Mux, MuxWakeup, Gate, Flush, mntqrm, Interrupt, Answer, Hangup

(* A call that returns a reply returns the reply to its own request        *)
(* (devmnt.c:944-957), whichever process read it.                          *)
THEOREM MountOwnReply == Spec => []OwnReply
<1>1. Init => OwnReply
  BY DEF Init, OwnReply, Pending, Call
<1> QED
  BY <1>1, MInvariant, ReplyStep, PTL DEF Spec
-----------------------------------------------------------------------------
(* What a note may not do: a call is answered Eintr though the server has  *)
(* done what it asks.  c has not failed; the server has no request for it  *)
(* left, other than flushes; its own structure has the reply to it.        *)
Open(c) == result[c] # Failed
NoOrig(c) == \A i \in DOMAIN srv : srv[i].call = c => srv[i].old # 0
Received(c) ==
  \E o \in Rpc : InUse(o) /\ rpc[o].old = 0 /\ rpc[o].call = c /\ rpc[o].ans = c

(* The answer that the call would return now is the right one.             *)
Settled(c) == Open(c) => NoOrig(c) /\ (c \in answered => Received(c))

(* The structures of a call are numbered from the call itself, 0, to the   *)
(* latest flush, which is the one that a process has as its cur.           *)
Depths(depth) ==
  /\ \A r \in Rpc : InUse(r) => /\ rpc[r].flushed = Nil <=> depth[r] = 0
                                /\ rpc[r].old = 0 <=> depth[r] = 0
  /\ \A r, s \in Rpc : InUse(r) /\ rpc[r].flushed = s =>
       depth[r] = depth[s] + 1 /\ rpc[s].call = rpc[r].call
  /\ \A r \in Rpc : InUse(r) =>
       \E p \in Proc, s \in Rpc :
         cur[p] = s /\ rpc[s].call = rpc[r].call /\ depth[r] <= depth[s]
  /\ \A p, q \in Proc, r, s \in Rpc :
       cur[p] = r /\ cur[q] = s /\ rpc[r].call = rpc[s].call => p = q
  /\ \A r, s \in Rpc : InUse(r) /\ InUse(s) /\ rpc[r].call = rpc[s].call
                         /\ depth[r] = depth[s] => r = s
  /\ \A f \in Rpc : InUse(f) /\ rpc[f].old # 0 =>
       \E o \in Rpc : InUse(o) /\ rpc[o].old = 0 /\ rpc[o].call = rpc[f].call
                        /\ rpc[f].old = rpc[o].tag

DepthInv == \E depth \in [Rpc -> Nat] : Depths(depth)

(* What follows: one process makes a call, and has one structure for it    *)
(* that is no flush; every flush is of that one; a process that has it as  *)
(* its cur has no other.                                                   *)
Chained ==
  /\ \A p, q \in Proc, r, s \in Rpc :
       cur[p] = r /\ cur[q] = s /\ rpc[r].call = rpc[s].call => p = q
  /\ \A r, s \in Rpc : InUse(r) /\ InUse(s) /\ rpc[r].call = rpc[s].call
                         /\ rpc[r].old = 0 /\ rpc[s].old = 0 => r = s
  /\ \A f \in Rpc : InUse(f) /\ rpc[f].old # 0 =>
       \E o \in Rpc : InUse(o) /\ rpc[o].old = 0 /\ rpc[o].call = rpc[f].call
                        /\ rpc[f].old = rpc[o].tag
  /\ \A p \in Proc, r, s \in Rpc :
       cur[p] = r /\ rpc[r].old = 0 /\ InUse(s) /\ rpc[s].call = rpc[r].call => s = r
  /\ \A r, s \in Rpc : InUse(r) /\ rpc[r].flushed = s => rpc[s].call = rpc[r].call
  /\ \A r \in Rpc : InUse(r) => (rpc[r].flushed = Nil <=> rpc[r].old = 0)

(* Depths give the chain facts that Honor needs.                           *)
LEMMA ChainedIs == MInv /\ DepthInv => Chained
<1> SUFFICES ASSUME MInv, NEW depth \in [Rpc -> Nat], Depths(depth) PROVE Chained
  BY DEF DepthInv
<1>1. \A p \in Proc, r \in Rpc : cur[p] = r => InUse(r)
  BY Types DEF MInv, Store, CurInv
<1>2. ASSUME NEW p \in Proc, NEW r \in Rpc, NEW s \in Rpc,
             cur[p] = r, rpc[r].old = 0, InUse(s), rpc[s].call = rpc[r].call
      PROVE  s = r
  <2>1. InUse(r) /\ depth[r] = 0
    BY <1>1, <1>2 DEF Depths
  <2>2. PICK q \in Proc, u \in Rpc : cur[q] = u /\ rpc[u].call = rpc[s].call
                                     /\ depth[s] <= depth[u]
    BY <1>2 DEF Depths
  <2>3. q = p
    BY <1>2, <2>2 DEF Depths
  <2>4. depth[s] = 0
    BY <1>2, <2>1, <2>2, <2>3
  <2> QED
    BY <1>2, <2>1, <2>4 DEF Depths
<1> QED
  BY <1>2 DEF Depths, Chained

(* A step that changes neither what structures are for nor whose they are. *)
Still ==
  /\ \A r \in Rpc : InUse(r)' <=> InUse(r)
  /\ \A r \in Rpc : /\ rpc'[r].tag = rpc[r].tag /\ rpc'[r].call = rpc[r].call
                    /\ rpc'[r].old = rpc[r].old /\ rpc'[r].flushed = rpc[r].flushed
  /\ UNCHANGED <<cur, calls>>

(* A step that leaves the chain as it was leaves the depths as they were.  *)
LEMMA StillDepth == DepthInv /\ Still => DepthInv'
<1> SUFFICES ASSUME Still, NEW depth \in [Rpc -> Nat], Depths(depth) PROVE DepthInv'
  BY DEF DepthInv
<1>1. Depths(depth)'
  BY DEF Depths, Still
<1> QED
  BY <1>1 DEF DepthInv

(* mountrpc starts a chain ...                                             *)
LEMMA NewDepth ==
  ASSUME MInv, DepthInv, NEW p \in Proc, NEW r \in Rpc, Takes(p, r),
         pc[p] = "idle", rpc'[r].old = 0, rpc'[r].call = calls + 1
  PROVE  DepthInv'
<1>1. PICK depth \in [Rpc -> Nat] : Depths(depth)
  BY DEF DepthInv
<1> DEFINE d == [depth EXCEPT ![r] = 0]
<1>2. /\ d \in [Rpc -> Nat] /\ d[r] = 0 /\ \A s \in Rpc : s # r => d[s] = depth[s]
  OBVIOUS
<1> HIDE DEF d
<1>3. \A s \in Rpc : InUse(s)' <=> InUse(s) \/ s = r
  BY TakesCommon DEF MInv
<1>4. /\ ~InUse(r) /\ rpc'[r].flushed = Nil
      /\ \A s \in Rpc : s # r => rpc'[s] = rpc[s]
      /\ \A w \in Proc : cur'[w] = IF w = p THEN r ELSE cur[w]
      /\ Nil \notin Rpc
  <2>1. cur[p] = Nil
    BY DEF MInv, Store, CurInv
  <2> QED
    BY <2>1, Types DEF Takes, MInv
<1>5. \A s \in Rpc : InUse(s) => rpc[s].call # calls + 1 /\ s # r /\ rpc[s].flushed # r
  <2>1. \A s \in Rpc : InUse(s) => rpc[s].call \in 1..calls /\ calls \in Nat
    BY Types DEF MInv, Store, CallInv
  <2>2. \A s \in Rpc : InUse(s) => s # r /\ rpc[s].flushed # r
    BY <1>4 DEF MInv, Store, ChainInv
  <2> QED
    BY <2>1, <2>2
<1>6. \A w \in Proc, s \in Rpc : cur[w] = s => InUse(s)
  BY Types DEF MInv, Store, CurInv
<1>7. /\ \A s \in Rpc : InUse(s)' => /\ rpc'[s].flushed = Nil <=> d[s] = 0
                                     /\ rpc'[s].old = 0 <=> d[s] = 0
      /\ \A s, u \in Rpc : InUse(s)' /\ rpc'[s].flushed = u =>
           d[s] = d[u] + 1 /\ rpc'[u].call = rpc'[s].call
  BY <1>1, <1>2, <1>3, <1>4, <1>5 DEF Depths
<1>8. ASSUME NEW s \in Rpc, InUse(s)'
      PROVE  \E w \in Proc, u \in Rpc :
               cur'[w] = u /\ rpc'[u].call = rpc'[s].call /\ d[s] <= d[u]
  <2>1. CASE s = r
    BY <1>2, <1>4, <2>1
  <2>2. CASE s # r
    <3>1. InUse(s)
      BY <1>3, <1>8, <2>2
    <3>2. PICK w \in Proc, u \in Rpc : cur[w] = u /\ rpc[u].call = rpc[s].call
                                       /\ depth[s] <= depth[u]
      BY <1>1, <3>1 DEF Depths
    <3>3. InUse(u) /\ w # p
      BY <1>6, <3>2, Types DEF MInv, Store, CurInv
    <3> QED
      BY <1>2, <1>4, <1>5, <2>2, <3>2, <3>3
  <2> QED
    BY <2>1, <2>2
<1>9. \A w, v \in Proc, s, u \in Rpc :
        cur'[w] = s /\ cur'[v] = u /\ rpc'[s].call = rpc'[u].call => w = v
  BY <1>1, <1>4, <1>5, <1>6 DEF Depths
<1>10. \A s, u \in Rpc : InUse(s)' /\ InUse(u)' /\ rpc'[s].call = rpc'[u].call
                           /\ d[s] = d[u] => s = u
  BY <1>1, <1>2, <1>3, <1>4, <1>5 DEF Depths
<1>11. ASSUME NEW f \in Rpc, InUse(f)', rpc'[f].old # 0
       PROVE  \E o \in Rpc : InUse(o)' /\ rpc'[o].old = 0 /\ rpc'[o].call = rpc'[f].call
                               /\ rpc'[f].old = rpc'[o].tag
  <2>1. InUse(f) /\ f # r
    BY <1>3, <1>11
  <2>2. PICK o \in Rpc : InUse(o) /\ rpc[o].old = 0 /\ rpc[o].call = rpc[f].call
                          /\ rpc[f].old = rpc[o].tag
    BY <1>1, <1>4, <1>11, <2>1 DEF Depths
  <2> QED
    BY <1>3, <1>4, <1>5, <2>1, <2>2
<1>12. Depths(d)'
  BY <1>2, <1>7, <1>8, <1>9, <1>10, <1>11 DEF Depths
<1> QED
  BY <1>2, <1>12 DEF DepthInv

(* ... mntflushalloc lengthens it ...                                      *)
LEMMA FlushDepth ==
  ASSUME MInv, DepthInv, NEW p \in Proc, NEW r \in Rpc, Takes(p, r),
         pc[p] = "flush", NEW b, b = cur[p], rpc'[r].call = rpc[b].call,
         rpc'[r].old = OldTag(rpc[b])
  PROVE  DepthInv'
<1>1. PICK depth \in [Rpc -> Nat] : Depths(depth)
  BY DEF DepthInv
<1>2. b \in Rpc /\ InUse(b) /\ rpc[b].tag \in Tag /\ 0 \notin Tag /\ Nil \notin Rpc
  BY CurIs, Types DEF MInv, Store
<1> DEFINE d == [depth EXCEPT ![r] = depth[b] + 1]
<1>3. /\ d \in [Rpc -> Nat] /\ d[r] = depth[b] + 1 /\ \A s \in Rpc : s # r => d[s] = depth[s]
  BY <1>2
<1> HIDE DEF d
<1>4. \A s \in Rpc : InUse(s)' <=> InUse(s) \/ s = r
  BY TakesCommon DEF MInv
<1>5. /\ ~InUse(r) /\ rpc'[r].flushed = b
      /\ \A s \in Rpc : s # r => rpc'[s] = rpc[s]
      /\ \A w \in Proc : cur'[w] = IF w = p THEN r ELSE cur[w]
  BY Types DEF Takes, MInv
<1>6. \A s \in Rpc : InUse(s) => s # r /\ rpc[s].flushed # r
  <2>1. r # Nil /\ ~InUse(r)
    BY <1>2, <1>5
  <2> QED
    BY <2>1 DEF MInv, Store, ChainInv
<1>7. \A w \in Proc, s \in Rpc : cur[w] = s => InUse(s)
  BY Types DEF MInv, Store, CurInv
<1>8. ASSUME NEW s \in Rpc, InUse(s), rpc[s].call = rpc[b].call PROVE depth[s] <= depth[b]
  <2>1. PICK w \in Proc, u \in Rpc : cur[w] = u /\ rpc[u].call = rpc[s].call
                                     /\ depth[s] <= depth[u]
    BY <1>1, <1>8 DEF Depths
  <2>2. w = p
    BY <1>1, <1>2, <1>8, <2>1 DEF Depths
  <2> QED
    BY <2>1, <2>2
<1>9. rpc'[r].old # 0
  BY <1>2 DEF OldTag
<1>10. /\ \A s \in Rpc : InUse(s)' => /\ rpc'[s].flushed = Nil <=> d[s] = 0
                                      /\ rpc'[s].old = 0 <=> d[s] = 0
       /\ \A s, u \in Rpc : InUse(s)' /\ rpc'[s].flushed = u =>
            d[s] = d[u] + 1 /\ rpc'[u].call = rpc'[s].call
  <2>1. b # r
    BY <1>2, <1>5
  <2>2. ASSUME NEW s \in Rpc, InUse(s)'
        PROVE  /\ rpc'[s].flushed = Nil <=> d[s] = 0
               /\ rpc'[s].old = 0 <=> d[s] = 0
    <3>1. CASE s = r
      BY <1>2, <1>3, <1>5, <1>9, <3>1
    <3>2. CASE s # r
      BY <1>1, <1>3, <1>4, <1>5, <2>2, <3>2 DEF Depths
    <3> QED
      BY <3>1, <3>2
  <2>3. ASSUME NEW s \in Rpc, NEW u \in Rpc, InUse(s)', rpc'[s].flushed = u
        PROVE  d[s] = d[u] + 1 /\ rpc'[u].call = rpc'[s].call
    <3>1. CASE s = r
      BY <1>2, <1>3, <1>5, <2>1, <2>3, <3>1
    <3>2. CASE s # r
      BY <1>1, <1>3, <1>4, <1>5, <1>6, <2>3, <3>2 DEF Depths
    <3> QED
      BY <3>1, <3>2
  <2> QED
    BY <2>2, <2>3
<1>11. ASSUME NEW s \in Rpc, InUse(s)'
       PROVE  \E w \in Proc, u \in Rpc :
                cur'[w] = u /\ rpc'[u].call = rpc'[s].call /\ d[s] <= d[u]
  <2>1. CASE s = r
    BY <1>3, <1>5, <2>1
  <2>2. CASE s # r
    <3>1. InUse(s)
      BY <1>4, <1>11, <2>2
    <3>2. PICK w \in Proc, u \in Rpc : cur[w] = u /\ rpc[u].call = rpc[s].call
                                       /\ depth[s] <= depth[u]
      BY <1>1, <3>1 DEF Depths
    <3>3. u # r
      BY <1>5, <1>7, <3>2
    <3>4. CASE w = p
      <4>1. u = b
        BY <3>2, <3>4
      <4>2. cur'[p] = r /\ rpc'[r].call = rpc'[s].call
        BY <1>5, <2>2, <3>2, <4>1
      <4>3. d[s] = depth[s] /\ d[r] = depth[b] + 1 /\ depth[s] <= depth[b]
        BY <1>3, <2>2, <3>2, <4>1
      <4>4. d[s] <= d[r]
        BY <1>2, <4>3
      <4> QED
        BY <4>2, <4>4
    <3>5. CASE w # p
      BY <1>3, <1>5, <2>2, <3>2, <3>3, <3>5
    <3> QED
      BY <3>4, <3>5
  <2> QED
    BY <2>1, <2>2
<1>12. ASSUME NEW w \in Proc, NEW v \in Proc, NEW s \in Rpc, NEW u \in Rpc,
              cur'[w] = s, cur'[v] = u, rpc'[s].call = rpc'[u].call
       PROVE  w = v
  <2>1. PICK s1 \in Rpc : cur[w] = s1 /\ rpc[s1].call = rpc'[s].call
    BY <1>2, <1>5, <1>7, <1>12
  <2>2. PICK u1 \in Rpc : cur[v] = u1 /\ rpc[u1].call = rpc'[u].call
    BY <1>2, <1>5, <1>7, <1>12
  <2> QED
    BY <1>1, <1>12, <2>1, <2>2 DEF Depths
<1>13. ASSUME NEW s \in Rpc, NEW u \in Rpc, InUse(s)', InUse(u)',
              rpc'[s].call = rpc'[u].call, d[s] = d[u]
       PROVE  s = u
  <2>1. CASE s # r /\ u # r
    BY <1>1, <1>3, <1>4, <1>5, <1>13, <2>1 DEF Depths
  <2>2. CASE s = r /\ u # r
    BY <1>2, <1>3, <1>4, <1>5, <1>8, <1>13, <2>2
  <2>3. CASE s # r /\ u = r
    BY <1>2, <1>3, <1>4, <1>5, <1>8, <1>13, <2>3
  <2> QED
    BY <2>1, <2>2, <2>3
<1>14. ASSUME NEW f \in Rpc, InUse(f)', rpc'[f].old # 0
       PROVE  \E o \in Rpc : InUse(o)' /\ rpc'[o].old = 0 /\ rpc'[o].call = rpc'[f].call
                               /\ rpc'[f].old = rpc'[o].tag
  <2>1. PICK g \in Rpc : /\ InUse(g) /\ rpc[g].call = rpc'[f].call
                         /\ \/ rpc[g].old # 0 /\ rpc[g].old = rpc'[f].old
                            \/ rpc[g].old = 0 /\ rpc[g].tag = rpc'[f].old
    <3>1. CASE f = r
      BY <1>2, <3>1 DEF OldTag
    <3>2. CASE f # r
      BY <1>4, <1>5, <1>14, <3>2
    <3> QED
      BY <3>1, <3>2
  <2>2. PICK o \in Rpc : InUse(o) /\ rpc[o].old = 0 /\ rpc[o].call = rpc[g].call
                          /\ rpc'[f].old = rpc[o].tag
    BY <1>1, <2>1 DEF Depths
  <2> QED
    BY <1>4, <1>5, <1>6, <2>1, <2>2
<1>15. Depths(d)'
  BY <1>3, <1>10, <1>11, <1>12, <1>13, <1>14 DEF Depths
<1> QED
  BY <1>3, <1>15 DEF DepthInv

(* ... and mntflushfree shortens it.                                       *)
LEMMA FreeDepth ==
  ASSUME MInv, DepthInv, NEW p \in Proc, NEW r \in Rpc, Frees(p, r)
  PROVE  DepthInv'
<1>1. PICK depth \in [Rpc -> Nat] : Depths(depth)
  BY DEF DepthInv
<1>2. /\ r = cur[p] /\ pc[p] # "idle" /\ Nil \notin Rpc
      /\ \A s \in Rpc : s # r => rpc'[s] = rpc[s]
      /\ \A s \in Rpc : InUse(s)' <=> InUse(s) /\ s # r
      /\ \A w \in Proc : cur'[w] = IF w = p THEN rpc[r].flushed ELSE cur[w]
  BY Types DEF Frees, MInv, InUse
<1>3. InUse(r) /\ rpc[r].flushed \in Rpc \cup {Nil}
  BY <1>2, CurIs DEF MInv, Store, Mntrpc
<1>4. \A w \in Proc, s \in Rpc : cur[w] = s => InUse(s) /\ (w # p => s # r)
  BY <1>2, Types DEF MInv, Store, CurInv
<1>5. \A s \in Rpc : InUse(s) /\ s # r => rpc[s].flushed # r
  BY <1>2 DEF MInv, Store, CurInv
<1>6. rpc[r].flushed # Nil => rpc[r].flushed # r /\ InUse(rpc[r].flushed)
  BY <1>2, <1>3 DEF MInv, Store, CurInv, ChainInv
<1>7. ASSUME NEW s \in Rpc, InUse(s), s # r, rpc[s].call = rpc[r].call
      PROVE  /\ rpc[r].flushed \in Rpc
             /\ depth[s] <= depth[rpc[r].flushed]
  <2>1. PICK w \in Proc, u \in Rpc : cur[w] = u /\ rpc[u].call = rpc[s].call
                                     /\ depth[s] <= depth[u]
    BY <1>1, <1>7 DEF Depths
  <2>2. w = p /\ u = r
    BY <1>1, <1>2, <1>7, <2>1 DEF Depths
  <2>3. depth[s] # depth[r]
    BY <1>1, <1>3, <1>7 DEF Depths
  <2>4. depth[r] # 0
    BY <2>1, <2>2, <2>3
  <2>5. rpc[r].flushed \in Rpc /\ depth[r] = depth[rpc[r].flushed] + 1
    BY <1>1, <1>3, <2>4 DEF Depths
  <2> QED
    BY <2>1, <2>2, <2>3, <2>5
<1>8. /\ \A s \in Rpc : InUse(s)' => /\ rpc'[s].flushed = Nil <=> depth[s] = 0
                                     /\ rpc'[s].old = 0 <=> depth[s] = 0
      /\ \A s, u \in Rpc : InUse(s)' /\ rpc'[s].flushed = u =>
           depth[s] = depth[u] + 1 /\ rpc'[u].call = rpc'[s].call
  BY <1>1, <1>2, <1>5 DEF Depths
<1>9. ASSUME NEW s \in Rpc, InUse(s)'
      PROVE  \E w \in Proc, u \in Rpc :
               cur'[w] = u /\ rpc'[u].call = rpc'[s].call /\ depth[s] <= depth[u]
  <2>1. InUse(s) /\ s # r /\ rpc'[s] = rpc[s]
    BY <1>2, <1>9
  <2>2. CASE rpc[s].call = rpc[r].call
    <3>1. PICK u \in Rpc : u = rpc[r].flushed /\ depth[s] <= depth[u]
      BY <1>7, <2>1, <2>2
    <3>2. u # r /\ rpc[u].call = rpc[r].call
      BY <1>1, <1>2, <1>3, <1>6, <3>1 DEF Depths
    <3> QED
      BY <1>2, <2>1, <2>2, <3>1, <3>2
  <2>3. CASE rpc[s].call # rpc[r].call
    <3>1. PICK w \in Proc, u \in Rpc : cur[w] = u /\ rpc[u].call = rpc[s].call
                                       /\ depth[s] <= depth[u]
      BY <1>1, <2>1 DEF Depths
    <3>2. w # p /\ u # r
      BY <1>2, <2>3, <3>1
    <3> QED
      BY <1>2, <2>1, <3>1, <3>2
  <2> QED
    BY <2>2, <2>3
<1>10. ASSUME NEW w \in Proc, NEW v \in Proc, NEW s \in Rpc, NEW u \in Rpc,
              cur'[w] = s, cur'[v] = u, rpc'[s].call = rpc'[u].call
       PROVE  w = v
  <2>1. ASSUME NEW x \in Proc, NEW y \in Rpc, cur'[x] = y
        PROVE  \E y1 \in Rpc : cur[x] = y1 /\ rpc[y1].call = rpc'[y].call
    <3>1. CASE x = p
      <4>1. y = rpc[r].flushed /\ y # r
        BY <1>2, <1>6, <2>1, <3>1
      <4>2. rpc[y].call = rpc[r].call
        BY <1>1, <1>3, <4>1 DEF Depths
      <4> QED
        BY <1>2, <3>1, <4>1, <4>2
    <3>2. CASE x # p
      BY <1>2, <1>4, <2>1, <3>2
    <3> QED
      BY <3>1, <3>2
  <2>2. PICK s1 \in Rpc : cur[w] = s1 /\ rpc[s1].call = rpc'[s].call
    BY <1>10, <2>1
  <2>3. PICK u1 \in Rpc : cur[v] = u1 /\ rpc[u1].call = rpc'[u].call
    BY <1>10, <2>1
  <2> QED
    BY <1>1, <1>10, <2>2, <2>3 DEF Depths
<1>11. \A s, u \in Rpc : InUse(s)' /\ InUse(u)' /\ rpc'[s].call = rpc'[u].call
                           /\ depth[s] = depth[u] => s = u
  BY <1>1, <1>2 DEF Depths
<1>12. ASSUME NEW f \in Rpc, InUse(f)', rpc'[f].old # 0
       PROVE  \E o \in Rpc : InUse(o)' /\ rpc'[o].old = 0 /\ rpc'[o].call = rpc'[f].call
                               /\ rpc'[f].old = rpc'[o].tag
  <2>1. InUse(f) /\ f # r /\ rpc[f].old # 0 /\ rpc'[f] = rpc[f]
    BY <1>2, <1>12
  <2>2. PICK o \in Rpc : InUse(o) /\ rpc[o].old = 0 /\ rpc[o].call = rpc[f].call
                          /\ rpc[f].old = rpc[o].tag
    BY <1>1, <2>1 DEF Depths
  <2>3. o # r
    <3>1. ASSUME o = r PROVE FALSE
      <4>1. rpc[r].flushed = Nil
        BY <1>1, <1>3, <2>2, <3>1 DEF Depths
      <4> QED
        BY <1>2, <1>7, <2>1, <2>2, <3>1, <4>1
    <3> QED
      BY <3>1
  <2> QED
    BY <1>2, <2>1, <2>2, <2>3
<1>13. Depths(depth)'
  BY <1>8, <1>9, <1>10, <1>11, <1>12 DEF Depths
<1> QED
  BY <1>13 DEF DepthInv

(* A structure that is given up is being freed; one that is done has the   *)
(* answer to its own request; the others have none.                        *)
DoneInv ==
  \A r \in Rpc : InUse(r) =>
    /\ rpc[r].done = 2 => \E p \in Proc : cur[p] = r /\ pc[p] = "free"
    /\ rpc[r].done = 0 => rpc[r].ans \notin Call
    /\ rpc[r].done = 1 => rpc[r].ans = AnswerTo(rpc[r].call, rpc[r].old)

(* A call that has structures has not returned.                            *)
ResInv ==
  /\ \A r \in Rpc : InUse(r) => result[rpc[r].call] \in {Pending, Failed}
  /\ \A c \in Call : c > calls => result[c] = Pending

(* The server knows calls that were made only ...                          *)
MadeInv ==
  /\ \A i \in DOMAIN srv : srv[i].call <= calls
  /\ \A c \in answered : c <= calls

(* ... and nothing of one whose request is yet to be written ...           *)
FreshInv ==
  \A p \in Proc, r \in Rpc : cur[p] = r /\ pc[p] = "write" /\ rpc[r].old = 0 =>
    /\ rpc[r].call \notin answered
    /\ \A i \in DOMAIN srv : srv[i].call # rpc[r].call

(* ... has the request of a call once, before any flush of it, with the    *)
(* tag of the structure of the call.                                       *)
OrigInv ==
  /\ \A i \in DOMAIN srv : srv[i].old = 0 => srv[i].call \notin answered
  /\ \A i, j \in DOMAIN srv : srv[i].call = srv[j].call /\ srv[i].old = 0 => i <= j
  /\ \A i \in DOMAIN srv, o \in Rpc :
       InUse(o) /\ srv[i].old = 0 /\ rpc[o].old = 0 /\ srv[i].call = rpc[o].call =>
         srv[i].tag = rpc[o].tag

(* The reply to a call that was answered has come or is on its way.        *)
AnsweredInv ==
  \A o \in Rpc : InUse(o) /\ rpc[o].old = 0 /\ Open(rpc[o].call) /\ rpc[o].call \in answered =>
    \/ rpc[o].ans = rpc[o].call
    \/ rpc[o].done = 0 /\ \E k \in DOMAIN wire : wire[k].tag = rpc[o].tag

(* When an Rflush is on its way, the server has nothing left of the call,  *)
(* and the reply to it, if there was one, has come or is ahead.            *)
FlushedInv ==
  \A f \in Rpc, k \in DOMAIN wire :
    InUse(f) /\ rpc[f].old # 0 /\ rpc[f].done = 0 /\ wire[k].tag = rpc[f].tag
        /\ Open(rpc[f].call) =>
      /\ NoOrig(rpc[f].call)
      /\ rpc[f].call \in answered =>
           \/ Received(rpc[f].call)
           \/ \E l \in DOMAIN wire : l < k /\ wire[l].tag = rpc[f].old

(* A call with a structure that is done, or that frees its structures, is  *)
(* settled.                                                                *)
SettledInv ==
  /\ \A f \in Rpc : InUse(f) /\ rpc[f].done = 1 => Settled(rpc[f].call)
  /\ \A p \in Proc, r \in Rpc :
       cur[p] = r /\ pc[p] \in {"free", "qrm"} => Settled(rpc[r].call)
  /\ \A p \in Proc, r \in Rpc :
       cur[p] = r /\ pc[p] = "gate" => rpc[r].done # 0 \/ ~Open(rpc[r].call)

Honor == DoneInv /\ ResInv /\ MadeInv /\ FreshInv /\ OrigInv /\ AnsweredInv /\ FlushedInv
           /\ SettledInv /\ HonorsReply

(* What the invariant says of the call of a structure in use and of who    *)
(* has it.                                                                 *)
LEMMA CallOf ==
  ASSUME MInv
  PROVE  /\ \A r \in Rpc : InUse(r) => rpc[r].call \in Call /\ rpc[r].call \in 1..calls
         /\ \A p \in Proc, r \in Rpc : cur[p] = r => InUse(r) /\ pc[p] # "idle"
         /\ \A p, q \in Proc, r \in Rpc : cur[p] = r /\ cur[q] = r => p = q
         /\ calls \in Nat /\ Rflush \notin Call /\ Pending \notin Call /\ Failed \notin Call
         /\ Pending # Rflush /\ Failed # Rflush /\ Failed # Pending
<1>1. calls \in 0..MaxCalls /\ MaxCalls \in Nat
  BY BoundAssumption DEF MInv, TypeOK
<1>2. \A r \in Rpc : InUse(r) => rpc[r].call \in 1..calls
  BY DEF MInv, Store, CallInv
<1>3. Nil \notin Rpc
  BY NilAssumption
<1> QED
  BY <1>1, <1>2, <1>3 DEF Call, Rflush, Pending, Failed, MInv, Store, CurInv

(* Steps that move processes, and may make a call fail.                    *)
LEMMA QuietHonor ==
  ASSUME MInv, Honor, UNCHANGED <<rpc, rpcfree, cur, srv, wire, calls, answered>>,
         \A w \in Proc : (pc'[w] = "write" => pc[w] = "write")
                         /\ (pc[w] = "free" => pc'[w] = "free"),
         \A c \in Call : result'[c] = result[c] \/ (result'[c] = Failed /\ c <= calls),
         \A w \in Proc, r \in Rpc : cur[w] = r /\ pc'[w] \in {"free", "qrm"} =>
           \/ pc[w] \in {"free", "qrm"}
           \/ Settled(rpc[r].call)
           \/ result'[rpc[r].call] = Failed,
         \A w \in Proc, r \in Rpc : cur[w] = r /\ pc'[w] = "gate" =>
           pc[w] = "gate" \/ rpc[r].done # 0 \/ result'[rpc[r].call] = Failed
  PROVE  Honor'
<1>1. /\ \A r \in Rpc : InUse(r) => rpc[r].call \in Call
      /\ \A p \in Proc, r \in Rpc : cur[p] = r => InUse(r)
      /\ calls \in Nat /\ Failed # Rflush
  BY CallOf
<1>2. \A r \in Rpc : InUse(r)' <=> InUse(r)
  BY DEF InUse, On
<1>3. \A c : (NoOrig(c)' <=> NoOrig(c)) /\ (Received(c)' <=> Received(c))
  BY DEF NoOrig, Received, InUse, On
<1>4. \A c \in Call : (Open(c)' => Open(c)) /\ (result'[c] = Failed => ~Open(c)')
  BY DEF Open
<1>5. \A c \in Call : Settled(c) => Settled(c)'
  BY <1>3, <1>4 DEF Settled
<1>6. DoneInv'
  BY <1>2 DEF Honor, DoneInv, AnswerTo
<1>7. ResInv'
  BY <1>1, <1>2 DEF Honor, ResInv, Call
<1>8. MadeInv' /\ OrigInv'
  BY <1>2 DEF Honor, MadeInv, OrigInv
<1>9. FreshInv'
  BY DEF Honor, FreshInv
<1>10. AnsweredInv'
  BY <1>1, <1>2, <1>4 DEF Honor, AnsweredInv
<1>11. FlushedInv'
  <2> SUFFICES ASSUME NEW f \in Rpc, NEW k \in DOMAIN wire, InUse(f), rpc[f].old # 0,
                      rpc[f].done = 0, wire[k].tag = rpc[f].tag, Open(rpc[f].call)',
                      NEW c, c = rpc[f].call
               PROVE  /\ NoOrig(c)'
                      /\ c \in answered => \/ Received(c)'
                                           \/ \E l \in DOMAIN wire : l < k /\ wire[l].tag = rpc[f].old
    BY <1>2 DEF FlushedInv, NoOrig, Received, InUse, On
  <2>1. Open(c)
    BY <1>1, <1>4
  <2> QED
    BY <1>3, <2>1 DEF Honor, FlushedInv
<1>12. SettledInv'
  <2>1. ASSUME NEW f \in Rpc, InUse(f), rpc[f].done = 1, NEW c, c = rpc[f].call
        PROVE  Settled(c)'
    BY <1>1, <1>5, <2>1 DEF Honor, SettledInv
  <2>2. ASSUME NEW w \in Proc, NEW r \in Rpc, cur[w] = r, pc'[w] \in {"free", "qrm"},
               NEW c, c = rpc[r].call
        PROVE  Settled(c)'
    <3>1. c \in Call
      BY <1>1, <2>2
    <3>2. Settled(c) \/ result'[c] = Failed
      BY <2>2 DEF Honor, SettledInv
    <3> QED
      BY <1>4, <1>5, <3>1, <3>2 DEF Settled
  <2>3. ASSUME NEW w \in Proc, NEW r \in Rpc, cur[w] = r, pc'[w] = "gate",
               NEW c, c = rpc[r].call
        PROVE  rpc[r].done # 0 \/ ~Open(c)'
    <3>1. c \in Call
      BY <1>1, <2>3
    <3>2. rpc[r].done # 0 \/ ~Open(c) \/ result'[c] = Failed
      BY <2>3 DEF Honor, SettledInv
    <3> QED
      BY <1>4, <3>1, <3>2
  <2>4. \A f \in Rpc : InUse(f)' /\ rpc'[f].done = 1 => Settled(rpc[f].call)'
    BY <1>2, <2>1 DEF Settled, Open, NoOrig, Received
  <2>5. \A w \in Proc, r \in Rpc : cur'[w] = r /\ pc'[w] \in {"free", "qrm"} =>
          Settled(rpc[r].call)'
    BY <2>2 DEF Settled, Open, NoOrig, Received
  <2>6. \A w \in Proc, r \in Rpc : cur'[w] = r /\ pc'[w] = "gate" =>
          rpc'[r].done # 0 \/ ~Open(rpc[r].call)'
    BY <2>3 DEF Open
  <2> QED
    BY <2>4, <2>5, <2>6 DEF SettledInv
<1>13. HonorsReply'
  BY <1>1 DEF Honor, HonorsReply
<1> QED
  BY <1>6, <1>7, <1>8, <1>9, <1>10, <1>11, <1>12, <1>13 DEF Honor

(* A request is sent.                                                      *)
LEMMA SendHonor ==
  ASSUME MInv, Chained, Honor, NEW p \in Proc, NEW l \in {"loop", "flush", "gateflush"},
         pc[p] = "write", pc' = [pc EXCEPT ![p] = l],
         srv' = Append(srv, Sent(cur[p])),
         UNCHANGED <<rpc, rpcfree, cur, wire, calls, answered, result>>
  PROVE  Honor'
<1> DEFINE n == Len(srv)
<1>1. /\ \A r \in Rpc : InUse(r) => rpc[r].call \in Call /\ rpc[r].call \in 1..calls
      /\ \A w \in Proc, r \in Rpc : cur[w] = r => InUse(r) /\ pc[w] # "idle"
      /\ \A w, q \in Proc, r \in Rpc : cur[w] = r /\ cur[q] = r => w = q
      /\ calls \in Nat /\ Rflush \notin {Pending, Failed}
      /\ srv \in Seq(Tmsg) /\ pc \in [Proc -> Places]
  BY CallOf, Types DEF MInv
<1>2. PICK r \in Rpc : r = cur[p] /\ InUse(r) /\ rpc[r].done = 0
  BY CurIs DEF MInv, Store, NoneUnder
<1>3. PICK m : m = Sent(r)
  OBVIOUS
<1>4. m.tag = rpc[r].tag /\ m.call = rpc[r].call /\ m.old = rpc[r].old
  BY <1>3 DEF Sent
<1>5. /\ n \in Nat /\ DOMAIN srv = 1..n /\ DOMAIN srv' = 1..n + 1
      /\ \A i \in 1..n : srv'[i] = srv[i]
      /\ srv'[n + 1] = m
  BY <1>1, <1>2, <1>3
<1> HIDE DEF n
<1>6. \A i \in DOMAIN srv' : \/ i \in DOMAIN srv /\ srv'[i] = srv[i] /\ i < n + 1
                             \/ i = n + 1 /\ srv'[i] = m
  BY <1>5
<1>7. \A s \in Rpc : InUse(s)' <=> InUse(s)
  BY DEF InUse, On
<1>8. \A w \in Proc : /\ w # p => pc'[w] = pc[w]
                      /\ pc'[p] \notin {"idle", "write", "free", "qrm", "gate"}
  BY <1>1
<1>9. ASSUME NEW c, c # m.call \/ m.old # 0 PROVE Settled(c) => Settled(c)'
  <2>1. NoOrig(c) => NoOrig(c)'
    BY <1>6, <1>9 DEF NoOrig
  <2>2. Received(c) => Received(c)'
    BY <1>7 DEF Received
  <2> QED
    BY <2>1, <2>2 DEF Settled, Open
<1>10. DoneInv'
  BY <1>7, <1>8 DEF Honor, DoneInv, AnswerTo
<1>11. ResInv'
  BY <1>7 DEF Honor, ResInv
<1>12. MadeInv'
  BY <1>1, <1>2, <1>4, <1>6 DEF Honor, MadeInv
<1>13. FreshInv'
  <2> SUFFICES ASSUME NEW w \in Proc, NEW s \in Rpc, cur[w] = s, pc'[w] = "write",
                      rpc[s].old = 0
               PROVE  /\ rpc[s].call \notin answered
                      /\ \A i \in DOMAIN srv' : srv'[i].call # rpc[s].call
    BY DEF FreshInv
  <2>1. w # p /\ pc[w] = "write"
    BY <1>8
  <2>2. rpc[s].call # m.call
    BY <1>2, <1>4, <2>1 DEF Chained
  <2> QED
    BY <1>6, <2>1, <2>2 DEF Honor, FreshInv
<1>14. OrigInv'
  <2>1. m.old = 0 => m.call \notin answered /\ \A i \in DOMAIN srv : srv[i].call # m.call
    BY <1>2, <1>4 DEF Honor, FreshInv
  <2>2. \A i \in DOMAIN srv' : srv'[i].old = 0 => srv'[i].call \notin answered
    BY <1>6, <2>1 DEF Honor, OrigInv
  <2>3. ASSUME NEW i \in DOMAIN srv', NEW j \in DOMAIN srv', srv'[i].call = srv'[j].call,
               srv'[i].old = 0
        PROVE  i <= j
    <3>1. CASE i = n + 1 /\ srv'[i] = m
      BY <1>5, <1>6, <2>1, <2>3, <3>1
    <3>2. CASE i \in DOMAIN srv /\ srv'[i] = srv[i] /\ i < n + 1
      <4>1. CASE j = n + 1
        BY <1>5, <3>2, <4>1
      <4>2. CASE j \in DOMAIN srv /\ srv'[j] = srv[j]
        BY <2>3, <3>2, <4>2 DEF Honor, OrigInv
      <4> QED
        BY <1>6, <4>1, <4>2
    <3> QED
      BY <1>6, <3>1, <3>2
  <2>4. ASSUME NEW i \in DOMAIN srv', NEW o \in Rpc, InUse(o), srv'[i].old = 0,
               rpc[o].old = 0, srv'[i].call = rpc[o].call
        PROVE  srv'[i].tag = rpc[o].tag
    <3>1. CASE i \in DOMAIN srv /\ srv'[i] = srv[i]
      BY <2>4, <3>1 DEF Honor, OrigInv
    <3>2. CASE srv'[i] = m
      <4>1. o = r
        BY <1>2, <1>4, <2>4, <3>2 DEF Chained
      <4> QED
        BY <1>4, <3>2, <4>1
    <3> QED
      BY <1>6, <3>1, <3>2
  <2> QED
    BY <1>7, <2>2, <2>3, <2>4 DEF OrigInv
<1>15. AnsweredInv'
  BY <1>7 DEF Honor, AnsweredInv, Open
<1>16. FlushedInv'
  <2> SUFFICES ASSUME NEW f \in Rpc, NEW k \in DOMAIN wire, InUse(f), rpc[f].old # 0,
                      rpc[f].done = 0, wire[k].tag = rpc[f].tag, Open(rpc[f].call),
                      NEW c, c = rpc[f].call
               PROVE  /\ NoOrig(c)'
                      /\ c \in answered => \/ Received(c)'
                                           \/ \E x \in DOMAIN wire : x < k /\ wire[x].tag = rpc[f].old
    BY <1>7 DEF FlushedInv, NoOrig, Received, InUse, On, Open
  <2>1. m.call # c \/ m.old # 0
    BY <1>2, <1>4 DEF Chained
  <2>2. NoOrig(c) => NoOrig(c)'
    BY <1>6, <2>1 DEF NoOrig
  <2>3. Received(c) => Received(c)'
    BY <1>7 DEF Received
  <2> QED
    BY <2>2, <2>3 DEF Honor, FlushedInv
<1>17. SettledInv'
  <2>1. ASSUME NEW f \in Rpc, InUse(f), rpc[f].done = 1, NEW c, c = rpc[f].call
        PROVE  Settled(c)'
    <3>1. m.call # c \/ m.old # 0
      BY <1>2, <1>4, <2>1 DEF Chained
    <3> QED
      BY <1>9, <2>1, <3>1 DEF Honor, SettledInv
  <2>2. ASSUME NEW w \in Proc, NEW s \in Rpc, cur[w] = s, pc'[w] \in {"free", "qrm"},
               NEW c, c = rpc[s].call
        PROVE  Settled(c)'
    <3>1. w # p /\ pc[w] \in {"free", "qrm"}
      BY <1>8, <2>2
    <3>2. m.call # c
      BY <1>2, <1>4, <2>2, <3>1 DEF Chained
    <3> QED
      BY <1>9, <2>2, <3>1, <3>2 DEF Honor, SettledInv
  <2>3. \A f \in Rpc : InUse(f)' /\ rpc'[f].done = 1 => Settled(rpc[f].call)'
    BY <1>7, <2>1 DEF Settled, Open, NoOrig, Received
  <2>4. \A w \in Proc, s \in Rpc : cur'[w] = s /\ pc'[w] \in {"free", "qrm"} =>
          Settled(rpc[s].call)'
    BY <2>2 DEF Settled, Open, NoOrig, Received
  <2>5. \A w \in Proc, s \in Rpc : cur'[w] = s /\ pc'[w] = "gate" =>
          rpc'[s].done # 0 \/ ~Open(rpc[s].call)'
    BY <1>8 DEF Honor, SettledInv, Open
  <2> QED
    BY <2>3, <2>4, <2>5 DEF SettledInv
<1>18. HonorsReply'
  <2> SUFFICES ASSUME NEW c \in Call, result[c] = Rflush, NEW i \in DOMAIN srv'
               PROVE  c \notin answered /\ (srv'[i].call # c \/ srv'[i].old # 0)
    BY DEF HonorsReply, Honor
  <2>1. m.call # c
    BY <1>1, <1>2, <1>4 DEF Honor, ResInv
  <2> QED
    BY <1>6, <2>1 DEF Honor, HonorsReply
<1> QED
  BY <1>10, <1>11, <1>12, <1>13, <1>14, <1>15, <1>16, <1>17, <1>18 DEF Honor

(* mntflushfree marks a structure as flushed, then takes it off the queue; *)
(* d is its done afterwards.                                               *)
LEMMA GiveUpHonor ==
  ASSUME MInv, Chained, Honor, NEW p \in Proc, NEW q \in Rpc, q = cur[p], Alters(q),
         \/ /\ pc[p] = "free" /\ pc' = [pc EXCEPT ![p] = "qrm"]
            /\ rpc[q].done = 0 /\ rpc'[q].done = 0 /\ rpc'[q].ans = Rflush
         \/ /\ pc[p] = "qrm" /\ pc' = [pc EXCEPT ![p] = "free"]
            /\ rpc'[q].done = 2 /\ rpc'[q].ans = rpc[q].ans,
         UNCHANGED <<rpcfree, cur, srv, wire, calls, answered, result>>
  PROVE  Honor'
<1>1. /\ \A r \in Rpc : InUse(r) => rpc[r].call \in Call /\ rpc[r].call \in 1..calls
      /\ \A w \in Proc, r \in Rpc : cur[w] = r => InUse(r) /\ pc[w] # "idle"
      /\ \A w, v \in Proc, r \in Rpc : cur[w] = r /\ cur[v] = r => w = v
      /\ Rflush \notin Call
      /\ pc \in [Proc -> Places]
  BY CallOf, Types DEF MInv
<1>2. \A r \in Rpc : /\ rpc'[r].tag = rpc[r].tag /\ rpc'[r].call = rpc[r].call
                     /\ rpc'[r].old = rpc[r].old
                     /\ r # q => rpc'[r].done = rpc[r].done /\ rpc'[r].ans = rpc[r].ans
  BY DEF Alters
<1>3. \A r \in Rpc : InUse(r)' <=> InUse(r)
  BY <1>2 DEF InUse, On
<1>4. /\ rpc'[q].done \in {0, 2}
      /\ rpc[q].ans = rpc[q].call => rpc'[q].ans = rpc[q].call
      /\ rpc'[q].ans \in {Rflush, rpc[q].ans}
      /\ rpc'[q].done = 0 => rpc[q].done = 0
  BY <1>1, <1>3 DEF Honor, DoneInv
<1>5. \A w \in Proc : w # p => pc'[w] = pc[w]
  BY <1>1
<1>6. ASSUME NEW c \in Call, Received(c) PROVE Received(c)'
  <2>1. PICK o \in Rpc : InUse(o) /\ rpc[o].old = 0 /\ rpc[o].call = c /\ rpc[o].ans = c
    BY <1>6 DEF Received
  <2>2. rpc'[o].ans = c
    BY <1>2, <1>4, <2>1
  <2> QED
    BY <1>2, <1>3, <2>1, <2>2 DEF Received
<1>7. \A c \in Call : Settled(c) => Settled(c)'
  BY <1>6 DEF Settled, NoOrig, Open
<1>8. DoneInv'
  <2> SUFFICES ASSUME NEW r \in Rpc, InUse(r)
               PROVE  /\ rpc'[r].done = 2 => \E w \in Proc : cur[w] = r /\ pc'[w] = "free"
                      /\ rpc'[r].done = 0 => rpc'[r].ans \notin Call
                      /\ rpc'[r].done = 1 => rpc'[r].ans = AnswerTo(rpc'[r].call, rpc'[r].old)
    BY <1>3 DEF DoneInv, AnswerTo
  <2>1. CASE r # q
    <3>1. rpc'[r].done = 2 => \E w \in Proc : cur[w] = r /\ pc'[w] = "free"
      BY <1>2, <1>5, <2>1 DEF Honor, DoneInv
    <3> QED
      BY <1>2, <2>1, <3>1 DEF Honor, DoneInv, AnswerTo
  <2>2. CASE r = q
    <3>1. rpc'[q].done = 2 => pc'[p] = "free"
      BY <1>1
    <3>2. rpc'[q].done = 0 => rpc'[q].ans \notin Call
      BY <1>1, <1>4, <2>2 DEF Honor, DoneInv
    <3> QED
      BY <1>4, <2>2, <3>1, <3>2
  <2> QED
    BY <2>1, <2>2
<1>9. ResInv' /\ MadeInv'
  BY <1>2, <1>3 DEF Honor, ResInv, MadeInv
<1>10. FreshInv'
  <2>1. \A w \in Proc : pc'[w] = "write" => pc[w] = "write"
    BY <1>1
  <2> QED
    BY <1>2, <2>1 DEF Honor, FreshInv
<1>11. OrigInv'
  BY <1>2, <1>3 DEF Honor, OrigInv
<1>12. AnsweredInv'
  <2> SUFFICES ASSUME NEW o \in Rpc, InUse(o), rpc[o].old = 0, Open(rpc[o].call),
                      rpc[o].call \in answered
               PROVE  \/ rpc'[o].ans = rpc[o].call
                      \/ rpc'[o].done = 0 /\ \E k \in DOMAIN wire : wire[k].tag = rpc[o].tag
    BY <1>2, <1>3 DEF AnsweredInv, Open
  <2>1. CASE o # q
    BY <1>2, <2>1 DEF Honor, AnsweredInv
  <2>2. CASE o = q
    <3>1. Settled(rpc[q].call)
      BY DEF Honor, SettledInv
    <3>2. PICK u \in Rpc : InUse(u) /\ rpc[u].old = 0 /\ rpc[u].call = rpc[q].call
                           /\ rpc[u].ans = rpc[q].call
      BY <2>2, <3>1 DEF Settled, Received
    <3>3. u = q
      BY <2>2, <3>2 DEF Chained
    <3> QED
      BY <1>4, <2>2, <3>2, <3>3
  <2> QED
    BY <2>1, <2>2
<1>13. FlushedInv'
  <2> SUFFICES ASSUME NEW f \in Rpc, NEW k \in DOMAIN wire, InUse(f), rpc[f].old # 0,
                      rpc'[f].done = 0, wire[k].tag = rpc[f].tag, Open(rpc[f].call),
                      NEW c, c = rpc[f].call
               PROVE  /\ NoOrig(c)'
                      /\ c \in answered => \/ Received(c)'
                                           \/ \E x \in DOMAIN wire : x < k /\ wire[x].tag = rpc[f].old
    BY <1>2, <1>3 DEF FlushedInv, NoOrig, Received, InUse, On, Open
  <2>1. rpc[f].done = 0 /\ c \in Call
    BY <1>1, <1>2, <1>4
  <2> QED
    BY <1>6, <2>1 DEF Honor, FlushedInv, NoOrig
<1>14. SettledInv'
  <2>1. ASSUME NEW f \in Rpc, InUse(f), rpc'[f].done = 1, NEW c, c = rpc[f].call
        PROVE  Settled(c)'
    <3>1. rpc[f].done = 1 /\ c \in Call
      BY <1>1, <1>2, <1>4, <2>1
    <3> QED
      BY <1>7, <2>1, <3>1 DEF Honor, SettledInv
  <2>2. ASSUME NEW w \in Proc, NEW s \in Rpc, cur[w] = s, pc'[w] \in {"free", "qrm"},
               NEW c, c = rpc[s].call
        PROVE  Settled(c)'
    <3>1. pc[w] \in {"free", "qrm"} /\ c \in Call
      BY <1>1, <1>5, <2>2
    <3> QED
      BY <1>7, <2>2, <3>1 DEF Honor, SettledInv
  <2>3. ASSUME NEW w \in Proc, NEW s \in Rpc, cur[w] = s, pc'[w] = "gate"
        PROVE  rpc'[s].done # 0 \/ ~Open(rpc[s].call)
    <3>1. w # p /\ pc[w] = "gate"
      BY <1>1, <2>3
    <3>2. s # q
      BY <1>1, <2>3, <3>1
    <3> QED
      BY <1>2, <2>3, <3>1, <3>2 DEF Honor, SettledInv
  <2>4. \A f \in Rpc : InUse(f)' /\ rpc'[f].done = 1 => Settled(rpc[f].call)'
    BY <1>2, <1>3, <2>1 DEF Settled, Open, NoOrig, Received
  <2>5. \A w \in Proc, s \in Rpc : cur'[w] = s /\ pc'[w] \in {"free", "qrm"} =>
          Settled(rpc[s].call)'
    BY <1>2, <2>2 DEF Settled, Open, NoOrig, Received
  <2>6. \A w \in Proc, s \in Rpc : cur'[w] = s /\ pc'[w] = "gate" =>
          rpc'[s].done # 0 \/ ~Open(rpc[s].call)'
    BY <1>2, <2>3 DEF Open
  <2> QED
    BY <2>4, <2>5, <2>6 DEF SettledInv
<1>15. HonorsReply'
  BY DEF Honor, HonorsReply
<1> QED
  BY <1>8, <1>9, <1>10, <1>11, <1>12, <1>13, <1>14, <1>15 DEF Honor

(* The structure that a flush is of: if a message has its tag, it waits.   *)
LEMMA OldWaits ==
  ASSUME MInv, Chained, Honor, NEW f \in Rpc, InUse(f), rpc[f].old # 0, ~NoMsg(rpc[f].old)
  PROVE  \E o \in Rpc : InUse(o) /\ rpc[o].old = 0 /\ rpc[o].call = rpc[f].call
                          /\ rpc[f].old = rpc[o].tag /\ rpc[o].done = 0
<1>1. PICK o \in Rpc : InUse(o) /\ rpc[o].old = 0 /\ rpc[o].call = rpc[f].call
                       /\ rpc[f].old = rpc[o].tag
  BY DEF Chained
<1>2. rpc[o].done # 1
  BY <1>1 DEF MInv, Store, NoneUnder
<1>3. rpc[o].done # 2
  <2>1. ASSUME NEW p \in Proc, cur[p] = o PROVE FALSE
    BY <1>1, <2>1 DEF Chained
  <2> QED
    BY <1>1, <2>1 DEF Honor, DoneInv
<1>4. rpc[o].done \in 0..2
  BY <1>1, Types DEF MInv, Mntrpc
<1> QED
  BY <1>1, <1>2, <1>3, <1>4

(* What is left of the wire when its first reply is read.                  *)
LEMMA RestIs ==
  ASSUME NEW S, NEW s \in Seq(S), s # <<>>
  PROVE  /\ 1 \in DOMAIN s /\ DOMAIN s \subseteq Nat
         /\ \A k \in DOMAIN Tail(s) : k + 1 \in DOMAIN s /\ Tail(s)[k] = s[k + 1]
         /\ \A k \in DOMAIN s : k # 1 => k - 1 \in DOMAIN Tail(s) /\ Tail(s)[k - 1] = s[k]
<1>1. Len(s) \in Nat \ {0} /\ DOMAIN s = 1..Len(s) /\ DOMAIN Tail(s) = 1..Len(s) - 1
  OBVIOUS
<1>2. \A k \in 1..Len(s) - 1 : Tail(s)[k] = s[k + 1]
  OBVIOUS
<1> QED
  BY <1>1, <1>2

(* A reply is read: a stale one, or that to q, which waits.                *)
LEMMA MuxHonor ==
  ASSUME MInv, Chained, Honor, NEW t, t = wire[1], wire # <<>>, wire' = Tail(wire),
         NEW p \in Proc, pc[p] = "read",
         \/ /\ \A r \in Rpc : InUse(r) /\ rpc[r].done = 0 => rpc[r].tag # t.tag
            /\ UNCHANGED <<rpc, pc>>
         \/ \E q \in Rpc : /\ InUse(q) /\ rpc[q].done = 0 /\ rpc[q].tag = t.tag
                           /\ Alters(q) /\ rpc'[q].done = 1 /\ rpc'[q].ans = t.ans
                           /\ \/ q = cur[p] /\ pc' = [pc EXCEPT ![p] = "gate"]
                              \/ pc' = [pc EXCEPT ![p] = "wakeup"],
         UNCHANGED <<rpcfree, cur, srv, calls, answered, result>>
  PROVE  Honor'
<1>1. /\ \A r \in Rpc : InUse(r) => rpc[r].call \in Call /\ rpc[r].call \in 1..calls
      /\ \A w \in Proc, r \in Rpc : cur[w] = r => InUse(r) /\ pc[w] # "idle"
      /\ \A w, v \in Proc, r \in Rpc : cur[w] = r /\ cur[v] = r => w = v
      /\ Rflush \notin Call
      /\ pc \in [Proc -> Places] /\ wire \in Seq(Reply)
  BY CallOf, Types DEF MInv
<1>2. /\ 1 \in DOMAIN wire /\ DOMAIN wire \subseteq Nat
      /\ \A k \in DOMAIN wire' : k + 1 \in DOMAIN wire /\ wire'[k] = wire[k + 1]
      /\ \A k \in DOMAIN wire : k # 1 => k - 1 \in DOMAIN wire' /\ wire'[k - 1] = wire[k]
      /\ DOMAIN wire' \subseteq Nat
  <2>1. /\ 1 \in DOMAIN wire /\ DOMAIN wire \subseteq Nat
        /\ \A k \in DOMAIN wire' : k + 1 \in DOMAIN wire /\ wire'[k] = wire[k + 1]
        /\ \A k \in DOMAIN wire : k # 1 => k - 1 \in DOMAIN wire' /\ wire'[k - 1] = wire[k]
    BY <1>1, RestIs
  <2>2. DOMAIN wire' \subseteq Nat
    BY <1>1
  <2> QED
    BY <2>1, <2>2
<1>3. \A r \in Rpc : /\ rpc'[r].tag = rpc[r].tag /\ rpc'[r].call = rpc[r].call
                     /\ rpc'[r].old = rpc[r].old
                     /\ rpc'[r].done = 0 => rpc[r].done = 0
                     /\ rpc[r].done = 0 /\ rpc[r].tag # t.tag => rpc'[r].done = 0
                     /\ rpc[r].done # 0 => rpc'[r].done = rpc[r].done
                     /\ rpc[r].done # 0 => rpc'[r].ans = rpc[r].ans
                     /\ rpc'[r].done = 0 => rpc'[r].ans = rpc[r].ans
  BY DEF Alters
<1>4. \A r \in Rpc : InUse(r)' <=> InUse(r)
  BY <1>3 DEF InUse, On
<1>5. ASSUME NEW r \in Rpc, InUse(r), rpc[r].done = 0, rpc[r].tag = t.tag
      PROVE  rpc'[r].done = 1 /\ rpc'[r].ans = AnswerTo(rpc[r].call, rpc[r].old)
  <2>1. t.ans = AnswerTo(rpc[r].call, rpc[r].old)
    BY <1>2, <1>5 DEF MInv, Store, MsgInv
  <2>2. PICK q \in Rpc : /\ InUse(q) /\ rpc[q].done = 0 /\ rpc[q].tag = t.tag
                         /\ rpc'[q].done = 1 /\ rpc'[q].ans = t.ans
    BY <1>5
  <2>3. q = r
    BY <1>5, <2>2 DEF MInv, Store, TagInv, Holds, InUse
  <2> QED
    BY <2>1, <2>2, <2>3
<1>6. \A w \in Proc : /\ pc'[w] # pc[w] => pc'[w] \in {"gate", "wakeup"} /\ pc[w] = "read"
  BY <1>1
<1>7. ASSUME NEW c \in Call, Received(c) PROVE Received(c)'
  <2>1. PICK o \in Rpc : InUse(o) /\ rpc[o].old = 0 /\ rpc[o].call = c /\ rpc[o].ans = c
    BY <1>7 DEF Received
  <2>2. rpc[o].done # 0
    BY <2>1 DEF Honor, DoneInv
  <2> QED
    BY <1>3, <1>4, <2>1, <2>2 DEF Received
<1>8. \A c \in Call : Settled(c) => Settled(c)'
  BY <1>7 DEF Settled, NoOrig, Open
<1>9. DoneInv'
  <2> SUFFICES ASSUME NEW r \in Rpc, InUse(r)
               PROVE  /\ rpc'[r].done = 2 => \E w \in Proc : cur[w] = r /\ pc'[w] = "free"
                      /\ rpc'[r].done = 0 => rpc'[r].ans \notin Call
                      /\ rpc'[r].done = 1 => rpc'[r].ans = AnswerTo(rpc'[r].call, rpc'[r].old)
    BY <1>4 DEF DoneInv, AnswerTo
  <2>1. CASE rpc[r].done = 0 /\ rpc[r].tag = t.tag
    BY <1>3, <1>5, <2>1
  <2>2. CASE ~(rpc[r].done = 0 /\ rpc[r].tag = t.tag)
    <3>1. rpc'[r].done = rpc[r].done /\ rpc'[r].ans = rpc[r].ans
      BY <1>3, <2>2
    <3>2. rpc[r].done = 2 => \E w \in Proc : cur[w] = r /\ pc'[w] = "free"
      BY <1>6 DEF Honor, DoneInv
    <3> QED
      BY <1>3, <3>1, <3>2 DEF Honor, DoneInv, AnswerTo
  <2> QED
    BY <2>1, <2>2
<1>10. ResInv' /\ MadeInv' /\ OrigInv'
  BY <1>3, <1>4 DEF Honor, ResInv, MadeInv, OrigInv
<1>11. FreshInv'
  BY <1>3, <1>6 DEF Honor, FreshInv
<1>12. AnsweredInv'
  <2> SUFFICES ASSUME NEW o \in Rpc, InUse(o), rpc[o].old = 0, Open(rpc[o].call),
                      rpc[o].call \in answered
               PROVE  \/ rpc'[o].ans = rpc[o].call
                      \/ rpc'[o].done = 0 /\ \E k \in DOMAIN wire' : wire'[k].tag = rpc[o].tag
    BY <1>3, <1>4 DEF AnsweredInv, Open
  <2>1. \/ rpc[o].ans = rpc[o].call
        \/ rpc[o].done = 0 /\ \E k \in DOMAIN wire : wire[k].tag = rpc[o].tag
    BY DEF Honor, AnsweredInv
  <2>2. CASE rpc[o].ans = rpc[o].call
    <3>1. rpc[o].done # 0
      BY <1>1, <2>2 DEF Honor, DoneInv
    <3> QED
      BY <1>3, <2>2, <3>1
  <2>3. CASE rpc[o].done = 0 /\ \E k \in DOMAIN wire : wire[k].tag = rpc[o].tag
    <3>1. CASE rpc[o].tag = t.tag
      BY <1>5, <2>3, <3>1 DEF AnswerTo
    <3>2. CASE rpc[o].tag # t.tag
      <4>1. PICK k \in DOMAIN wire : wire[k].tag = rpc[o].tag
        BY <2>3
      <4>2. k # 1
        BY <3>2, <4>1
      <4>3. k - 1 \in DOMAIN wire' /\ wire'[k - 1].tag = rpc[o].tag
        BY <1>2, <4>1, <4>2
      <4>4. rpc'[o].done = 0
        BY <1>3, <2>3, <3>2
      <4> QED
        BY <4>3, <4>4
    <3> QED
      BY <3>1, <3>2
  <2> QED
    BY <2>1, <2>2, <2>3
<1>13. ASSUME NEW f \in Rpc, InUse(f), rpc[f].old # 0, t.tag = rpc[f].old
       PROVE  Received(rpc[f].call)'
  <2>1. ~NoMsg(rpc[f].old)
    BY <1>2, <1>13 DEF NoMsg
  <2>2. PICK o \in Rpc : InUse(o) /\ rpc[o].old = 0 /\ rpc[o].call = rpc[f].call
                          /\ rpc[f].old = rpc[o].tag /\ rpc[o].done = 0
    BY <1>13, <2>1, OldWaits
  <2>3. rpc'[o].ans = rpc[o].call
    BY <1>5, <1>13, <2>2 DEF AnswerTo
  <2>4. \A c : c = rpc[f].call => Received(c)'
    BY <1>3, <1>4, <2>2, <2>3 DEF Received
  <2>5. rpc'[f].call = rpc[f].call
    BY <1>3
  <2> QED
    BY <2>4, <2>5 DEF Received
<1>14. FlushedInv'
  <2> SUFFICES ASSUME NEW f \in Rpc, NEW k \in DOMAIN wire', InUse(f), rpc[f].old # 0,
                      rpc'[f].done = 0, wire'[k].tag = rpc[f].tag, Open(rpc[f].call),
                      NEW c, c = rpc[f].call
               PROVE  /\ NoOrig(c)'
                      /\ c \in answered => \/ Received(c)'
                                           \/ \E x \in DOMAIN wire' : x < k /\ wire'[x].tag = rpc[f].old
    BY <1>3, <1>4 DEF FlushedInv, NoOrig, Received, InUse, On, Open
  <2>1. rpc[f].done = 0 /\ c \in Call /\ k + 1 \in DOMAIN wire /\ wire[k + 1].tag = rpc[f].tag
    BY <1>1, <1>2, <1>3
  <2>2. NoOrig(c) /\ (c \in answered => \/ Received(c)
                                        \/ \E x \in DOMAIN wire : x < k + 1 /\ wire[x].tag = rpc[f].old)
    BY <2>1 DEF Honor, FlushedInv
  <2>3. NoOrig(c)'
    BY <2>2 DEF NoOrig
  <2>4. ASSUME NEW x \in DOMAIN wire, x < k + 1, wire[x].tag = rpc[f].old
        PROVE  Received(c)' \/ \E y \in DOMAIN wire' : y < k /\ wire'[y].tag = rpc[f].old
    <3>1. CASE x = 1
      <4>1. Received(rpc[f].call)'
        BY <1>13, <2>4, <3>1
      <4>2. rpc'[f].call = c
        BY <1>3
      <4> QED
        BY <4>1, <4>2 DEF Received
    <3>2. CASE x # 1
      <4>1. x - 1 \in DOMAIN wire' /\ wire'[x - 1] = wire[x] /\ x \in Nat /\ k \in Nat
        BY <1>2, <3>2
      <4>2. x - 1 < k
        BY <2>4, <4>1
      <4> QED
        BY <2>4, <4>1, <4>2
    <3> QED
      BY <3>1, <3>2
  <2> QED
    BY <1>7, <2>1, <2>2, <2>3, <2>4
<1>15. ASSUME NEW f \in Rpc, InUse(f), rpc[f].done = 0, rpc'[f].done = 1, NEW c, c = rpc[f].call
       PROVE  Settled(c)'
  <2>1. rpc[f].tag = t.tag /\ c \in Call
    BY <1>1, <1>3, <1>15
  <2>2. CASE rpc[f].old = 0
    <3>1. NoOrig(c)
      <4>1. ASSUME NEW i \in DOMAIN srv, srv[i].call = c, srv[i].old = 0 PROVE FALSE
        <5>1. srv[i].tag = t.tag
          BY <1>15, <2>1, <2>2, <4>1 DEF Honor, OrigInv
        <5> QED
          BY <1>2, <5>1 DEF MInv, Store, TagsDistinct
      <4> QED
        BY <4>1 DEF NoOrig
    <3>2. Received(c)'
      <4>1. rpc'[f].ans = c
        BY <1>5, <1>15, <2>1, <2>2 DEF AnswerTo
      <4> QED
        BY <1>3, <1>4, <1>15, <2>2, <4>1 DEF Received
    <3> QED
      BY <3>1, <3>2 DEF Settled, NoOrig
  <2>3. CASE rpc[f].old # 0
    <3>1. Open(c) => NoOrig(c) /\ (c \in answered => Received(c))
      <4>1. \A l \in DOMAIN wire : ~(l < 1)
        BY <1>1
      <4> QED
        BY <1>2, <1>15, <2>1, <2>3, <4>1 DEF Honor, FlushedInv
    <3>2. Settled(c)
      BY <3>1 DEF Settled
    <3> QED
      BY <1>8, <2>1, <3>2
  <2> QED
    BY <2>2, <2>3
<1>16. SettledInv'
  <2>1. ASSUME NEW f \in Rpc, InUse(f), rpc'[f].done = 1, NEW c, c = rpc[f].call
        PROVE  Settled(c)'
    <3>1. CASE rpc[f].done = 0
      BY <1>15, <2>1, <3>1
    <3>2. CASE rpc[f].done # 0
      BY <1>1, <1>3, <1>8, <2>1, <3>2 DEF Honor, SettledInv
    <3> QED
      BY <3>1, <3>2
  <2>2. ASSUME NEW w \in Proc, NEW s \in Rpc, cur[w] = s, pc'[w] \in {"free", "qrm"},
               NEW c, c = rpc[s].call
        PROVE  Settled(c)'
    <3>1. pc[w] \in {"free", "qrm"} /\ c \in Call
      BY <1>1, <1>6, <2>2
    <3> QED
      BY <1>8, <2>2, <3>1 DEF Honor, SettledInv
  <2>3. ASSUME NEW w \in Proc, NEW s \in Rpc, cur[w] = s, pc'[w] = "gate"
        PROVE  rpc'[s].done # 0 \/ ~Open(rpc[s].call)
    <3>1. CASE pc[w] = "gate"
      BY <1>3, <2>3, <3>1 DEF Honor, SettledInv
    <3>2. CASE pc[w] # "gate"
      <4>1. w = p
        BY <1>1, <2>3, <3>2
      <4> QED
        BY <1>1, <2>3, <3>2, <4>1
    <3> QED
      BY <3>1, <3>2
  <2>4. \A f \in Rpc : InUse(f)' /\ rpc'[f].done = 1 => Settled(rpc[f].call)'
    BY <1>3, <1>4, <2>1 DEF Settled, Open, NoOrig, Received
  <2>5. \A w \in Proc, s \in Rpc : cur'[w] = s /\ pc'[w] \in {"free", "qrm"} =>
          Settled(rpc[s].call)'
    BY <1>3, <2>2 DEF Settled, Open, NoOrig, Received
  <2>6. \A w \in Proc, s \in Rpc : cur'[w] = s /\ pc'[w] = "gate" =>
          rpc'[s].done # 0 \/ ~Open(rpc[s].call)'
    BY <1>3, <2>3 DEF Open
  <2> QED
    BY <2>4, <2>5, <2>6 DEF SettledInv
<1>17. HonorsReply'
  BY DEF Honor, HonorsReply
<1> QED
  BY <1>9, <1>10, <1>11, <1>12, <1>14, <1>16, <1>17 DEF Honor

(* A structure is taken for a call or for a flush.                         *)
LEMMA TakesHonor ==
  ASSUME MInv, MInv', Chained, Honor, NEW p \in Proc, NEW r \in Rpc, Takes(p, r),
         rpc'[r].old = 0 => rpc'[r].call > calls,
         result[rpc'[r].call] = Pending \/ result[rpc'[r].call] = Failed,
         UNCHANGED <<answered, result>>
  PROVE  Honor'
<1>1. /\ \A s \in Rpc : InUse(s) => rpc[s].call \in Call /\ rpc[s].call \in 1..calls
      /\ \A w \in Proc, s \in Rpc : cur[w] = s => InUse(s) /\ pc[w] # "idle"
      /\ calls \in Nat /\ Pending \notin Call /\ srv \in Seq(Tmsg)
      /\ pc \in [Proc -> Places] /\ cur \in [Proc -> Rpc \cup {Nil}]
  BY CallOf, Types DEF MInv
<1>2. \A s \in Rpc : InUse(s)' <=> InUse(s) \/ s = r
  BY TakesCommon DEF MInv
<1>3. /\ ~InUse(r) /\ rpc'[r].done = 0 /\ rpc'[r].ans = Pending
      /\ \A s \in Rpc : s # r => rpc'[s] = rpc[s]
      /\ srv' = srv /\ wire' = wire /\ calls' \in Nat /\ calls <= calls'
      /\ rpc'[r].call \in 1..calls'
      /\ pc[p] \in {"idle", "flush"}
      /\ \A w \in Proc : /\ cur'[w] = IF w = p THEN r ELSE cur[w]
                         /\ pc'[w] = IF w = p THEN "write" ELSE pc[w]
  BY <1>1 DEF Takes
<1>4. \A s \in Rpc : InUse(s) => s # r /\ rpc'[s] = rpc[s] /\ InUse(s)'
  BY <1>2, <1>3
<1>5. \A i \in DOMAIN srv : srv[i] \in Tmsg
  BY <1>1
<1>6. \A c : Received(c) => Received(c)'
  BY <1>4 DEF Received
<1>7. \A c : (NoOrig(c)' <=> NoOrig(c)) /\ (Open(c)' <=> Open(c))
  BY <1>3 DEF NoOrig, Open
<1>8. \A c : Settled(c) => Settled(c)'
  BY <1>6, <1>7 DEF Settled
<1>9. DoneInv'
  <2> SUFFICES ASSUME NEW s \in Rpc, InUse(s)'
               PROVE  /\ rpc'[s].done = 2 => \E w \in Proc : cur'[w] = s /\ pc'[w] = "free"
                      /\ rpc'[s].done = 0 => rpc'[s].ans \notin Call
                      /\ rpc'[s].done = 1 => rpc'[s].ans = AnswerTo(rpc'[s].call, rpc'[s].old)
    BY DEF DoneInv, AnswerTo
  <2>1. CASE s = r
    BY <1>1, <1>3, <2>1
  <2>2. CASE s # r
    <3>1. InUse(s) /\ rpc'[s] = rpc[s]
      BY <1>2, <1>3, <2>2
    <3>2. rpc[s].done = 2 => \E w \in Proc : cur'[w] = s /\ pc'[w] = "free"
      <4>1. ASSUME NEW w \in Proc, cur[w] = s, pc[w] = "free"
            PROVE  cur'[w] = s /\ pc'[w] = "free"
        BY <1>3, <4>1
      <4> QED
        BY <3>1, <4>1 DEF Honor, DoneInv
    <3> QED
      BY <3>1, <3>2 DEF Honor, DoneInv
  <2> QED
    BY <2>1, <2>2
<1>10. ResInv'
  <2>1. ASSUME NEW s \in Rpc, InUse(s)' PROVE result[rpc'[s].call] \in {Pending, Failed}
    <3>1. CASE s = r
      BY <3>1
    <3>2. CASE s # r
      BY <1>2, <1>3, <2>1, <3>2 DEF Honor, ResInv
    <3> QED
      BY <3>1, <3>2
  <2>2. \A c \in Call : c > calls' => result[c] = Pending
    BY <1>1, <1>3 DEF Honor, ResInv, Call
  <2> QED
    BY <2>1, <2>2 DEF ResInv
<1>11. MadeInv'
  <2>1. \A i \in DOMAIN srv : srv[i].call \in Nat
    BY <1>5 DEF Tmsg, Call
  <2>2. \A c \in answered : c \in Nat
    BY DEF MInv, TypeOK, Call
  <2> QED
    BY <1>1, <1>3, <2>1, <2>2 DEF Honor, MadeInv
<1>12. FreshInv'
  <2> SUFFICES ASSUME NEW w \in Proc, NEW s \in Rpc, cur'[w] = s, pc'[w] = "write",
                      rpc'[s].old = 0
               PROVE  /\ rpc'[s].call \notin answered
                      /\ \A i \in DOMAIN srv : srv[i].call # rpc'[s].call
    BY <1>3 DEF FreshInv
  <2>1. CASE w = p
    <3>1. s = r /\ rpc'[r].call > calls
      BY <1>3, <2>1
    <3>2. rpc'[r].call \in Nat /\ (\A i \in DOMAIN srv : srv[i].call \in Nat)
          /\ \A c \in answered : c \in Nat
      BY <1>3, <1>5 DEF Tmsg, Call, MInv, TypeOK
    <3> QED
      BY <1>1, <3>1, <3>2 DEF Honor, MadeInv
  <2>2. CASE w # p
    <3>1. cur[w] = s /\ pc[w] = "write" /\ rpc'[s] = rpc[s]
      BY <1>1, <1>3, <1>4, <2>2
    <3> QED
      BY <3>1 DEF Honor, FreshInv
  <2> QED
    BY <2>1, <2>2
<1>13. OrigInv'
  <2>1. ASSUME NEW i \in DOMAIN srv, NEW o \in Rpc, InUse(o)', srv[i].old = 0,
               rpc'[o].old = 0, srv[i].call = rpc'[o].call
        PROVE  srv[i].tag = rpc'[o].tag
    <3>1. CASE o = r
      <4>1. rpc'[r].call > calls /\ srv[i].call \in Nat /\ srv[i].call <= calls
        BY <1>5, <2>1, <3>1 DEF Tmsg, Call, Honor, MadeInv
      <4> QED
        BY <1>1, <2>1, <3>1, <4>1
    <3>2. CASE o # r
      BY <1>2, <1>3, <2>1, <3>2 DEF Honor, OrigInv
    <3> QED
      BY <3>1, <3>2
  <2> QED
    BY <1>3, <2>1 DEF Honor, OrigInv
<1>14. AnsweredInv'
  <2> SUFFICES ASSUME NEW o \in Rpc, InUse(o)', rpc'[o].old = 0, Open(rpc'[o].call),
                      rpc'[o].call \in answered
               PROVE  \/ rpc'[o].ans = rpc'[o].call
                      \/ rpc'[o].done = 0 /\ \E k \in DOMAIN wire : wire[k].tag = rpc'[o].tag
    BY <1>3 DEF AnsweredInv, Open
  <2>1. o # r
    <3>1. ASSUME o = r PROVE FALSE
      <4>1. rpc'[r].call > calls /\ rpc'[r].call <= calls /\ rpc'[r].call \in Nat
        BY <1>3, <3>1 DEF Honor, MadeInv
      <4> QED
        BY <1>1, <4>1
    <3> QED
      BY <3>1
  <2> QED
    BY <1>2, <1>3, <2>1 DEF Honor, AnsweredInv
<1>15. FlushedInv'
  <2> SUFFICES ASSUME NEW f \in Rpc, NEW k \in DOMAIN wire, InUse(f)', rpc'[f].old # 0,
                      rpc'[f].done = 0, wire[k].tag = rpc'[f].tag, Open(rpc'[f].call),
                      NEW c, c = rpc'[f].call
               PROVE  /\ NoOrig(c)'
                      /\ c \in answered => \/ Received(c)'
                                           \/ \E x \in DOMAIN wire : x < k /\ wire[x].tag = rpc'[f].old
    BY <1>3 DEF FlushedInv, NoOrig, Received, InUse, On, Open
  <2>1. f # r
    <3>1. \A i \in DOMAIN wire' : wire'[i].tag # rpc'[r].tag
      <4>1. pc'[p] = "write" /\ cur'[p] = r
        BY <1>3
      <4> QED
        BY <4>1 DEF MInv, Store, NoneUnder, NoMsg
    <3> QED
      BY <1>3, <3>1
  <2>2. InUse(f) /\ rpc'[f] = rpc[f]
    BY <1>2, <1>3, <2>1
  <2> QED
    BY <1>6, <1>7, <2>2 DEF Honor, FlushedInv
<1>16. SettledInv'
  <2>1. ASSUME NEW f \in Rpc, InUse(f)', rpc'[f].done = 1, NEW c, c = rpc'[f].call
        PROVE  Settled(c)'
    <3>1. InUse(f) /\ rpc'[f] = rpc[f]
      BY <1>2, <1>3, <2>1
    <3> QED
      BY <1>8, <2>1, <3>1 DEF Honor, SettledInv
  <2>2. ASSUME NEW w \in Proc, NEW s \in Rpc, cur'[w] = s, pc'[w] \in {"free", "qrm"},
               NEW c, c = rpc'[s].call
        PROVE  Settled(c)'
    <3>1. w # p /\ pc[w] \in {"free", "qrm"} /\ cur[w] = s
      BY <1>3, <2>2
    <3>2. rpc'[s] = rpc[s]
      BY <1>1, <1>4, <3>1
    <3> QED
      BY <1>8, <2>2, <3>1, <3>2 DEF Honor, SettledInv
  <2>3. ASSUME NEW w \in Proc, NEW s \in Rpc, cur'[w] = s, pc'[w] = "gate"
        PROVE  rpc'[s].done # 0 \/ ~Open(rpc'[s].call)
    <3>1. w # p /\ pc[w] = "gate" /\ cur[w] = s
      BY <1>3, <2>3
    <3>2. rpc'[s] = rpc[s]
      BY <1>1, <1>4, <3>1
    <3> QED
      BY <3>1, <3>2 DEF Honor, SettledInv
  <2>4. \A f \in Rpc : InUse(f)' /\ rpc'[f].done = 1 => Settled(rpc[f].call)'
    BY <2>1 DEF Settled, Open, NoOrig, Received
  <2>5. \A w \in Proc, s \in Rpc : cur'[w] = s /\ pc'[w] \in {"free", "qrm"} =>
          Settled(rpc[s].call)'
    BY <2>2 DEF Settled, Open, NoOrig, Received
  <2>6. \A w \in Proc, s \in Rpc : cur'[w] = s /\ pc'[w] = "gate" =>
          rpc'[s].done # 0 \/ ~Open(rpc[s].call)'
    BY <2>3 DEF Open
  <2> QED
    BY <2>4, <2>5, <2>6 DEF SettledInv
<1>17. HonorsReply'
  BY <1>3 DEF Honor, HonorsReply
<1> QED
  BY <1>9, <1>10, <1>11, <1>12, <1>13, <1>14, <1>15, <1>16, <1>17 DEF Honor

(* A structure is freed, the last one with the result of the call.         *)
LEMMA FreesHonor ==
  ASSUME MInv, Chained, Honor, NEW p \in Proc, NEW r \in Rpc, Frees(p, r),
         \/ rpc[r].flushed # Nil /\ result' = result
         \/ /\ rpc[r].flushed = Nil
            /\ \A c \in Call : c # rpc[r].call => result'[c] = result[c]
            /\ result'[rpc[r].call] \in {rpc[r].ans, Failed}
            /\ result[rpc[r].call] = Failed => result'[rpc[r].call] = Failed,
         UNCHANGED answered
  PROVE  Honor'
<1>1. /\ \A s \in Rpc : InUse(s) => rpc[s].call \in Call /\ rpc[s].call \in 1..calls
      /\ \A w \in Proc, s \in Rpc : cur[w] = s => InUse(s) /\ pc[w] # "idle"
      /\ \A w, v \in Proc, s \in Rpc : cur[w] = s /\ cur[v] = s => w = v
      /\ calls \in Nat /\ Rflush \notin Call /\ Failed # Rflush
      /\ pc \in [Proc -> Places] /\ cur \in [Proc -> Rpc \cup {Nil}] /\ Nil \notin Rpc
  BY CallOf, Types DEF MInv
<1>2. /\ r = cur[p] /\ pc[p] = "free" /\ rpc[r].done # 0
      /\ \A s \in Rpc : s # r => rpc'[s] = rpc[s]
      /\ \A s \in Rpc : InUse(s)' <=> InUse(s) /\ s # r
      /\ \A w \in Proc : cur'[w] = IF w = p THEN rpc[r].flushed ELSE cur[w]
      /\ \A w \in Proc : w # p => pc'[w] = pc[w]
      /\ pc'[p] = IF rpc[r].flushed = Nil THEN "idle" ELSE "free"
      /\ srv' = srv /\ wire' = wire /\ calls' = calls
  BY <1>1 DEF Frees, InUse
<1>3. InUse(r) /\ rpc[r].call \in Call /\ (rpc[r].flushed = Nil <=> rpc[r].old = 0)
  BY <1>1, <1>2 DEF Chained
<1>4. Settled(rpc[r].call)
  BY <1>2 DEF Honor, SettledInv
<1>5. ASSUME NEW s \in Rpc, InUse(s)'
      PROVE  /\ InUse(s) /\ s # r /\ rpc'[s] = rpc[s]
             /\ rpc[r].old = 0 => rpc[s].call # rpc[r].call
             /\ result'[rpc[s].call] = result[rpc[s].call]
  <2>1. InUse(s) /\ s # r /\ rpc'[s] = rpc[s]
    BY <1>2, <1>5
  <2>2. rpc[r].old = 0 => rpc[s].call # rpc[r].call
    BY <1>2, <2>1 DEF Chained
  <2> QED
    BY <1>1, <1>3, <2>1, <2>2
<1>6. ASSUME NEW w \in Proc, NEW s \in Rpc, cur'[w] = s
      PROVE  /\ rpc'[s] = rpc[s] /\ InUse(s)'
             /\ \/ cur[w] = s /\ pc'[w] = pc[w] /\ w # p
                \/ w = p /\ pc'[w] = "free" /\ rpc[s].call = rpc[r].call
  <2>1. CASE w = p
    <3>1. s = rpc[r].flushed /\ InUse(s) /\ s # r
      BY <1>1, <1>2, <1>3, <1>6, <2>1 DEF MInv, Store, ChainInv, CurInv
    <3> QED
      BY <1>1, <1>2, <1>3, <2>1, <3>1 DEF Chained
  <2>2. CASE w # p
    BY <1>1, <1>2, <1>6, <2>2
  <2> QED
    BY <2>1, <2>2
<1>7. ASSUME NEW c, Received(c), rpc[r].old = 0 => c # rpc[r].call PROVE Received(c)'
  <2>1. PICK o \in Rpc : InUse(o) /\ rpc[o].old = 0 /\ rpc[o].call = c /\ rpc[o].ans = c
    BY <1>7 DEF Received
  <2>2. o # r
    BY <1>7, <2>1
  <2> QED
    BY <1>2, <2>1, <2>2 DEF Received
<1>8. \A c : NoOrig(c)' <=> NoOrig(c)
  BY <1>2 DEF NoOrig
<1>9. ASSUME NEW s \in Rpc, InUse(s)', NEW c, c = rpc[s].call, Settled(c) PROVE Settled(c)'
  BY <1>5, <1>7, <1>8, <1>9 DEF Settled, Open
<1>10. DoneInv'
  <2> SUFFICES ASSUME NEW s \in Rpc, InUse(s)'
               PROVE  /\ rpc'[s].done = 2 => \E w \in Proc : cur'[w] = s /\ pc'[w] = "free"
                      /\ rpc'[s].done = 0 => rpc'[s].ans \notin Call
                      /\ rpc'[s].done = 1 => rpc'[s].ans = AnswerTo(rpc'[s].call, rpc'[s].old)
    BY DEF DoneInv, AnswerTo
  <2>1. InUse(s) /\ s # r /\ rpc'[s] = rpc[s]
    BY <1>5
  <2>2. \A w \in Proc : cur[w] = s /\ pc[w] = "free" => cur'[w] = s /\ pc'[w] = "free"
    BY <1>2, <2>1
  <2> QED
    BY <2>1, <2>2 DEF Honor, DoneInv
<1>11. ResInv'
  <2>1. \A s \in Rpc : InUse(s)' => result'[rpc'[s].call] \in {Pending, Failed}
    BY <1>5 DEF Honor, ResInv
  <2>2. rpc[r].call <= calls
    BY <1>1, <1>3
  <2>3. \A c \in Call : c > calls => result'[c] = Pending
    <3>1. ASSUME NEW c \in Call, c > calls PROVE c # rpc[r].call
      BY <1>1, <1>3, <2>2, <3>1
    <3> QED
      BY <3>1 DEF Honor, ResInv
  <2> QED
    BY <1>2, <2>1, <2>3 DEF ResInv
<1>12. MadeInv'
  BY <1>2 DEF Honor, MadeInv
<1>13. FreshInv'
  <2> SUFFICES ASSUME NEW w \in Proc, NEW s \in Rpc, cur'[w] = s, pc'[w] = "write",
                      rpc'[s].old = 0
               PROVE  /\ rpc'[s].call \notin answered
                      /\ \A i \in DOMAIN srv : srv[i].call # rpc'[s].call
    BY <1>2 DEF FreshInv
  <2>1. cur[w] = s /\ pc[w] = "write" /\ rpc'[s] = rpc[s]
    BY <1>6
  <2> QED
    BY <2>1 DEF Honor, FreshInv
<1>14. OrigInv'
  BY <1>2, <1>5 DEF Honor, OrigInv
<1>15. AnsweredInv'
  <2> SUFFICES ASSUME NEW o \in Rpc, InUse(o)', rpc'[o].old = 0, result'[rpc'[o].call] # Failed,
                      rpc'[o].call \in answered
               PROVE  \/ rpc'[o].ans = rpc'[o].call
                      \/ rpc'[o].done = 0 /\ \E k \in DOMAIN wire : wire[k].tag = rpc'[o].tag
    BY <1>2 DEF AnsweredInv, Open
  <2> QED
    BY <1>5 DEF Honor, AnsweredInv, Open
<1>16. FlushedInv'
  <2> SUFFICES ASSUME NEW f \in Rpc, NEW k \in DOMAIN wire, InUse(f)', rpc'[f].old # 0,
                      rpc'[f].done = 0, wire[k].tag = rpc'[f].tag, result'[rpc'[f].call] # Failed,
                      NEW c, c = rpc'[f].call
               PROVE  /\ NoOrig(c)'
                      /\ c \in answered => \/ Received(c)'
                                           \/ \E x \in DOMAIN wire : x < k /\ wire[x].tag = rpc'[f].old
    BY <1>2 DEF FlushedInv, NoOrig, Received, InUse, On, Open
  <2>1. /\ InUse(f) /\ rpc'[f] = rpc[f] /\ result[c] # Failed
        /\ rpc[r].old = 0 => c # rpc[r].call
    BY <1>5
  <2> QED
    BY <1>7, <1>8, <2>1 DEF Honor, FlushedInv, Open
<1>17. SettledInv'
  <2>1. ASSUME NEW f \in Rpc, InUse(f)', rpc'[f].done = 1, NEW c, c = rpc'[f].call
        PROVE  Settled(c)'
    BY <1>5, <1>9, <2>1 DEF Honor, SettledInv
  <2>2. ASSUME NEW w \in Proc, NEW s \in Rpc, cur'[w] = s, pc'[w] \in {"free", "qrm"},
               NEW c, c = rpc'[s].call
        PROVE  Settled(c)'
    <3>1. rpc'[s] = rpc[s] /\ InUse(s)'
      BY <1>6, <2>2
    <3>2. Settled(c)
      BY <1>4, <1>6, <2>2, <3>1 DEF Honor, SettledInv
    <3> QED
      BY <1>9, <2>2, <3>1, <3>2
  <2>3. ASSUME NEW w \in Proc, NEW s \in Rpc, cur'[w] = s, pc'[w] = "gate"
        PROVE  rpc'[s].done # 0 \/ result'[rpc'[s].call] = Failed
    <3>1. rpc'[s] = rpc[s] /\ InUse(s)' /\ cur[w] = s /\ pc[w] = "gate"
      BY <1>6, <2>3
    <3>2. rpc[s].done # 0 \/ result[rpc[s].call] = Failed
      BY <3>1 DEF Honor, SettledInv, Open
    <3> QED
      BY <1>5, <3>1, <3>2
  <2>4. \A f \in Rpc : InUse(f)' /\ rpc'[f].done = 1 => Settled(rpc[f].call)'
    BY <2>1 DEF Settled, Open, NoOrig, Received
  <2>5. \A w \in Proc, s \in Rpc : cur'[w] = s /\ pc'[w] \in {"free", "qrm"} =>
          Settled(rpc[s].call)'
    BY <2>2 DEF Settled, Open, NoOrig, Received
  <2>6. \A w \in Proc, s \in Rpc : cur'[w] = s /\ pc'[w] = "gate" =>
          rpc'[s].done # 0 \/ ~Open(rpc[s].call)'
    BY <2>3 DEF Open
  <2> QED
    BY <2>4, <2>5, <2>6 DEF SettledInv
<1>18. HonorsReply'
  <2> SUFFICES ASSUME NEW c \in Call, result'[c] = Rflush
               PROVE  c \notin answered /\ NoOrig(c)
    BY <1>2 DEF HonorsReply, NoOrig
  <2>1. CASE result[c] = Rflush
    BY <2>1 DEF Honor, HonorsReply, NoOrig
  <2>2. CASE result[c] # Rflush
    <3>1. c = rpc[r].call /\ rpc[r].old = 0 /\ rpc[r].ans = Rflush /\ Open(c)
      BY <1>1, <1>3, <2>2 DEF Open
    <3>2. NoOrig(c) /\ (c \in answered => Received(c))
      BY <1>4, <3>1 DEF Settled
    <3>3. ~Received(c)
      <4>1. ASSUME NEW o \in Rpc, InUse(o), rpc[o].old = 0, rpc[o].call = c, rpc[o].ans = c
            PROVE  FALSE
        <5>1. o = r
          BY <1>3, <3>1, <4>1 DEF Chained
        <5> QED
          BY <1>1, <3>1, <4>1, <5>1
      <4> QED
        BY <4>1 DEF Received
    <3> QED
      BY <3>2, <3>3
  <2> QED
    BY <2>1, <2>2
<1> QED
  BY <1>10, <1>11, <1>12, <1>13, <1>14, <1>15, <1>16, <1>17, <1>18 DEF Honor

(* FlushedInv of the next state, when the structures stay: c is a name for *)
(* the call.                                                               *)
LEMMA FlushedNext ==
  ASSUME UNCHANGED <<rpc, rpcfree, result>>,
         \A f \in Rpc, k \in DOMAIN wire' : \A c :
           InUse(f) /\ rpc[f].old # 0 /\ rpc[f].done = 0 /\ wire'[k].tag = rpc[f].tag
               /\ Open(c) /\ c = rpc[f].call =>
             /\ NoOrig(c)'
             /\ c \in answered' =>
                  \/ Received(c)
                  \/ \E l \in DOMAIN wire' : l < k /\ wire'[l].tag = rpc[f].old
  PROVE  FlushedInv'
  BY DEF FlushedInv, NoOrig, Received, InUse, On, Open

(* The server answers the request at i: a flush takes the request that it  *)
(* is of, and the flushes of it, away if they came before.                 *)
LEMMA AnswerHonor ==
  ASSUME MInv, Chained, Honor, NEW i \in DOMAIN srv, NEW t, t = srv[i],
         NEW m \in Reply, m.tag = t.tag, wire' = Append(wire, m),
         srv' \in Seq(Tmsg), NEW K, Within(srv', srv, K),
         \A j \in K : /\ j \in DOMAIN srv /\ j # i
                      /\ t.old # 0 /\ j < i => srv[j].tag # t.old,
         \/ t.old = 0 /\ answered' = answered \cup {t.call}
         \/ t.old # 0 /\ answered' = answered,
         UNCHANGED <<rpc, rpcfree, cur, pc, calls, result>>
  PROVE  Honor'
<1> DEFINE n == Len(wire)
<1>1. /\ \A r \in Rpc : InUse(r) => rpc[r].call \in Call /\ rpc[r].call \in 1..calls
      /\ srv \in Seq(Tmsg) /\ wire \in Seq(Reply) /\ DOMAIN srv \subseteq Nat
  BY CallOf, Types DEF MInv
<1>2. /\ n \in Nat /\ DOMAIN wire = 1..n /\ DOMAIN wire' = 1..n + 1
      /\ \A k \in 1..n : wire'[k] = wire[k]
      /\ wire'[n + 1] = m
  BY <1>1
<1> HIDE DEF n
<1>3. \A k \in DOMAIN wire' : \/ k \in DOMAIN wire /\ wire'[k] = wire[k]
                              \/ k = n + 1 /\ wire'[k] = m
  BY <1>2
<1>4. PICK e \in [DOMAIN srv' -> K] :
         /\ \A k \in DOMAIN srv' : srv'[k] = srv[e[k]]
         /\ \A k, l \in DOMAIN srv' : k < l => e[k] < e[l]
  BY DEF Within
<1>5. \A k \in DOMAIN srv' : /\ e[k] \in DOMAIN srv /\ e[k] # i /\ e[k] \in Nat
                             /\ t.old # 0 /\ e[k] < i => srv[e[k]].tag # t.old
  BY <1>1, <1>4
<1>6. \A r \in Rpc : InUse(r)' <=> InUse(r)
  BY DEF InUse, On
<1>7. \A c : (NoOrig(c) => NoOrig(c)') /\ (Received(c)' <=> Received(c)) /\ (Open(c)' <=> Open(c))
  BY <1>4, <1>5, <1>6 DEF NoOrig, Received, Open
<1>8. ASSUME t.old = 0, NEW k \in DOMAIN srv', srv'[k].call = t.call PROVE srv'[k].old # 0
  <2>1. SUFFICES ASSUME srv'[k].old = 0 PROVE FALSE
    OBVIOUS
  <2>2. srv[e[k]].call = srv[i].call /\ srv[e[k]].old = 0 /\ e[k] \in DOMAIN srv
    BY <1>4, <1>5, <1>8, <2>1
  <2>3. e[k] <= i /\ i <= e[k]
    BY <1>8, <2>2 DEF Honor, OrigInv
  <2> QED
    BY <1>1, <1>5, <2>3
<1>9. \A c : NoOrig(c) => (c \in answered' <=> c \in answered)
  BY DEF NoOrig
<1>10. \A c : Settled(c) => Settled(c)'
  BY <1>7, <1>9 DEF Settled
<1>11. DoneInv' /\ ResInv'
  BY <1>6 DEF Honor, DoneInv, ResInv, AnswerTo
<1>12. MadeInv'
  BY <1>4, <1>5 DEF Honor, MadeInv
<1>13. FreshInv'
  <2> SUFFICES ASSUME NEW w \in Proc, NEW r \in Rpc, cur[w] = r, pc[w] = "write", rpc[r].old = 0
               PROVE  /\ rpc[r].call \notin answered'
                      /\ \A k \in DOMAIN srv' : srv'[k].call # rpc[r].call
    BY DEF FreshInv
  <2>1. rpc[r].call \notin answered /\ \A k \in DOMAIN srv : srv[k].call # rpc[r].call
    BY DEF Honor, FreshInv
  <2> QED
    BY <1>4, <1>5, <2>1
<1>14. OrigInv'
  <2>1. ASSUME NEW k \in DOMAIN srv', srv'[k].old = 0 PROVE srv'[k].call \notin answered'
    <3>1. srv'[k].call \notin answered
      BY <1>4, <1>5, <2>1 DEF Honor, OrigInv
    <3>2. t.old = 0 => srv'[k].call # t.call
      BY <1>8, <2>1
    <3> QED
      BY <3>1, <3>2
  <2>2. ASSUME NEW k \in DOMAIN srv', NEW l \in DOMAIN srv', srv'[k].call = srv'[l].call,
               srv'[k].old = 0
        PROVE  k <= l
    <3>1. e[k] <= e[l]
      BY <1>4, <1>5, <2>2 DEF Honor, OrigInv
    <3>2. l < k => e[l] < e[k]
      BY <1>4
    <3>3. ~(l < k)
      BY <1>5, <3>1, <3>2
    <3>4. k \in Nat /\ l \in Nat
      OBVIOUS
    <3> QED
      BY <3>3, <3>4
  <2>3. ASSUME NEW k \in DOMAIN srv', NEW o \in Rpc, InUse(o), srv'[k].old = 0,
               rpc[o].old = 0, srv'[k].call = rpc[o].call
        PROVE  srv'[k].tag = rpc[o].tag
    <3>1. PICK j \in DOMAIN srv : srv'[k] = srv[j]
      BY <1>4, <1>5
    <3> QED
      BY <2>3, <3>1 DEF Honor, OrigInv
  <2> QED
    BY <1>6, <2>1, <2>2, <2>3 DEF OrigInv
<1>15. AnsweredInv'
  <2> SUFFICES ASSUME NEW o \in Rpc, InUse(o), rpc[o].old = 0, Open(rpc[o].call),
                      rpc[o].call \in answered'
               PROVE  \/ rpc[o].ans = rpc[o].call
                      \/ rpc[o].done = 0 /\ \E k \in DOMAIN wire' : wire'[k].tag = rpc[o].tag
    BY <1>6 DEF AnsweredInv, Open
  <2>1. CASE rpc[o].call \in answered
    <3>1. \/ rpc[o].ans = rpc[o].call
          \/ rpc[o].done = 0 /\ \E k \in DOMAIN wire : wire[k].tag = rpc[o].tag
      BY <2>1 DEF Honor, AnsweredInv
    <3>2. \A k \in DOMAIN wire : k \in DOMAIN wire' /\ wire'[k] = wire[k]
      BY <1>2
    <3> QED
      BY <3>1, <3>2
  <2>2. CASE rpc[o].call \notin answered
    <3>1. t.old = 0 /\ t.call = rpc[o].call
      BY <2>2
    <3>2. t.tag = rpc[o].tag
      BY <3>1 DEF Honor, OrigInv
    <3>3. rpc[o].done # 1
      BY <3>2 DEF MInv, Store, NoneUnder, NoMsg
    <3>4. rpc[o].done # 2
      <4>1. ASSUME rpc[o].done = 2 PROVE FALSE
        <5>1. Settled(rpc[o].call)
          BY <4>1 DEF Honor, DoneInv, SettledInv
        <5>2. NoOrig(rpc[o].call)
          BY <5>1 DEF Settled
        <5> QED
          BY <3>1, <5>2 DEF NoOrig
      <4> QED
        BY <4>1
    <3>5. rpc[o].done \in 0..2
      BY Types DEF MInv, Mntrpc
    <3>6. n + 1 \in DOMAIN wire' /\ wire'[n + 1].tag = rpc[o].tag
      BY <1>2, <3>2
    <3> QED
      BY <3>3, <3>4, <3>5, <3>6
  <2> QED
    BY <2>1, <2>2
<1>16. FlushedInv'
  <2> SUFFICES ASSUME NEW f \in Rpc, NEW k \in DOMAIN wire', InUse(f), rpc[f].old # 0,
                      rpc[f].done = 0, wire'[k].tag = rpc[f].tag,
                      NEW c, Open(c), c = rpc[f].call
               PROVE  /\ NoOrig(c)'
                      /\ c \in answered' =>
                           \/ Received(c)
                           \/ \E l \in DOMAIN wire' : l < k /\ wire'[l].tag = rpc[f].old
    BY FlushedNext
  <2>1. \A l \in DOMAIN wire : l \in DOMAIN wire' /\ wire'[l] = wire[l]
    BY <1>2
  <2>2. CASE k \in DOMAIN wire /\ wire'[k] = wire[k]
    <3>1. /\ NoOrig(c)
          /\ c \in answered => \/ Received(c)
                               \/ \E l \in DOMAIN wire : l < k /\ wire[l].tag = rpc[f].old
      BY <2>2 DEF Honor, FlushedInv
    <3> QED
      BY <1>7, <1>9, <2>1, <3>1
  <2>3. CASE k = n + 1 /\ wire'[k] = m
    <3>1. t.tag = rpc[f].tag
      BY <2>3
    <3>2. t.call = c /\ t.old = rpc[f].old
      BY <3>1 DEF MInv, Store, MsgInv
    <3>3. answered' = answered /\ t.old # 0
      BY <3>2
    <3>4. PICK o \in Rpc : InUse(o) /\ rpc[o].old = 0 /\ rpc[o].call = c /\ rpc[f].old = rpc[o].tag
      BY DEF Chained
    <3>5. NoOrig(c)'
      <4>1. ASSUME NEW x \in DOMAIN srv', srv'[x].call = c, srv'[x].old = 0 PROVE FALSE
        <5>1. srv[e[x]].call = c /\ srv[e[x]].old = 0 /\ e[x] \in DOMAIN srv
          BY <1>4, <1>5, <4>1
        <5>2. e[x] <= i
          BY <3>2, <5>1 DEF Honor, OrigInv
        <5>3. e[x] < i
          BY <1>1, <1>5, <5>2
        <5>4. srv[e[x]].tag = t.old
          BY <3>2, <3>4, <5>1 DEF Honor, OrigInv
        <5> QED
          BY <1>5, <3>3, <5>3, <5>4
      <4> QED
        BY <4>1 DEF NoOrig
    <3>6. ASSUME c \in answered
          PROVE  Received(c) \/ \E l \in DOMAIN wire : wire[l].tag = rpc[f].old
      <4>1. \/ rpc[o].ans = c
            \/ \E l \in DOMAIN wire : wire[l].tag = rpc[o].tag
        BY <3>4, <3>6 DEF Honor, AnsweredInv
      <4> QED
        BY <3>4, <4>1 DEF Received
    <3>7. \A l \in DOMAIN wire : l < k
      BY <1>2, <2>3
    <3> QED
      BY <2>1, <3>3, <3>5, <3>6, <3>7
  <2> QED
    BY <1>3, <2>2, <2>3
<1>17. SettledInv'
  <2>1. \A f \in Rpc : InUse(f)' /\ rpc'[f].done = 1 => Settled(rpc[f].call)'
    <3>1. ASSUME NEW f \in Rpc, InUse(f), rpc[f].done = 1, NEW c, c = rpc[f].call PROVE Settled(c)'
      BY <1>10, <3>1 DEF Honor, SettledInv
    <3> QED
      BY <1>6, <3>1 DEF Settled, Open, NoOrig, Received
  <2>2. \A w \in Proc, s \in Rpc : cur'[w] = s /\ pc'[w] \in {"free", "qrm"} =>
          Settled(rpc[s].call)'
    <3>1. ASSUME NEW w \in Proc, NEW s \in Rpc, cur[w] = s, pc[w] \in {"free", "qrm"},
                 NEW c, c = rpc[s].call
          PROVE  Settled(c)'
      BY <1>10, <3>1 DEF Honor, SettledInv
    <3> QED
      BY <3>1 DEF Settled, Open, NoOrig, Received
  <2>3. \A w \in Proc, s \in Rpc : cur'[w] = s /\ pc'[w] = "gate" =>
          rpc'[s].done # 0 \/ ~Open(rpc[s].call)'
    BY DEF Honor, SettledInv, Open
  <2> QED
    BY <2>1, <2>2, <2>3 DEF SettledInv
<1>18. HonorsReply'
  <2> SUFFICES ASSUME NEW c \in Call, result[c] = Rflush
               PROVE  c \notin answered' /\ NoOrig(c)'
    BY DEF HonorsReply, NoOrig
  <2>1. c \notin answered /\ NoOrig(c)
    BY DEF Honor, HonorsReply, NoOrig
  <2> QED
    BY <1>7, <1>9, <2>1
<1> QED
  BY <1>11, <1>12, <1>13, <1>14, <1>15, <1>16, <1>17, <1>18 DEF Honor

(* The server is gone: it answers nothing that it has not answered.        *)
LEMMA HangupHonor ==
  ASSUME Honor, srv' = <<>>, UNCHANGED <<rpc, rpcfree, cur, pc, wire, calls, answered, result>>
  PROVE  Honor'
<1>1. DOMAIN srv' = {}
  OBVIOUS
<1>2. \A c : NoOrig(c)'
  BY <1>1 DEF NoOrig
<1>3. \A c : (Received(c)' <=> Received(c)) /\ (Open(c)' <=> Open(c)) /\ (Settled(c) => Settled(c)')
  BY <1>2 DEF Settled, Received, Open, InUse, On
<1>4. \A r \in Rpc : InUse(r)' <=> InUse(r)
  BY DEF InUse, On
<1>5. DoneInv' /\ ResInv' /\ MadeInv' /\ FreshInv' /\ OrigInv' /\ AnsweredInv'
  BY <1>1, <1>4 DEF Honor, DoneInv, ResInv, MadeInv, FreshInv, OrigInv, AnsweredInv, AnswerTo, Open
<1>6. FlushedInv'
  <2> SUFFICES ASSUME NEW f \in Rpc, NEW k \in DOMAIN wire, InUse(f), rpc[f].old # 0,
                      rpc[f].done = 0, wire[k].tag = rpc[f].tag, Open(rpc[f].call),
                      NEW c, c = rpc[f].call
               PROVE  /\ NoOrig(c)'
                      /\ c \in answered => \/ Received(c)
                                           \/ \E x \in DOMAIN wire : x < k /\ wire[x].tag = rpc[f].old
    BY <1>4 DEF FlushedInv, NoOrig, Received, InUse, On, Open
  <2> QED
    BY <1>2 DEF Honor, FlushedInv
<1>7. SettledInv'
  <2>1. \A f \in Rpc : InUse(f)' /\ rpc'[f].done = 1 => Settled(rpc[f].call)'
    <3>1. ASSUME NEW f \in Rpc, InUse(f), rpc[f].done = 1, NEW c, c = rpc[f].call PROVE Settled(c)'
      BY <1>3, <3>1 DEF Honor, SettledInv
    <3> QED
      BY <1>4, <3>1 DEF Settled, Open, NoOrig, Received
  <2>2. \A w \in Proc, s \in Rpc : cur'[w] = s /\ pc'[w] \in {"free", "qrm"} =>
          Settled(rpc[s].call)'
    <3>1. ASSUME NEW w \in Proc, NEW s \in Rpc, cur[w] = s, pc[w] \in {"free", "qrm"},
                 NEW c, c = rpc[s].call
          PROVE  Settled(c)'
      BY <1>3, <3>1 DEF Honor, SettledInv
    <3> QED
      BY <3>1 DEF Settled, Open, NoOrig, Received
  <2>3. \A w \in Proc, s \in Rpc : cur'[w] = s /\ pc'[w] = "gate" =>
          rpc'[s].done # 0 \/ ~Open(rpc[s].call)'
    BY DEF Honor, SettledInv, Open
  <2> QED
    BY <2>1, <2>2, <2>3 DEF SettledInv
<1>8. HonorsReply'
  BY <1>1 DEF Honor, HonorsReply
<1> QED
  BY <1>5, <1>6, <1>7, <1>8 DEF Honor

(* What the server drops when it answers.                                  *)
LEMMA AnswerDrops ==
  ASSUME srv \in Seq(Tmsg), NEW i \in DOMAIN srv, Answer(i)
  PROVE  \E K : /\ Within(srv', srv, K)
                /\ \A j \in K : /\ j \in DOMAIN srv /\ j # i
                                /\ srv[i].old # 0 /\ j < i => srv[j].tag # srv[i].old
<1>1. CASE srv[i].old = 0
  <2>1. PICK K : K = DOMAIN srv \ {i}
    OBVIOUS
  <2>2. Within(srv', srv, K) /\ \A j \in K : j \in DOMAIN srv /\ j # i
    BY <2>1, AnswerKeeps
  <2> QED
    BY <1>1, <2>2
<1>2. CASE srv[i].old # 0
  <2> DEFINE T == {u \in Range(srv) : u.tag # srv[i].old /\ u.old # srv[i].old}
             I == {j \in DOMAIN srv : j # i /\ (j < i => srv[j] \in T)}
  <2>1. srv' = Keep(SubSeq(srv, 1, i - 1), T) \o SubSeq(srv, i + 1, Len(srv))
    BY <1>2 DEF Answer
  <2>2. \A u \in T : u.tag # srv[i].old
    OBVIOUS
  <2> HIDE DEF T
  <2>3. Within(srv', srv, I)
    BY <2>1, CancelWithin
  <2>4. \A j \in I : j \in DOMAIN srv /\ j # i /\ (j < i => srv[j].tag # srv[i].old)
    BY <2>2
  <2> QED
    BY <2>3, <2>4
<1> QED
  BY <1>1, <1>2

(* A process that has a reply, and frees nothing yet, is settled.          *)
LEMMA DoneSettled ==
  ASSUME MInv, Honor, NEW p \in Proc, NEW r \in Rpc, cur[p] = r, pc[p] # "free",
         rpc[r].done # 0
  PROVE  Settled(rpc[r].call)
<1>1. /\ InUse(r) /\ rpc[r].done \in 0..2
      /\ \A q \in Proc : cur[q] = r => q = p
  BY CallOf, Types DEF MInv, Mntrpc
<1>2. rpc[r].done # 2
  BY <1>1 DEF Honor, DoneInv
<1> QED
  BY <1>1, <1>2 DEF Honor, SettledInv

(* The whole invariant, in every reachable state.                          *)
HInv == MInv /\ DepthInv /\ Honor

(* The whole invariant holds at first.                                     *)
LEMMA HInit == Init => HInv
<1> SUFFICES ASSUME Init PROVE HInv
  OBVIOUS
<1>1. /\ \A r \in Rpc : rpc[r].tag = 0
      /\ \A p \in Proc : pc[p] = "idle" /\ cur[p] = Nil
      /\ DOMAIN srv = {} /\ DOMAIN wire = {} /\ answered = {} /\ calls = 0
      /\ \A c \in Call : result[c] = Pending
      /\ Nil \notin Rpc /\ Pending # Rflush
  BY NilAssumption DEF Init, Heap, Pending, Rflush
<1>2. \A r \in Rpc : ~InUse(r)
  BY <1>1 DEF InUse
<1>3. \A p \in Proc : cur[p] \notin Rpc
  BY <1>1
<1>4. DepthInv
  <2>1. PICK depth \in [Rpc -> Nat] : TRUE
    <3>1. [r \in Rpc |-> 0] \in [Rpc -> Nat]
      OBVIOUS
    <3> QED
      BY <3>1
  <2>2. Depths(depth)
    BY <1>2, <1>3 DEF Depths
  <2> QED
    BY <2>2 DEF DepthInv
<1>5. DoneInv /\ ResInv /\ MadeInv /\ FreshInv /\ OrigInv /\ AnsweredInv /\ FlushedInv
  BY <1>1, <1>2, <1>3 DEF DoneInv, ResInv, MadeInv, FreshInv, OrigInv, AnsweredInv, FlushedInv
<1>6. SettledInv /\ HonorsReply
  BY <1>1, <1>2, <1>3 DEF SettledInv, HonorsReply
<1> QED
  BY <1>4, <1>5, <1>6, MInit DEF HInv, Honor

(* The steps that alter no structure, and only them.                       *)
LEMMA SameDepth == DepthInv /\ UNCHANGED <<rpc, rpcfree, cur, calls>> => DepthInv'
<1>1. UNCHANGED <<rpc, rpcfree, cur, calls>> => Still
  BY DEF Still, InUse, On
<1> QED
  BY <1>1, StillDepth

(* Altering a request's done or answer leaves the depths as they were.     *)
LEMMA AltersDepth ==
  ASSUME DepthInv, NEW q \in Rpc, Alters(q), UNCHANGED <<rpcfree, cur, calls>>
  PROVE  DepthInv'
<1>1. Still
  BY DEF Still, Alters, InUse, On
<1> QED
  BY <1>1, StillDepth

(* Every step keeps the whole invariant.                                   *)
LEMMA HStep == HInv /\ [Next]_vars => HInv'
<1> SUFFICES ASSUME MInv, DepthInv, Honor, [Next]_vars PROVE DepthInv' /\ Honor'
  BY MStep DEF HInv
<1>M. MInv' /\ TypeOK /\ Store
  BY MStep DEF MInv
<1>H. Chained
  BY ChainedIs
<1>T. /\ rpc \in [Rpc -> Mntrpc] /\ queue \in Seq(Rpc)
      /\ srv \in Seq(Tmsg) /\ wire \in Seq(Reply)
      /\ pc \in [Proc -> Places] /\ cur \in [Proc -> Rpc \cup {Nil}]
      /\ calls \in Nat /\ 0 \notin Tag /\ Nil \notin Rpc
      /\ calls \in 0..MaxCalls /\ MaxCalls \in Nat
      /\ result \in [Call -> Call \cup {Rflush, Pending, Failed}]
  BY <1>M, Types, BoundAssumption DEF TypeOK
<1>C. ASSUME NEW p \in Proc, pc[p] # "idle"
      PROVE  /\ cur[p] \in Rpc /\ InUse(cur[p])
             /\ rpc[cur[p]].tag \in Tag /\ rpc[cur[p]].call \in 1..calls
             /\ rpc[cur[p]].call \in Call
  BY <1>C, <1>M, CurIs, CallOf DEF Store
<1>1. ASSUME NEW p \in Proc, mountrpc(p) PROVE DepthInv' /\ Honor'
  <2>1. /\ pc[p] = "idle" /\ calls < MaxCalls /\ calls' = calls + 1
        /\ Request(p, calls + 1, 0, Nil)
        /\ UNCHANGED <<rip, waking, srv, wire, hungup, notes, history>>
    BY <1>1 DEF mountrpc
  <2>2. cur[p] = Nil
    BY <1>M, <2>1 DEF Store, CurInv
  <2>3. /\ calls + 1 \in 1..calls' /\ calls' \in 0..MaxCalls /\ calls <= calls'
        /\ pc[p] \in {"idle", "flush"} /\ 0 \in Tag \cup {0} /\ UNCHANGED <<srv, wire>>
    BY <1>T, <2>1
  <2>4. PICK r \in Rpc : Takes(p, r) /\ rpc'[r].call = calls + 1 /\ rpc'[r].old = 0
    <3>1. PICK c : c = calls + 1
      OBVIOUS
    <3>2. PICK o : o = 0
      OBVIOUS
    <3>3. PICK fl : fl = Nil
      OBVIOUS
    <3>4. c \in 1..calls' /\ Request(p, c, o, fl) /\ fl = cur[p] /\ o \in Tag \cup {0}
      BY <2>1, <2>2, <2>3, <3>1, <3>2, <3>3
    <3>5. \E r \in Rpc : Takes(p, r) /\ rpc'[r].call = c /\ rpc'[r].old = o
      BY <1>M, <2>3, <3>4, RequestStore
    <3> QED
      BY <3>1, <3>2, <3>5
  <2>5. result[calls + 1] = Pending /\ calls + 1 > calls
    <3>1. calls + 1 \in Call /\ calls + 1 > calls
      BY <1>T, <2>1 DEF Call
    <3> QED
      BY <3>1 DEF Honor, ResInv
  <2> QED
    BY <1>M, <1>H, <2>1, <2>4, <2>5, NewDepth, TakesHonor DEF history
<1>2. ASSUME NEW p \in Proc, Write(p) PROVE DepthInv' /\ Honor'
  <2>1. /\ pc[p] = "write"
        /\ UNCHANGED <<rpc, rpcfree, tagmask, queue, rip, waking, cur, wire, hungup, bounds,
                       answered>>
    BY <1>2 DEF Write
  <2>2. DepthInv'
    BY <2>1, SameDepth DEF bounds
  <2>3. CASE hungup
    <3>1. PICK c : c = rpc[cur[p]].call /\ c \in Call /\ c <= calls
      BY <1>C, <2>1
    <3>2. /\ pc' = [pc EXCEPT ![p] = "free"] /\ srv' = srv
          /\ result' = [result EXCEPT ![c] = Failed]
      BY <1>2, <2>3, <3>1 DEF Write, Go
    <3>3. \A w \in Proc : /\ w # p => pc'[w] = pc[w]
                          /\ pc'[p] = "free" /\ pc[p] = "write"
      BY <1>T, <2>1, <3>2
    <3>4. \A d \in Call : result'[d] = result[d] \/ (result'[d] = Failed /\ d <= calls)
      BY <1>T, <3>1, <3>2
    <3>5. result'[c] = Failed
      BY <1>T, <3>1, <3>2
    <3>6. Honor'
      <4>1. \A w \in Proc : (pc'[w] = "write" => pc[w] = "write")
                            /\ (pc[w] = "free" => pc'[w] = "free")
        BY <3>3
      <4>2. \A w \in Proc, r \in Rpc : cur[w] = r /\ pc'[w] \in {"free", "qrm"} =>
              pc[w] \in {"free", "qrm"} \/ result'[rpc[r].call] = Failed
        BY <3>1, <3>3, <3>5
      <4>3. \A w \in Proc, r \in Rpc : cur[w] = r /\ pc'[w] = "gate" => pc[w] = "gate"
        BY <3>3
      <4>4. UNCHANGED <<rpc, rpcfree, cur, srv, wire, calls, answered>>
        BY <2>1, <3>2 DEF bounds
      <4> QED
        BY <3>4, <4>1, <4>2, <4>3, <4>4, QuietHonor
    <3> QED
      BY <2>2, <3>6
  <2>4. CASE ~hungup
    <3>1. /\ pc' = [pc EXCEPT ![p] = "loop"] /\ srv' = Append(srv, Sent(cur[p]))
          /\ result' = result
      BY <1>2, <2>4 DEF Write, Go, Sent
    <3> QED
      BY <1>H, <2>1, <2>2, <3>1, SendHonor DEF bounds
  <2> QED
    BY <2>3, <2>4
<1>Q. ASSUME NEW p \in Proc, UNCHANGED <<rpc, rpcfree, cur, srv, wire, calls, answered, result>>,
             \A w \in Proc : w # p => pc'[w] = pc[w] \/ (pc[w] = "asleep" /\ pc'[w] = "awake"),
             pc[p] \notin {"idle", "free"}, pc'[p] \notin {"idle", "write", "qrm"},
             pc'[p] \in {"free", "gate"} => \/ rpc[cur[p]].done # 0
                                            \/ pc[p] = "gate"
      PROVE  DepthInv' /\ Honor'
  <2>1. DepthInv'
    BY <1>Q, SameDepth
  <2>2. \A w \in Proc : (pc'[w] = "write" => pc[w] = "write")
                        /\ (pc[w] = "free" => pc'[w] = "free")
    BY <1>Q
  <2>3. ASSUME NEW w \in Proc, NEW r \in Rpc, cur[w] = r, pc'[w] \in {"free", "qrm"},
               pc[w] \notin {"free", "qrm"}
        PROVE  Settled(rpc[r].call)
    <3>1. w = p
      BY <1>Q, <2>3
    <3>2. rpc[r].done # 0 \/ ~Open(rpc[r].call)
      <4>1. CASE pc[p] = "gate"
        BY <2>3, <3>1, <4>1 DEF Honor, SettledInv
      <4>2. CASE pc[p] # "gate"
        BY <1>Q, <2>3, <3>1, <4>2
      <4> QED
        BY <4>1, <4>2
    <3> QED
      BY <2>3, <3>2, DoneSettled DEF Settled
  <2>4. ASSUME NEW w \in Proc, NEW r \in Rpc, cur[w] = r, pc'[w] = "gate"
        PROVE  pc[w] = "gate" \/ rpc[r].done # 0
    BY <1>Q, <2>4
  <2>5. \A c \in Call : result'[c] = result[c]
    BY <1>Q
  <2>6. Honor'
    BY <1>Q, <2>2, <2>3, <2>4, <2>5, QuietHonor
  <2> QED
    BY <2>1, <2>6
<1>3. ASSUME NEW p \in Proc, Loop(p) PROVE DepthInv' /\ Honor'
  <2>1. /\ pc[p] = "loop"
        /\ UNCHANGED <<rpc, rpcfree, tagmask, queue, waking, cur, srv, wire, hungup, bounds,
                       history>>
        /\ \/ pc' = [pc EXCEPT ![p] = "gate"] /\ rpc[cur[p]].done # 0
           \/ \E l \in {"read", "presleep"} : pc' = [pc EXCEPT ![p] = l]
    BY <1>3 DEF Loop, Go
  <2>2. /\ \A w \in Proc : w # p => pc'[w] = pc[w]
        /\ pc'[p] \in {"gate", "read", "presleep"}
        /\ pc'[p] = "gate" => rpc[cur[p]].done # 0
    BY <1>T, <2>1
  <2> QED
    BY <1>Q, <2>1, <2>2 DEF bounds, history
<1>4. ASSUME NEW p \in Proc, Sleep(p) PROVE DepthInv' /\ Honor'
  <2>1. /\ pc[p] \in {"presleep", "awake"}
        /\ UNCHANGED <<rpc, rpcfree, tagmask, queue, rip, waking, cur, srv, wire, hungup,
                       bounds, history>>
        /\ \/ pc' = [pc EXCEPT ![p] = "free"] /\ rpc[cur[p]].done # 0
           \/ \E l \in {"loop", "asleep"} : pc' = [pc EXCEPT ![p] = l]
    BY <1>4 DEF Sleep, AfterSleep, Go
  <2>2. /\ \A w \in Proc : w # p => pc'[w] = pc[w]
        /\ pc'[p] \in {"free", "loop", "asleep"}
        /\ pc'[p] = "free" => rpc[cur[p]].done # 0
    BY <1>T, <2>1
  <2> QED
    BY <1>Q, <2>1, <2>2 DEF bounds, history
<1>5. ASSUME NEW p \in Proc, Mux(p) PROVE DepthInv' /\ Honor'
  <2>1. /\ pc[p] = "read" /\ wire # <<>> /\ wire' = Tail(wire)
        /\ UNCHANGED <<rpcfree, rip, cur, srv, hungup, bounds, history>>
    BY <1>5 DEF Mux
  <2>2. PICK t : t = Head(wire)
    OBVIOUS
  <2>3. t = wire[1] /\ t \in Reply
    BY <1>M, <2>1, <2>2, ReadOne DEF Store
  <2>4. CASE /\ \A r \in Rpc : InUse(r) /\ rpc[r].done = 0 => rpc[r].tag # t.tag
             /\ UNCHANGED <<rpc, pc>>
    <3>1. DepthInv'
      BY <2>1, <2>4, SameDepth DEF bounds
    <3>2. Honor'
      BY <1>H, <2>1, <2>3, <2>4, MuxHonor DEF bounds, history
    <3> QED
      BY <3>1, <3>2
  <2>5. ASSUME NEW q \in Rpc, NEW i \in DOMAIN queue, Completes(p, t, q, i)
        PROVE  DepthInv' /\ Honor'
    <3>1. DepthInv'
      BY <2>1, <2>5, AltersDepth DEF bounds, Completes
    <3>2. \E x \in Rpc : /\ InUse(x) /\ rpc[x].done = 0 /\ rpc[x].tag = t.tag
                          /\ Alters(x) /\ rpc'[x].done = 1 /\ rpc'[x].ans = t.ans
                          /\ \/ x = cur[p] /\ pc' = [pc EXCEPT ![p] = "gate"]
                             \/ pc' = [pc EXCEPT ![p] = "wakeup"]
      BY <2>5 DEF Completes
    <3>3. Honor'
      BY <1>H, <2>1, <2>3, <3>2, MuxHonor DEF bounds, history
    <3> QED
      BY <3>1, <3>3
  <2> QED
    BY <1>5, <1>M, <2>2, <2>3, <2>4, <2>5, MuxIs
<1>6. ASSUME NEW p \in Proc, MuxFail(p) PROVE DepthInv' /\ Honor'
  <2>1. /\ pc[p] = "read" /\ pc' = [pc EXCEPT ![p] = "gate"]
        /\ result' = [result EXCEPT ![rpc[cur[p]].call] = Failed]
        /\ UNCHANGED <<rpc, rpcfree, tagmask, queue, rip, waking, cur, srv, wire, hungup,
                       bounds, answered>>
    BY <1>6 DEF MuxFail, Go
  <2>2. PICK c : c = rpc[cur[p]].call /\ c \in Call /\ c <= calls
    BY <1>C, <2>1
  <2>3. \A w \in Proc : /\ w # p => pc'[w] = pc[w]
                        /\ pc'[p] = "gate" /\ pc[p] = "read"
    BY <1>T, <2>1
  <2>4. \A d \in Call : result'[d] = result[d] \/ (result'[d] = Failed /\ d <= calls)
    BY <1>T, <2>1, <2>2
  <2>5. result'[c] = Failed
    BY <1>T, <2>1, <2>2
  <2>6. Honor'
    <3>1. \A w \in Proc : (pc'[w] = "write" => pc[w] = "write")
                          /\ (pc[w] = "free" => pc'[w] = "free")
      BY <2>3
    <3>2. \A w \in Proc, r \in Rpc : cur[w] = r /\ pc'[w] \in {"free", "qrm"} =>
            pc[w] \in {"free", "qrm"}
      BY <2>3
    <3>3. \A w \in Proc, r \in Rpc : cur[w] = r /\ pc'[w] = "gate" =>
            pc[w] = "gate" \/ result'[rpc[r].call] = Failed
      BY <2>2, <2>3, <2>5
    <3>4. UNCHANGED <<rpc, rpcfree, cur, srv, wire, calls, answered>>
      BY <2>1 DEF bounds
    <3> QED
      BY <2>4, <3>1, <3>2, <3>3, <3>4, QuietHonor
  <2> QED
    BY <2>1, <2>6, SameDepth DEF bounds
<1>7. ASSUME NEW p \in Proc, MuxWakeup(p) PROVE DepthInv' /\ Honor'
  <2>1. /\ pc[p] = "wakeup" /\ pc' = [Woken(waking) EXCEPT ![p] = "read"]
        /\ UNCHANGED <<rpc, rpcfree, tagmask, queue, rip, cur, srv, wire, hungup, bounds,
                       history>>
    BY <1>7 DEF MuxWakeup
  <2>2. /\ Woken(waking) \in [Proc -> Places]
        /\ \A w \in Proc : pc[w] # "asleep" => Woken(waking)[w] = pc[w]
        /\ \A w \in Proc : pc[w] = "asleep" => Woken(waking)[w] \in {"asleep", "awake"}
    BY <1>T, WokenPc DEF PcType
  <2>3. \A w \in Proc : w # p => pc'[w] = pc[w] \/ (pc[w] = "asleep" /\ pc'[w] = "awake")
    BY <2>1, <2>2
  <2>4. pc'[p] = "read"
    BY <2>1, <2>2
  <2> QED
    BY <1>Q, <2>1, <2>3, <2>4 DEF bounds, history
<1>8. ASSUME NEW p \in Proc, Gate(p) PROVE DepthInv' /\ Honor'
  <2>1. /\ pc[p] \in {"gate", "gateflush"}
        /\ pc' = [mntgate EXCEPT ![p] = IF @ = "gateflush" THEN "flush" ELSE "free"]
        /\ UNCHANGED <<rpc, rpcfree, tagmask, queue, waking, cur, srv, wire, hungup, bounds,
                       history>>
    BY <1>8 DEF Gate
  <2>2. /\ mntgate \in [Proc -> Places]
        /\ \A w \in Proc : pc[w] # "asleep" => mntgate[w] = pc[w]
        /\ \A w \in Proc : pc[w] = "asleep" => mntgate[w] \in {"asleep", "awake"}
    BY <1>T, GatePc DEF PcType
  <2>3. \A w \in Proc : w # p => pc'[w] = pc[w] \/ (pc[w] = "asleep" /\ pc'[w] = "awake")
    BY <2>1, <2>2
  <2>4. pc'[p] \in {"free", "flush"} /\ (pc'[p] = "free" => pc[p] = "gate")
    BY <2>1, <2>2
  <2> QED
    BY <1>Q, <2>1, <2>3, <2>4 DEF bounds, history
<1>9. ASSUME NEW p \in Proc, Flush(p) PROVE DepthInv' /\ Honor'
  <2>1. /\ pc[p] = "flush" /\ Request(p, rpc[cur[p]].call, OldTag(rpc[cur[p]]), cur[p])
        /\ UNCHANGED <<rip, waking, srv, wire, hungup, bounds, history>>
    BY <1>9 DEF Flush
  <2>2. PICK b \in Rpc : /\ b = cur[p] /\ InUse(b) /\ rpc[b] \in Mntrpc
                         /\ rpc[b].tag \in Tag /\ rpc[b].call \in 1..calls
    BY <1>C, <1>T, <2>1
  <2>3. OldTag(rpc[b]) \in Tag \cup {0} /\ OldTag(rpc[b]) # 0
    BY <1>T, <2>2 DEF OldTag, Mntrpc
  <2>4. PICK r \in Rpc : /\ Takes(p, r) /\ rpc'[r].call = rpc[b].call
                         /\ rpc'[r].old = OldTag(rpc[b])
    <3>1. /\ pc[p] \in {"idle", "flush"} /\ UNCHANGED <<srv, wire>> /\ calls <= calls'
          /\ calls' \in 0..MaxCalls /\ rpc[b].call \in 1..calls'
          /\ Request(p, rpc[b].call, OldTag(rpc[b]), b)
      BY <1>T, <2>1, <2>2 DEF bounds
    <3> QED
      BY <1>M, <2>2, <2>3, <3>1, RequestStore
  <2>5. result[rpc[b].call] = Pending \/ result[rpc[b].call] = Failed
    BY <2>2 DEF Honor, ResInv
  <2>6. DepthInv'
    BY <2>1, <2>2, <2>4, FlushDepth
  <2>7. Honor'
    BY <1>M, <1>H, <2>1, <2>3, <2>4, <2>5, TakesHonor DEF history
  <2> QED
    BY <2>6, <2>7
<1>10. ASSUME NEW p \in Proc, FlushFree(p) PROVE DepthInv' /\ Honor'
  <2> DEFINE r == cur[p]
  <2>1. /\ pc[p] = "free"
        /\ UNCHANGED <<queue, rip, waking, srv, wire, hungup, bounds, answered>>
    BY <1>10 DEF FlushFree
  <2>2. r \in Rpc /\ rpc[r].call \in Call /\ InUse(r)
    BY <1>C, <2>1
  <2>3. CASE rpc[r].done = 0
    <3>1. /\ rpc' = [rpc EXCEPT ![r].ans = Rflush] /\ pc' = [pc EXCEPT ![p] = "qrm"]
          /\ UNCHANGED <<rpcfree, tagmask, cur, result>>
      BY <1>10, <2>3 DEF FlushFree, Go
    <3>2. PICK q \in Rpc : q = r
      BY <2>2
    <3>3. q = cur[p] /\ rpc' = [rpc EXCEPT ![q].ans = Rflush] /\ rpc[q].done = 0
      BY <2>3, <3>1, <3>2
    <3> HIDE DEF r
    <3>4. Alters(q) /\ rpc'[q].done = rpc[q].done /\ rpc'[q].ans = Rflush
      BY <1>T, <3>3, AltersAns
    <3>5. DepthInv'
      BY <2>1, <3>1, <3>4, AltersDepth DEF bounds
    <3>6. Honor'
      BY <1>H, <2>1, <3>1, <3>3, <3>4, GiveUpHonor DEF bounds
    <3> QED
      BY <3>5, <3>6
  <2>4. CASE rpc[r].done # 0
    <3>1. mntfree(r) /\ cur' = [cur EXCEPT ![p] = rpc[r].flushed]
      BY <1>10, <2>4 DEF FlushFree
    <3>2. /\ rpc[r].flushed # Nil => UNCHANGED <<pc, result>>
          /\ rpc[r].flushed = Nil =>
               /\ pc' = [pc EXCEPT ![p] = "idle"]
               /\ \E a \in {Failed, rpc[r].ans} :
                    /\ result' = [result EXCEPT ![rpc[r].call] = a]
                    /\ result[rpc[r].call] = Failed => a = Failed
      BY <1>10, <2>4 DEF FlushFree, Go
    <3>3. pc' = [pc EXCEPT ![p] = IF rpc[r].flushed = Nil THEN "idle" ELSE "free"]
      BY <1>T, <2>1, <3>2
    <3>4. PICK s \in Rpc : s = r
      BY <2>2
    <3>5. /\ s = cur[p] /\ rpc[s].done # 0 /\ mntfree(s)
          /\ cur' = [cur EXCEPT ![p] = rpc[s].flushed]
          /\ pc' = [pc EXCEPT ![p] = IF rpc[s].flushed = Nil THEN "idle" ELSE "free"]
          /\ UNCHANGED <<queue, srv, wire, calls>>
      BY <2>1, <2>4, <3>1, <3>3, <3>4 DEF bounds
    <3>6. Frees(p, s)
      BY <1>M, <2>1, <3>5, FreeStore
    <3>7. \/ rpc[s].flushed # Nil /\ result' = result
          \/ /\ rpc[s].flushed = Nil
             /\ \A c \in Call : c # rpc[s].call => result'[c] = result[c]
             /\ result'[rpc[s].call] \in {rpc[s].ans, Failed}
             /\ result[rpc[s].call] = Failed => result'[rpc[s].call] = Failed
      BY <1>T, <2>2, <3>2, <3>4
    <3>8. DepthInv'
      BY <3>6, FreeDepth
    <3>9. Honor'
      BY <1>H, <2>1, <3>6, <3>7, FreesHonor
    <3> QED
      BY <3>8, <3>9
  <2> QED
    BY <2>3, <2>4
<1>11. ASSUME NEW p \in Proc, mntqrm(p) PROVE DepthInv' /\ Honor'
  <2>1. /\ pc[p] = "qrm" /\ rpc' = [rpc EXCEPT ![cur[p]].done = 2]
        /\ pc' = [pc EXCEPT ![p] = "free"]
        /\ UNCHANGED <<rpcfree, tagmask, rip, waking, cur, srv, wire, hungup, bounds, history>>
    BY <1>11 DEF mntqrm, Go
  <2>2. PICK q \in Rpc : q = cur[p] /\ InUse(q)
    BY <1>C, <2>1
  <2>3. Alters(q) /\ rpc'[q].done = 2 /\ rpc'[q].ans = rpc[q].ans
    <3>1. 2 \in 0..2 /\ rpc' = [rpc EXCEPT ![q].done = 2]
      BY <2>1, <2>2
    <3> QED
      BY <1>T, <3>1, AltersDone
  <2>4. DepthInv'
    BY <2>1, <2>3, AltersDepth DEF bounds
  <2>5. Honor'
    BY <1>H, <2>1, <2>2, <2>3, GiveUpHonor DEF bounds, history
  <2> QED
    BY <2>4, <2>5
<1>12. ASSUME NEW p \in Proc, Interrupt(p) PROVE DepthInv' /\ Honor'
  <2>1. PICK l \in {"flush", "gateflush"} : pc' = [pc EXCEPT ![p] = l]
    BY <1>12 DEF Interrupt, Go, Caught
  <2>2. UNCHANGED <<rpc, rpcfree, tagmask, queue, rip, waking, cur, wire, hungup, calls,
                    history>>
    BY <1>12 DEF Interrupt
  <2>3. \/ pc[p] \in {"presleep", "asleep", "read", "awake", "write"} /\ srv' = srv
        \/ pc[p] = "write" /\ srv' = Append(srv, Sent(cur[p]))
    BY <1>12 DEF Interrupt, Sent
  <2>4. pc'[p] \in {"flush", "gateflush"} /\ \A w \in Proc : w # p => pc'[w] = pc[w]
    BY <1>T, <2>1
  <2>5. CASE pc[p] \in {"presleep", "asleep", "read", "awake", "write"} /\ srv' = srv
    BY <1>Q, <2>2, <2>4, <2>5 DEF history
  <2>6. CASE pc[p] = "write" /\ srv' = Append(srv, Sent(cur[p]))
    <3>1. DepthInv'
      BY <2>2, SameDepth
    <3>2. Honor'
      BY <1>H, <2>1, <2>2, <2>6, SendHonor DEF history
    <3> QED
      BY <3>1, <3>2
  <2> QED
    BY <2>3, <2>5, <2>6
<1>13. ASSUME NEW i \in DOMAIN srv, Answer(i) PROVE DepthInv' /\ Honor'
  <2>1. UNCHANGED <<rpc, rpcfree, tagmask, queue, rip, waking, pc, cur, hungup, bounds, result>>
    BY <1>13 DEF Answer
  <2>2. PICK t : t = srv[i]
    OBVIOUS
  <2>3. t \in Tmsg
    BY <1>T, <2>2
  <2>4. PICK m : m = [tag |-> t.tag, ans |-> IF t.old = 0 THEN t.call ELSE Rflush]
    OBVIOUS
  <2>5. m \in Reply /\ m.tag = t.tag
    BY <2>3, <2>4 DEF Tmsg, Reply
  <2>6. wire' = Append(wire, m)
    BY <1>13, <2>2, <2>4 DEF Answer
  <2>7. PICK K : /\ Within(srv', srv, K)
                 /\ \A j \in K : /\ j \in DOMAIN srv /\ j # i
                                 /\ t.old # 0 /\ j < i => srv[j].tag # t.old
    BY <1>13, <1>T, <2>2, AnswerDrops
  <2>8. \/ t.old = 0 /\ answered' = answered \cup {t.call}
        \/ t.old # 0 /\ answered' = answered
    BY <1>13, <2>2 DEF Answer
  <2>9. srv' \in Seq(Tmsg)
    BY <1>M DEF MInv, TypeOK
  <2>10. DepthInv'
    BY <2>1, SameDepth DEF bounds
  <2>11. Honor'
    BY <1>H, <2>1, <2>2, <2>5, <2>6, <2>7, <2>8, <2>9, AnswerHonor DEF bounds
  <2> QED
    BY <2>10, <2>11
<1>14. ASSUME Hangup PROVE DepthInv' /\ Honor'
  <2>1. srv' = <<>> /\ UNCHANGED <<rpc, rpcfree, cur, pc, wire, calls, answered, result>>
    BY <1>14 DEF Hangup, bounds, history
  <2> QED
    BY <2>1, SameDepth, HangupHonor
<1>15. CASE UNCHANGED vars
  <2>1. UNCHANGED <<rpc, rpcfree, cur, srv, wire, calls, answered, result, pc>>
    BY <1>15 DEF vars, bounds, history
  <2>2. DepthInv'
    BY <2>1, SameDepth
  <2>3. Honor'
    <3>1. \A c \in Call : result'[c] = result[c]
      BY <2>1
    <3>2. \A w \in Proc : pc'[w] = pc[w]
      BY <2>1
    <3> QED
      BY <2>1, <3>1, <3>2, QuietHonor
  <2> QED
    BY <2>2, <2>3
<1> QED
  BY <1>1, <1>2, <1>3, <1>4, <1>5, <1>6, <1>7, <1>8, <1>9, <1>10, <1>11, <1>12, <1>13,
     <1>14, <1>15 DEF Next, Step, Server

(* A call returns Eintr only if the server has not answered it and never   *)
(* will (devmnt.c:1008-1022): with any number of processes, flushes of     *)
(* flushes, and replies in any order.                                      *)
THEOREM MountHonorsReply == Spec => []HonorsReply
<1>1. HInv => HonorsReply
  BY DEF HInv, Honor
<1> QED
  BY <1>1, HInit, HStep, PTL DEF Spec
=============================================================================
