-------------------------- MODULE SemaphoreProofs --------------------------
(***************************************************************************)
(* Theorems about Semaphore, for any processes and any bound of the value. *)
(* That no wakeup is missed is a matter of counting: whenever somebody is  *)
(* about to sleep, or asleep, with waiting set, there are at least as many *)
(* wakeups and retries under way, that are not behind it on the list, as   *)
(* there are permits.  The processes need not be finitely many, so the     *)
(* comparison is an injection of the permits into the tokens.              *)
(***************************************************************************)
EXTENDS Semaphore, ListLemmas

(* semdequeue takes the one Sema off the list, and nothing else.           *)
LEMMA WithoutOn ==
  ASSUME NEW s \in Seq(Proc), Distinct(s), NEW p \in Proc, On(s, p)
  PROVE  /\ Without(s, p) \in Seq(Proc)
         /\ Distinct(Without(s, p))
         /\ \A q : On(Without(s, p), q) <=> On(s, q) /\ q # p
<1> DEFINE k == CHOOSE k \in DOMAIN s : s[k] = p
           w == Without(s, p)
<1>1. k \in DOMAIN s /\ s[k] = p
  BY DEF On
<1>2. /\ DOMAIN s = 1 .. Len(s) /\ Len(s) \in Nat
      /\ \A j \in DOMAIN s : s[j] \in Proc
  OBVIOUS
<1>3. w = [j \in 1 .. Len(s) - 1 |-> IF j < k THEN s[j] ELSE s[j + 1]]
  BY DEF Without
<1> HIDE DEF k, w
<1>4. Len(s) - 1 \in Nat /\ \A j \in 1 .. Len(s) - 1 :
        w[j] = (IF j < k THEN s[j] ELSE s[j + 1]) /\ w[j] \in Proc
  BY <1>1, <1>2, <1>3
<1>5. w \in Seq(Proc) /\ DOMAIN w = 1 .. Len(s) - 1
  BY <1>3, <1>4
<1>6. Distinct(w)
  <2> SUFFICES ASSUME NEW a \in DOMAIN w, NEW b \in DOMAIN w, w[a] = w[b]
               PROVE  a = b
    BY DEF Distinct
  <2> DEFINE at(j) == IF j < k THEN j ELSE j + 1
  <2>1. at(a) \in DOMAIN s /\ at(b) \in DOMAIN s /\ s[at(a)] = s[at(b)]
    BY <1>1, <1>2, <1>4, <1>5
  <2>2. at(a) = at(b)
    BY <2>1 DEF Distinct
  <2> QED
    BY <1>1, <1>2, <1>5, <2>2
<1>7. ASSUME NEW q, On(w, q) PROVE On(s, q) /\ q # p
  <2>1. PICK j \in 1 .. Len(s) - 1 : w[j] = q
    BY <1>5, <1>7 DEF On
  <2> DEFINE at == IF j < k THEN j ELSE j + 1
  <2>2. at \in DOMAIN s /\ s[at] = q /\ at # k
    BY <1>1, <1>2, <1>4, <2>1
  <2> QED
    BY <1>1, <2>2 DEF On, Distinct
<1>8. ASSUME NEW q, On(s, q), q # p PROVE On(w, q)
  <2>1. PICK j \in 1 .. Len(s) : s[j] = q
    BY <1>2, <1>8 DEF On
  <2> DEFINE at == IF j < k THEN j ELSE j - 1
  <2>2. j # k
    BY <1>1, <1>8, <2>1
  <2>3. at \in 1 .. Len(s) - 1 /\ w[at] = q
    BY <1>1, <1>2, <1>4, <2>1, <2>2
  <2> QED
    BY <1>5, <2>3 DEF On
<1> QED
  BY <1>5, <1>6, <1>7, <1>8 DEF w
-----------------------------------------------------------------------------
(* Counting                                                                *)

(* The tokens of processes that have c[q] each, and at least v of them     *)
Tokens(c) == {t \in Proc \X Nat : t[2] < c[t[1]]}
Injective(f, v) == \A a, b \in 1 .. v : f[a] = f[b] => a = b
Covers(v, c) == \E f \in [1 .. v -> Tokens(c)] : Injective(f, v)

(* Fewer permits and more tokens do no harm.                               *)
LEMMA CoversMore ==
  ASSUME NEW v \in Nat, NEW w \in Nat, w <= v,
         NEW c \in [Proc -> Nat], NEW d \in [Proc -> Nat], Covers(v, c),
         \A q \in Proc : c[q] <= d[q]
  PROVE  Covers(w, d)
<1>1. PICK f \in [1 .. v -> Tokens(c)] : Injective(f, v)
  BY DEF Covers
<1>2. Tokens(c) \subseteq Tokens(d)
  BY DEF Tokens
<1> DEFINE g == [j \in 1 .. w |-> f[j]]
<1>3. g \in [1 .. w -> Tokens(d)] /\ Injective(g, w)
  BY <1>1, <1>2 DEF Injective
<1> QED
  BY <1>3 DEF Covers

(* No permit needs no token.                                               *)
LEMMA CoversNone ==
  ASSUME NEW c
  PROVE  Covers(0, c)
<1> DEFINE g == [j \in 1 .. 0 |-> j]
<1>1. g \in [1 .. 0 -> Tokens(c)] /\ Injective(g, 0)
  BY DEF Injective
<1> QED
  BY <1>1 DEF Covers

(* A process that takes a permit may lose a token.                         *)
LEMMA CoversTake ==
  ASSUME NEW v \in Nat \ {0}, NEW x \in Proc,
         NEW c \in [Proc -> Nat], NEW d \in [Proc -> Nat], Covers(v, c),
         \A q \in Proc : c[q] <= d[q] \/ (q = x /\ c[q] <= d[q] + 1)
  PROVE  Covers(v - 1, d)
<1>1. PICK f \in [1 .. v -> Tokens(c)] : Injective(f, v)
  BY DEF Covers
<1> DEFINE lost == <<x, d[x]>>
           g == [j \in 1 .. v - 1 |-> IF f[j] = lost THEN f[v] ELSE f[j]]
<1>2. \A t \in Tokens(c) : t # lost => t \in Tokens(d)
  <2> SUFFICES ASSUME NEW t \in Tokens(c), t # lost PROVE t \in Tokens(d)
    OBVIOUS
  <2>1. t = <<t[1], t[2]>> /\ t[1] \in Proc /\ t[2] \in Nat /\ t[2] < c[t[1]]
    BY DEF Tokens
  <2>2. CASE c[t[1]] <= d[t[1]]
    BY <2>1, <2>2 DEF Tokens
  <2>3. CASE t[1] = x /\ c[x] <= d[x] + 1
    <3>1. t[2] # d[x]
      BY <2>1, <2>3
    <3> QED
      BY <2>1, <2>3, <3>1 DEF Tokens
  <2> QED
    BY <2>1, <2>2, <2>3
<1>3. \A j \in 1 .. v - 1 : /\ j \in 1 .. v /\ v \in 1 .. v /\ j # v
                           /\ f[j] \in Tokens(c) /\ f[v] \in Tokens(c)
                           /\ f[j] # f[v]
  BY <1>1 DEF Injective
<1>4. ASSUME NEW j \in 1 .. v - 1 PROVE g[j] \in Tokens(d)
  <2>1. CASE f[j] = lost
    BY <1>2, <1>3, <2>1
  <2>2. CASE f[j] # lost
    BY <1>2, <1>3, <2>2
  <2> QED
    BY <2>1, <2>2
<1>5. Injective(g, v - 1)
  <2> SUFFICES ASSUME NEW a \in 1 .. v - 1, NEW b \in 1 .. v - 1, g[a] = g[b]
               PROVE  a = b
    BY DEF Injective
  <2> HIDE DEF lost
  <2>1. f[a] = f[b]
    BY <1>3
  <2> QED
    BY <1>1, <1>3, <2>1 DEF Injective
<1> QED
  BY <1>4, <1>5 DEF Covers

(* Who adds permits adds as many tokens.                                   *)
LEMMA CoversGive ==
  ASSUME NEW v \in Nat, NEW more \in Nat, NEW x \in Proc,
         NEW c \in [Proc -> Nat], NEW d \in [Proc -> Nat], Covers(v, c),
         \A q \in Proc : c[q] <= d[q], c[x] + more <= d[x]
  PROVE  Covers(v + more, d)
<1>1. PICK f \in [1 .. v -> Tokens(c)] : Injective(f, v)
  BY DEF Covers
<1> DEFINE g == [j \in 1 .. v + more |->
                   IF j <= v THEN f[j] ELSE <<x, c[x] + (j - v - 1)>>]
<1>2. Tokens(c) \subseteq Tokens(d)
  BY DEF Tokens
<1>3. ASSUME NEW j \in 1 .. v + more, j > v
      PROVE  /\ <<x, c[x] + (j - v - 1)>> \in Tokens(d)
             /\ <<x, c[x] + (j - v - 1)>> \notin Tokens(c)
  <2> DEFINE m == c[x] + (j - v - 1)
  <2>1. m \in Nat /\ m >= c[x] /\ m < d[x]
    BY <1>3, c[x] \in Nat, d[x] \in Nat
  <2> HIDE DEF m
  <2>2. <<x, m>> \in Tokens(d) /\ <<x, m>> \notin Tokens(c)
    BY <2>1 DEF Tokens
  <2> QED
    BY <2>2 DEF m
<1>4. g \in [1 .. v + more -> Tokens(d)]
  <2> SUFFICES ASSUME NEW j \in 1 .. v + more PROVE g[j] \in Tokens(d)
    OBVIOUS
  <2>1. CASE j <= v
    <3>1. g[j] = f[j] /\ j \in 1 .. v
      BY <2>1
    <3> QED
      BY <1>1, <1>2, <3>1
  <2>2. CASE j > v
    <3>1. g[j] = <<x, c[x] + (j - v - 1)>>
      BY <2>2
    <3> QED
      BY <1>3, <2>2, <3>1
  <2> QED
    BY <2>1, <2>2
<1>5. Injective(g, v + more)
  <2> SUFFICES ASSUME NEW a \in 1 .. v + more, NEW b \in 1 .. v + more, g[a] = g[b]
               PROVE  a = b
    BY DEF Injective
  <2>1. CASE a <= v /\ b <= v
    BY <1>1, <2>1 DEF Injective
  <2>2. CASE a > v /\ b > v
    BY <2>2
  <2>3. CASE a <= v /\ b > v
    BY <1>1, <1>3, <2>3
  <2>4. CASE a > v /\ b <= v
    BY <1>1, <1>3, <2>4
  <2> QED
    BY <2>1, <2>2, <2>3, <2>4
<1> QED
  BY <1>4, <1>5 DEF Covers

(* A wakeup handed from one process to another                             *)
LEMMA CoversMove ==
  ASSUME NEW v \in Nat, NEW x \in Proc, NEW y \in Proc, x # y,
         NEW c \in [Proc -> Nat], NEW d \in [Proc -> Nat], Covers(v, c),
         \A q \in Proc \ {x} : c[q] <= d[q], c[x] <= d[x] + 1, c[y] + 1 <= d[y]
  PROVE  Covers(v, d)
<1>1. CASE v = 0
  BY <1>1, CoversNone
<1>2. CASE v # 0
  <2> DEFINE e == [d EXCEPT ![y] = c[y]]
  <2>1. /\ e \in [Proc -> Nat] /\ e[y] = c[y]
        /\ \A q \in Proc : q # y => e[q] = d[q]
    OBVIOUS
  <2> HIDE DEF e
  <2>2. ASSUME NEW q \in Proc
        PROVE  c[q] <= e[q] \/ (q = x /\ c[q] <= e[q] + 1)
    BY <2>1, c[q] \in Nat, d[q] \in Nat
  <2>3. Covers(v - 1, e)
    BY <1>2, <2>1, <2>2, CoversTake
  <2>4. ASSUME NEW q \in Proc PROVE e[q] <= d[q]
    BY <2>1, c[y] \in Nat, d[y] \in Nat, d[q] \in Nat
  <2>5. e[y] + 1 <= d[y] /\ v - 1 \in Nat
    BY <1>2, <2>1
  <2>6. Covers((v - 1) + 1, d)
    BY <2>1, <2>3, <2>4, <2>5, CoversGive
  <2> QED
    BY <1>2, <2>6
<1> QED
  BY <1>1, <1>2

(* Where there is a permit there is a token.                               *)
LEMMA CoversOne ==
  ASSUME NEW v \in Nat \ {0}, NEW c \in [Proc -> Nat], Covers(v, c)
  PROVE  \E q \in Proc : c[q] > 0
<1>1. PICK f \in [1 .. v -> Tokens(c)] : Injective(f, v)
  BY DEF Covers
<1>2. f[1] \in Tokens(c)
  BY <1>1
<1> QED
  BY <1>2 DEF Tokens
-----------------------------------------------------------------------------
(* The list, its lock, and who walks it                                    *)

InLoop == {"set", "try", "sleep", "asleep", "woke", "dequeue"}

LockInv == \A q \in Proc : sema = q <=> pc[q] \in {"scan", "wake"}
ListInv == Distinct(list) /\ \A p \in Proc : On(list, p) <=> pc[p] \in InLoop
ScanInv ==
  \A q \in Proc : /\ i[q] > 0
                  /\ pc[q] = "wake" => i[q] \in DOMAIN list /\ n[q] > 0

Base == TypeOK /\ LockInv /\ ListInv /\ ScanInv

LEMMA BaseInit == Init => Base
<1> SUFFICES ASSUME Init PROVE Base
  OBVIOUS
<1> USE DEF Init
<1>1. TypeOK
  BY MaxValueAssumption DEF TypeOK, Label, Request, Result
<1>2. LockInv /\ ScanInv
  BY NoProcAssumption DEF LockInv, ScanInv
<1>3. ListInv
  BY NoneOn DEF ListInv, Distinct, InLoop
<1> QED
  BY <1>1, <1>2, <1>3 DEF Base

(* A step that leaves list and lock alone and moves one process between    *)
(* places on the same side of the list and of the lock                     *)
LEMMA BaseMove ==
  ASSUME Base, TypeOK', NEW p \in Proc, NEW l, UNCHANGED <<list, sema, i>>,
         pc' = [pc EXCEPT ![p] = l], pc[p] \in InLoop <=> l \in InLoop,
         pc[p] \notin {"scan", "wake"}, l \notin {"scan", "wake"},
         \A q \in Proc \ {p} : n'[q] = n[q]
  PROVE  Base'
<1>1. LockInv'
  BY DEF Base, LockInv, TypeOK
<1>2. ListInv'
  BY DEF Base, ListInv, TypeOK
<1>3. ScanInv'
  BY DEF Base, ScanInv, TypeOK
<1> QED
  BY <1>1, <1>2, <1>3 DEF Base

LEMMA BaseStep == Base /\ [Next]_vars => Base'
<1> SUFFICES ASSUME Base, [Next]_vars PROVE Base'
  OBVIOUS
<1> USE MaxValueAssumption, NoProcAssumption, AsksAssumption
    DEF Goto, Becomes, InLoop
<1>0. TypeOK /\ LockInv /\ ListInv /\ ScanInv
  BY DEF Base
<1>t. /\ value \in 0 .. MaxValue /\ sema \in Proc \cup {NoProc}
      /\ pc \in [Proc -> Label] /\ waiting \in [Proc -> BOOLEAN]
      /\ i \in [Proc -> Nat] /\ n \in [Proc -> 0 .. MaxValue + 1]
      /\ list \in Seq(Proc)
  BY DEF Base, TypeOK
<1>1. ASSUME NEW p \in Proc, SemAcquireCall(p) PROVE Base'
  <2>1. TypeOK'
    BY <1>0, <1>1 DEF SemAcquireCall, TypeOK, Label, Request, Result
  <2>2. pc' = [pc EXCEPT ![p] = "first"]
    BY <1>1 DEF SemAcquireCall
  <2> QED
    BY <1>1, <2>1, <2>2, <1>0, <1>t, BaseMove DEF SemAcquireCall
<1>2. ASSUME NEW p \in Proc, SemAcquireFirst(p) PROVE Base'
  <2>1. TypeOK'
    <3>1. value' \in 0 .. MaxValue
      BY <1>0, <1>2 DEF SemAcquireFirst, canacquire, TypeOK, Label, Request, Result
    <3>2. call' \in [Proc -> Request \cup Result] /\ pc' \in [Proc -> Label]
      BY <1>0, <1>2 DEF SemAcquireFirst, TypeOK, Label, Request, Result
    <3> QED
      BY <1>0, <1>2, <3>1, <3>2 DEF SemAcquireFirst, TypeOK, Label, Request, Result
  <2>2. pc' = [pc EXCEPT ![p] = "idle"] \/ pc' = [pc EXCEPT ![p] = "queue"]
    BY <1>2 DEF SemAcquireFirst
  <2> QED
    BY <1>2, <2>1, <2>2, <1>0, <1>t, BaseMove DEF SemAcquireFirst
<1>3. ASSUME NEW p \in Proc, semqueue(p) PROVE Base'
  <2>1. TypeOK'
    BY <1>0, <1>3 DEF semqueue, TypeOK, Label, Request, Result
  <2>2. LockInv'
    BY <1>0, <1>t, <1>3 DEF semqueue, LockInv
  <2>3. ~On(list, p) /\ Distinct(list) /\ list \in Seq(Proc)
    BY <1>0, <1>t, <1>3 DEF semqueue, ListInv
  <2>4. \A q \in Proc : On(list', q) <=> On(list, q) \/ q = p
    BY <1>3, <2>3, AppendOn DEF semqueue
  <2>5. Distinct(list')
    BY <1>3, <2>3, AppendDistinct DEF semqueue
  <2>6. ListInv'
    BY <1>0, <1>t, <1>3, <2>4, <2>5 DEF semqueue, ListInv
  <2>7. ScanInv'
    BY <1>0, <1>t, <1>3 DEF semqueue, ScanInv, LockInv
  <2> QED
    BY <2>1, <2>2, <2>6, <2>7 DEF Base
<1>4. ASSUME NEW p \in Proc, SetWaiting(p) PROVE Base'
  <2>1. TypeOK'
    BY <1>0, <1>4 DEF SetWaiting, TypeOK, Label, Request, Result
  <2>2. pc' = [pc EXCEPT ![p] = "try"]
    BY <1>4 DEF SetWaiting
  <2> QED
    BY <1>4, <2>1, <2>2, <1>0, <1>t, BaseMove DEF SetWaiting
<1>5. ASSUME NEW p \in Proc, TryAgain(p) PROVE Base'
  <2>1. TypeOK'
    <3>1. value' \in 0 .. MaxValue
      BY <1>0, <1>5 DEF TryAgain, canacquire, TypeOK, Label, Request, Result
    <3>2. call' \in [Proc -> Request \cup Result] /\ pc' \in [Proc -> Label]
      BY <1>0, <1>5 DEF TryAgain, TypeOK, Label, Request, Result
    <3> QED
      BY <1>0, <1>5, <3>1, <3>2 DEF TryAgain, TypeOK, Label, Request, Result
  <2>2. pc' = [pc EXCEPT ![p] = "dequeue"] \/ pc' = [pc EXCEPT ![p] = "sleep"]
    BY <1>5 DEF TryAgain
  <2> QED
    BY <1>5, <2>1, <2>2, <1>0, <1>t, BaseMove DEF TryAgain
<1>6. ASSUME NEW p \in Proc, Sleep(p) PROVE Base'
  <2>1. TypeOK'
    BY <1>0, <1>6 DEF Sleep, TypeOK, Label, Request, Result
  <2>2. pc' = [pc EXCEPT ![p] = "woke"] \/ pc' = [pc EXCEPT ![p] = "asleep"]
    BY <1>6 DEF Sleep
  <2> QED
    BY <1>6, <2>1, <2>2, <1>0, <1>t, BaseMove DEF Sleep
<1>7. ASSUME NEW p \in Proc, TimerWakes(p) PROVE Base'
  <2>1. TypeOK'
    BY <1>0, <1>7 DEF TimerWakes, TypeOK, Label, Request, Result
  <2>2. pc' = [pc EXCEPT ![p] = "woke"]
    BY <1>7 DEF TimerWakes
  <2> QED
    BY <1>7, <2>1, <2>2, <1>0, <1>t, BaseMove DEF TimerWakes
<1>8. ASSUME NEW p \in Proc, PostNote(p) PROVE Base'
  <2>1. TypeOK'
    BY <1>0, <1>8 DEF PostNote, TypeOK, Label, Request, Result
  <2> DEFINE l == IF pc[p] = "asleep" THEN "woke" ELSE pc[p]
  <2>2. pc' = [pc EXCEPT ![p] = l] /\ pc[p] \in InLoop /\ l \in InLoop
    BY <1>8 DEF PostNote
  <2> HIDE DEF l
  <2> QED
    BY <1>8, <2>1, <2>2, <1>0, <1>t, BaseMove DEF PostNote
<1>9. ASSUME NEW p \in Proc, SleepReturn(p) PROVE Base'
  <2>1. TypeOK'
    BY <1>0, <1>9 DEF SleepReturn, TypeOK, Label, Request, Result
  <2>2. pc' = [pc EXCEPT ![p] = "dequeue"] \/ pc' = [pc EXCEPT ![p] = "set"]
    BY <1>9 DEF SleepReturn
  <2> QED
    BY <1>9, <2>1, <2>2, <1>0, <1>t, BaseMove DEF SleepReturn
<1>10. ASSUME NEW p \in Proc, semdequeue(p) PROVE Base'
  <2>1. On(list, p) /\ Distinct(list) /\ list \in Seq(Proc)
    BY <1>0, <1>t, <1>10 DEF semdequeue, ListInv
  <2>2. /\ list' \in Seq(Proc) /\ Distinct(list')
        /\ \A q \in Proc : On(list', q) <=> On(list, q) /\ q # p
    BY <1>10, <2>1, WithoutOn DEF semdequeue
  <2>3. TypeOK'
    BY <1>0, <1>10, <2>2 DEF semdequeue, TypeOK, Label, Request, Result
  <2>4. LockInv'
    BY <1>0, <1>t, <1>10 DEF semdequeue, LockInv
  <2>5. ListInv'
    BY <1>0, <1>t, <1>10, <2>2 DEF semdequeue, ListInv
  <2>6. ScanInv'
    BY <1>0, <1>t, <1>10 DEF semdequeue, ScanInv, LockInv
  <2> QED
    BY <2>3, <2>4, <2>5, <2>6 DEF Base
<1>11. ASSUME NEW p \in Proc, PassOn(p) PROVE Base'
  <2>1. TypeOK'
    <3>1. n' \in [Proc -> 0 .. MaxValue + 1] /\ pc' \in [Proc -> Label]
      <4>1. n' = n \/ n' = [n EXCEPT ![p] = 1]
        BY <1>11 DEF PassOn, TypeOK, Label, Request, Result
      <4>2. pc' = [pc EXCEPT ![p] = "idle"] \/ pc' = [pc EXCEPT ![p] = "wlock"]
        BY <1>11 DEF PassOn, TypeOK, Label, Request, Result
      <4>3. n' \in [Proc -> 0 .. MaxValue + 1]
        <5>1. n \in [Proc -> 0 .. MaxValue + 1] /\ 1 \in 0 .. MaxValue + 1
          BY <1>0 DEF TypeOK, Label, Request, Result
        <5> QED
          BY <4>1, <5>1 DEF TypeOK, Label, Request, Result
      <4>4. pc' \in [Proc -> Label]
        BY <1>0, <4>2 DEF TypeOK, Label, Request, Result
      <4> QED
        BY <4>3, <4>4 DEF TypeOK, Label, Request, Result
    <3> QED
      BY <1>0, <1>11, <3>1 DEF PassOn, TypeOK, Label, Request, Result
  <2>2. pc' = [pc EXCEPT ![p] = "idle"] \/ pc' = [pc EXCEPT ![p] = "wlock"]
    BY <1>11 DEF PassOn
  <2>3. \A q \in Proc \ {p} : n'[q] = n[q]
    BY <1>0, <1>t, <1>11 DEF PassOn
  <2> QED
    BY <1>11, <2>1, <2>2, <2>3, <1>0, <1>t, BaseMove DEF PassOn
<1>12. ASSUME NEW p \in Proc, SemRelease(p) PROVE Base'
  <2>1. PICK delta \in 1 .. MaxValue - value :
           value' = value + delta /\ n' = [n EXCEPT ![p] = delta]
    BY <1>12 DEF SemRelease
  <2>2. delta \in 0 .. MaxValue + 1 /\ value' \in 0 .. MaxValue
    BY <1>0, <1>t, <2>1
  <2>3. TypeOK'
    BY <1>0, <1>12, <2>1, <2>2 DEF SemRelease, TypeOK, Label, Request, Result
  <2> QED
    BY <1>12, <2>1, <2>3, <1>0, <1>t, BaseMove DEF SemRelease
<1>13. ASSUME NEW p \in Proc, semwakeup(p) PROVE Base'
  <2>1. TypeOK'
    BY <1>0, <1>13 DEF semwakeup, TypeOK, Label, Request, Result
  <2>2. LockInv' /\ ListInv' /\ ScanInv'
    BY <1>0, <1>t, <1>13 DEF semwakeup, LockInv, ListInv, ScanInv
  <2> QED
    BY <2>1, <2>2 DEF Base
<1>14. ASSUME NEW p \in Proc, Scan(p) PROVE Base'
  <2>1. list[i[p]] \in Proc
    BY <1>0, <1>t, <1>14 DEF Scan
  <2>2. TypeOK'
    <3>1. /\ waiting' \in [Proc -> BOOLEAN] /\ i' \in [Proc -> Nat]
          /\ pc' \in [Proc -> Label]
      <4>1. waiting' = [waiting EXCEPT ![list[i[p]]] = FALSE] \/ waiting' = waiting
        BY <1>14 DEF Scan, TypeOK, Label, Request, Result
      <4>2. waiting' \in [Proc -> BOOLEAN]
        BY <1>0, <2>1, <4>1 DEF TypeOK, Label, Request, Result
      <4>3. i' \in [Proc -> Nat]
        <5>1. i' = i \/ i' = [i EXCEPT ![p] = @ + 1]
          BY <1>14 DEF Scan, TypeOK, Label, Request, Result
        <5>2. i \in [Proc -> Nat] /\ i[p] + 1 \in Nat
          BY <1>0 DEF TypeOK, Label, Request, Result
        <5> QED
          BY <5>1, <5>2 DEF TypeOK, Label, Request, Result
      <4>4. pc' \in [Proc -> Label]
        <5>1. pc' = [pc EXCEPT ![p] = "wake"] \/ pc' = pc
          BY <1>14 DEF Scan, TypeOK, Label, Request, Result
        <5> QED
          BY <1>0, <5>1 DEF TypeOK, Label, Request, Result
      <4> QED
        BY <4>2, <4>3, <4>4 DEF TypeOK, Label, Request, Result
    <3> QED
      BY <1>0, <1>14, <3>1 DEF Scan, TypeOK, Label, Request, Result
  <2>3. UNCHANGED <<sema, list>> /\ (pc' = [pc EXCEPT ![p] = "wake"] \/ pc' = pc)
    BY <1>14 DEF Scan
  <2>4. LockInv' /\ ListInv'
    BY <1>0, <1>t, <1>14, <2>3 DEF Scan, LockInv, ListInv
  <2>5. ScanInv'
    <3> SUFFICES ASSUME NEW q \in Proc
                 PROVE  /\ i'[q] > 0
                        /\ pc'[q] = "wake" => i'[q] \in DOMAIN list' /\ n'[q] > 0
      BY DEF ScanInv
    <3>1. i[q] \in Nat /\ i[q] > 0 /\ (pc[q] = "wake" => i[q] \in DOMAIN list /\ n[q] > 0)
      BY <1>0, <1>t DEF ScanInv
    <3>2. CASE q # p
      BY <1>0, <1>t, <1>14, <3>1, <3>2 DEF Scan
    <3>3. CASE q = p
      BY <1>0, <1>t, <1>14, <3>1, <3>3 DEF Scan
    <3> QED
      BY <3>2, <3>3
  <2> QED
    BY <2>2, <2>3, <2>4, <2>5 DEF Base
<1>15. ASSUME NEW p \in Proc, Wakeup(p) PROVE Base'
  <2>1. i[p] \in DOMAIN list /\ list[i[p]] \in Proc /\ n[p] > 0
    BY <1>0, <1>t, <1>15 DEF Wakeup, ScanInv
  <2>2. TypeOK'
    <3>1. n' \in [Proc -> 0 .. MaxValue + 1] /\ i' \in [Proc -> Nat]
      <4>1. n' = [n EXCEPT ![p] = @ - 1] /\ i' = [i EXCEPT ![p] = @ + 1]
        BY <1>15 DEF Wakeup, TypeOK, Label, Request, Result
      <4>2. n[p] - 1 \in 0 .. MaxValue + 1 /\ n \in [Proc -> 0 .. MaxValue + 1]
        BY <1>0, <2>1 DEF TypeOK, Label, Request, Result
      <4>3. i[p] + 1 \in Nat /\ i \in [Proc -> Nat]
        BY <1>0 DEF TypeOK, Label, Request, Result
      <4>4. n' \in [Proc -> 0 .. MaxValue + 1]
        BY <4>1, <4>2 DEF TypeOK, Label, Request, Result
      <4>5. i' \in [Proc -> Nat]
        BY <4>1, <4>3 DEF TypeOK, Label, Request, Result
      <4> QED
        BY <4>4, <4>5 DEF TypeOK, Label, Request, Result
    <3>2. pc' \in [Proc -> Label]
      BY <1>0, <1>15, <2>1 DEF Wakeup, TypeOK, Label, Request, Result
    <3> QED
      BY <1>0, <1>15, <3>1, <3>2 DEF Wakeup, TypeOK, Label, Request, Result
  <2>3. \A q \in Proc : pc'[q] = IF q = p THEN "scan"
                       ELSE IF q = list[i[p]] /\ pc[q] = "asleep" THEN "woke"
                       ELSE pc[q]
    BY <1>0, <1>t, <1>15, <2>1 DEF Wakeup, LockInv
  <2>4. LockInv'
    BY <1>0, <1>t, <1>15, <2>3 DEF Wakeup, LockInv
  <2>5. ListInv'
    BY <1>0, <1>t, <1>15, <2>3 DEF Wakeup, ListInv
  <2>6. ScanInv'
    BY <1>0, <1>t, <1>15, <2>3 DEF Wakeup, ScanInv
  <2> QED
    BY <2>2, <2>4, <2>5, <2>6 DEF Base
<1>16. ASSUME NEW p \in Proc, ScanDone(p) PROVE Base'
  <2>1. TypeOK'
    BY <1>0, <1>16 DEF ScanDone, TypeOK, Label, Request, Result
  <2>2. LockInv' /\ ListInv' /\ ScanInv'
    BY <1>0, <1>t, <1>16 DEF ScanDone, LockInv, ListInv, ScanInv
  <2> QED
    BY <2>1, <2>2 DEF Base
<1>17. CASE UNCHANGED vars
  BY <1>0, <1>17 DEF vars, Base, TypeOK, LockInv, ListInv, ScanInv
<1> QED
  BY <1>1, <1>2, <1>3, <1>4, <1>5, <1>6, <1>7, <1>8, <1>9, <1>10, <1>11, <1>12, <1>13,
     <1>14, <1>15, <1>16, <1>17 DEF Next, Step
-----------------------------------------------------------------------------
(* A wakeup that has been claimed arrives.                                 *)

Claimed == \A p \in Proc : Asleep(p) /\ ~waiting[p] =>
             \E q \in Proc : pc[q] = "wake" /\ list[i[q]] = p

(* A step that wakes nobody, and lets only p change place or waiting: p    *)
(* goes to sleep, or stays asleep, only if it waits.                       *)
LEMMA ClaimedMove ==
  ASSUME Base, Claimed, NEW p \in Proc, UNCHANGED <<list, i>>,
         \A q \in Proc \ {p} : pc'[q] = pc[q] /\ waiting'[q] = waiting[q],
         pc[p] # "wake", pc'[p] = "asleep" => waiting'[p]
  PROVE  Claimed'
BY DEF Claimed, Asleep

LEMMA ClaimedStep == Base /\ Base' /\ Claimed /\ [Next]_vars => Claimed'
<1> SUFFICES ASSUME Base, Base', Claimed, [Next]_vars PROVE Claimed'
  OBVIOUS
<1> USE DEF Goto, Becomes
<1>0. /\ pc \in [Proc -> Label] /\ waiting \in [Proc -> BOOLEAN]
      /\ i \in [Proc -> Nat] /\ n \in [Proc -> 0 .. MaxValue + 1]
      /\ list \in Seq(Proc)
  BY DEF Base, TypeOK
<1>1. ASSUME NEW p \in Proc, SemAcquireCall(p) PROVE Claimed'
  BY <1>0, <1>1, ClaimedMove DEF SemAcquireCall
<1>2. ASSUME NEW p \in Proc, SemAcquireFirst(p) PROVE Claimed'
  BY <1>0, <1>2, ClaimedMove DEF SemAcquireFirst
<1>3. ASSUME NEW p \in Proc, semqueue(p) PROVE Claimed'
  <2>1. \A q \in Proc : pc[q] # "wake"
    BY <1>3, NoProcAssumption DEF semqueue, Base, LockInv
  <2> QED
    BY <1>0, <1>3, <2>1 DEF semqueue, Claimed, Asleep
<1>4. ASSUME NEW p \in Proc, SetWaiting(p) PROVE Claimed'
  BY <1>0, <1>4, ClaimedMove DEF SetWaiting
<1>5. ASSUME NEW p \in Proc, TryAgain(p) PROVE Claimed'
  BY <1>0, <1>5, ClaimedMove DEF TryAgain
<1>6. ASSUME NEW p \in Proc, Sleep(p) PROVE Claimed'
  BY <1>0, <1>6, ClaimedMove DEF Sleep
<1>7. ASSUME NEW p \in Proc, TimerWakes(p) PROVE Claimed'
  BY <1>0, <1>7, ClaimedMove DEF TimerWakes
<1>8. ASSUME NEW p \in Proc, PostNote(p) PROVE Claimed'
  BY <1>0, <1>8, ClaimedMove DEF PostNote
<1>9. ASSUME NEW p \in Proc, SleepReturn(p) PROVE Claimed'
  BY <1>0, <1>9, ClaimedMove DEF SleepReturn
<1>10. ASSUME NEW p \in Proc, semdequeue(p) PROVE Claimed'
  <2>1. \A q \in Proc : pc[q] # "wake"
    BY <1>10, NoProcAssumption DEF semdequeue, Base, LockInv
  <2> QED
    BY <1>0, <1>10, <2>1 DEF semdequeue, Claimed, Asleep
<1>11. ASSUME NEW p \in Proc, PassOn(p) PROVE Claimed'
  BY <1>0, <1>11, ClaimedMove DEF PassOn
<1>12. ASSUME NEW p \in Proc, SemRelease(p) PROVE Claimed'
  BY <1>0, <1>12, ClaimedMove DEF SemRelease
<1>13. ASSUME NEW p \in Proc, semwakeup(p) PROVE Claimed'
  <2>1. \A q \in Proc : pc[q] # "wake"
    BY <1>13, NoProcAssumption DEF semwakeup, Base, LockInv
  <2> QED
    BY <1>0, <1>13, <2>1 DEF semwakeup, Claimed, Asleep
<1>14. ASSUME NEW p \in Proc, Scan(p) PROVE Claimed'
  <2>1. list[i[p]] \in Proc
    BY <1>0, <1>14 DEF Scan
  <2>2. \A q \in Proc : pc[q] # "wake"
    BY <1>14 DEF Scan, Base, LockInv
  <2>3. \A q \in Proc : Asleep(q) => waiting[q]
    BY <2>2 DEF Claimed
  <2>4. CASE waiting[list[i[p]]]
    BY <1>0, <1>14, <2>1, <2>3, <2>4 DEF Scan, Claimed, Asleep
  <2>5. CASE ~waiting[list[i[p]]]
    BY <1>0, <1>14, <2>3, <2>5 DEF Scan, Claimed, Asleep
  <2> QED
    BY <2>4, <2>5
<1>15. ASSUME NEW p \in Proc, Wakeup(p) PROVE Claimed'
  <2>1. \A q \in Proc : pc[q] = "wake" => q = p
    BY <1>15 DEF Wakeup, Base, LockInv
  <2>2. \A q \in Proc : Asleep(q) /\ ~waiting[q] => list[i[p]] = q
    BY <2>1 DEF Claimed
  <2>3. list[i[p]] \in Proc
    BY <1>0, <1>15 DEF Wakeup, Base, ScanInv
  <2>4. \A q \in Proc : pc'[q] = "asleep" => pc[q] = "asleep" /\ q # list[i[p]]
    BY <1>0, <1>15, <2>3 DEF Wakeup
  <2> QED
    BY <1>15, <2>2, <2>4 DEF Wakeup, Claimed, Asleep
<1>16. ASSUME NEW p \in Proc, ScanDone(p) PROVE Claimed'
  <2>1. \A q \in Proc : pc[q] # "wake"
    BY <1>16 DEF ScanDone, Base, LockInv
  <2> QED
    BY <1>0, <1>16, <2>1 DEF ScanDone, Claimed, Asleep
<1>17. CASE UNCHANGED vars
  BY <1>17 DEF vars, Claimed, Asleep
<1> QED
  BY <1>1, <1>2, <1>3, <1>4, <1>5, <1>6, <1>7, <1>8, <1>9, <1>10, <1>11, <1>12, <1>13,
     <1>14, <1>15, <1>16, <1>17 DEF Next, Step
-----------------------------------------------------------------------------
(* The wakeups and retries under way, as p counts them                     *)

(* p is on the list, not before place k.                                   *)
Ahead(p, k) == \E j \in DOMAIN list : j >= k /\ list[j] = p

(* A releaser's that can still reach p                                     *)
Given(p, q) ==
  IF pc[q] = "wlock" THEN n[q]
  ELSE IF pc[q] = "scan" THEN IF Ahead(p, i[q]) THEN n[q] ELSE 0
  ELSE IF Ahead(p, i[q] + 1) THEN n[q] - 1 ELSE 0

(* An acquirer has one if its waiting was cleared, for it will pass it on, *)
(* and one if it is about to try.                                          *)
Retries(q) ==
  IF pc[q] = "try" THEN IF waiting[q] THEN 1 ELSE 2
  ELSE IF pc[q] \in InLoop \cup {"pass"} /\ ~waiting[q] THEN 1 ELSE 0

Count(p, q) ==
  IF pc[q] \in {"wlock", "scan", "wake"} THEN Given(p, q) ELSE Retries(q)

Counts(p) == [q \in Proc |-> Count(p, q)]

Waits(p) == pc[p] \in {"sleep", "asleep"} /\ waiting[p]
Cover == \A p \in Proc : Waits(p) => Covers(value, Counts(p))

CountsType == \A p \in Proc : Counts(p) \in [Proc -> Nat]

LEMMA CountsNat == Base => CountsType
<1> SUFFICES ASSUME Base, NEW p \in Proc, NEW q \in Proc PROVE Count(p, q) \in Nat
  BY DEF CountsType, Counts
<1>1. n[q] \in Nat /\ (pc[q] = "wake" => n[q] - 1 \in Nat)
  BY MaxValueAssumption DEF Base, TypeOK, ScanInv
<1>2. Given(p, q) \in Nat \/ pc[q] \notin {"wlock", "scan", "wake"}
  BY <1>1 DEF Given
<1>3. Retries(q) \in Nat
  BY DEF Retries
<1> QED
  BY <1>2, <1>3 DEF Count

LEMMA CountsNatNext == Base' => CountsType'
  BY CountsNat, PTL

(* A step that makes nobody wait and takes no token                        *)
LEMMA CoverMore ==
  ASSUME Base, Base', Cover, value' <= value,
         \A p \in Proc : Waits(p)' =>
           Waits(p) /\ \A q \in Proc : Count(p, q) <= Count(p, q)'
  PROVE  Cover'
<1> SUFFICES ASSUME NEW p \in Proc, Waits(p)' PROVE Covers(value', Counts(p)')
  BY DEF Cover
<1>1. Waits(p) /\ \A q \in Proc : Count(p, q) <= Count(p, q)'
  OBVIOUS
<1>2. Covers(value, Counts(p))
  BY <1>1 DEF Cover
<1>3. \A q \in Proc : Counts(p)[q] <= Counts(p)'[q]
  BY <1>1 DEF Counts
<1>4. Counts(p) \in [Proc -> Nat] /\ Counts(p)' \in [Proc -> Nat]
  BY CountsNat, CountsNatNext DEF CountsType
<1>5. value \in Nat /\ value' \in Nat
  BY MaxValueAssumption DEF Base, TypeOK
<1> QED
  BY <1>2, <1>3, <1>4, <1>5, CoversMore

(* What others count when only r moves and the list stays                  *)
LEMMA CountKept ==
  ASSUME NEW p \in Proc, NEW q \in Proc, UNCHANGED list, pc'[q] = pc[q],
         waiting'[q] = waiting[q], n'[q] = n[q], i'[q] = i[q]
  PROVE  Count(p, q)' = Count(p, q)
BY DEF Count, Given, Retries, Ahead, InLoop

LEMMA CoverMove ==
  ASSUME Base, Base', Cover, NEW r \in Proc, UNCHANGED list, value' <= value,
         \A q \in Proc \ {r} : /\ pc'[q] = pc[q] /\ waiting'[q] = waiting[q]
                               /\ n'[q] = n[q] /\ i'[q] = i[q],
         Waits(r)' => Waits(r),
         \A p \in Proc : Waits(p) => Count(p, r) <= Count(p, r)'
  PROVE  Cover'
<1>1. ASSUME NEW p \in Proc, Waits(p)' PROVE Waits(p)
  BY <1>1 DEF Waits
<1>2. ASSUME NEW p \in Proc, Waits(p), NEW q \in Proc
      PROVE  Count(p, q) <= Count(p, q)'
  <2>1. CASE q = r
    BY <1>2, <2>1
  <2>2. CASE q # r
    <3>1. Count(p, q) \in Nat
      BY CountsNat DEF CountsType, Counts
    <3> QED
      BY <2>2, <3>1, CountKept
  <2> QED
    BY <2>1, <2>2
<1> QED
  BY <1>1, <1>2, CoverMore

(* r takes a permit, and with it a token at most.                          *)
LEMMA CoverTake ==
  ASSUME Base, Base', Cover, NEW r \in Proc, UNCHANGED <<list, waiting, n, i>>,
         value > 0, value' = value - 1,
         \A q \in Proc \ {r} : pc'[q] = pc[q],
         ~Waits(r)', \A p \in Proc : Count(p, r) <= Count(p, r)' + 1
  PROVE  Cover'
<1> SUFFICES ASSUME NEW p \in Proc, Waits(p)' PROVE Covers(value', Counts(p)')
  BY DEF Cover
<1>1. Waits(p)
  BY DEF Waits
<1>2. Counts(p) \in [Proc -> Nat] /\ Counts(p)' \in [Proc -> Nat]
  BY CountsNat, CountsNatNext DEF CountsType
<1>3. ASSUME NEW q \in Proc
      PROVE  \/ Counts(p)[q] <= Counts(p)'[q]
             \/ q = r /\ Counts(p)[q] <= Counts(p)'[q] + 1
  <2>1. CASE q = r
    BY <2>1 DEF Counts
  <2>2. CASE q # r
    <3>1. Count(p, q)' = Count(p, q) /\ Count(p, q) \in Nat
      BY <1>2, <2>2, CountKept DEF Counts
    <3> QED
      BY <3>1 DEF Counts
  <2> QED
    BY <2>1, <2>2
<1>4. Covers(value, Counts(p))
  BY <1>1 DEF Cover
<1>5. value \in Nat \ {0}
  BY MaxValueAssumption DEF Base, TypeOK
<1> QED
  BY <1>2, <1>3, <1>4, <1>5, CoversTake

(* A step that moves r where it has no token, or the one it had, and does  *)
(* not change the list or who waits                                        *)
LEMMA CoverGo ==
  ASSUME Base, Base', Cover, NEW r \in Proc, UNCHANGED <<list, i, value>>,
         \A q \in Proc \ {r} : /\ pc'[q] = pc[q] /\ waiting'[q] = waiting[q]
                               /\ n'[q] = n[q],
         Waits(r)' => Waits(r),
         pc[r] \notin {"wlock", "scan", "wake"},
         pc'[r] \notin {"wlock", "scan", "wake"},
         Retries(r) <= Retries(r)'
  PROVE  Cover'
<1>1. \A p \in Proc : Count(p, r) <= Count(p, r)'
  BY DEF Count
<1>2. value \in Nat
  BY MaxValueAssumption DEF Base, TypeOK
<1> QED
  BY <1>1, <1>2, CoverMove

LEMMA CoverStep == Base /\ Base' /\ Cover /\ [Next]_vars => Cover'
<1> SUFFICES ASSUME Base, Base', Cover, [Next]_vars PROVE Cover'
  OBVIOUS
<1> USE DEF Goto, Becomes
<1>0. /\ pc \in [Proc -> Label] /\ waiting \in [Proc -> BOOLEAN]
      /\ i \in [Proc -> Nat] /\ n \in [Proc -> 0 .. MaxValue + 1]
      /\ list \in Seq(Proc) /\ value \in Nat /\ MaxValue \in Nat
  BY MaxValueAssumption DEF Base, TypeOK
<1>1. ASSUME NEW p \in Proc, SemAcquireCall(p) PROVE Cover'
  <2>1. Retries(p) <= Retries(p)'
    BY <1>0, <1>1 DEF SemAcquireCall, Retries, InLoop
  <2>2. Waits(p)' => Waits(p)
    BY <1>0, <1>1 DEF SemAcquireCall, Waits
  <2> QED
    BY <1>0, <1>1, <2>1, <2>2, CoverGo DEF SemAcquireCall
<1>2. ASSUME NEW p \in Proc, SemAcquireFirst(p) PROVE Cover'
  <2>1. CASE canacquire
    <3>1. /\ value > 0 /\ value' = value - 1 /\ pc[p] = "first"
          /\ pc'[p] \in {"idle", "queue"} /\ UNCHANGED <<list, waiting, n, i>>
          /\ \A q \in Proc \ {p} : pc'[q] = pc[q]
      BY <1>0, <1>2, <2>1 DEF SemAcquireFirst, canacquire
    <3>2. ~Waits(p)'
      BY <3>1 DEF Waits
    <3>3. \A q \in Proc : Count(q, p) = 0 /\ Count(q, p)' = 0
      BY <3>1 DEF Count, Retries, InLoop
    <3> QED
      BY <3>1, <3>2, <3>3, CoverTake
  <2>2. CASE ~canacquire
    <3>1. Retries(p) <= Retries(p)'
      BY <1>0, <1>2, <2>2 DEF SemAcquireFirst, canacquire, Retries, InLoop
    <3>2. Waits(p)' => Waits(p)
      BY <1>0, <1>2, <2>2 DEF SemAcquireFirst, canacquire, Waits
    <3> QED
      BY <1>0, <1>2, <2>2, <3>1, <3>2, CoverGo DEF SemAcquireFirst, canacquire
  <2> QED
    BY <2>1, <2>2
<1>3. ASSUME NEW p \in Proc, semqueue(p) PROVE Cover'
  <2>1. \A q \in Proc : pc[q] \notin {"scan", "wake"} /\ pc'[q] \notin {"scan", "wake"}
    BY <1>0, <1>3, NoProcAssumption DEF semqueue, Base, LockInv
  <2>2. ASSUME NEW q \in Proc, NEW x \in Proc PROVE Count(q, x) <= Count(q, x)'
    <3>1. CASE x = p
      BY <1>0, <1>3, <3>1 DEF semqueue, Count, Retries, InLoop
    <3>2. CASE x # p
      <4>1. pc'[x] = pc[x] /\ waiting'[x] = waiting[x] /\ n'[x] = n[x] /\ n[x] \in Nat
        BY <1>0, <1>3, <3>2 DEF semqueue
      <4>2. Count(q, x)' = Count(q, x)
        BY <2>1, <4>1 DEF Count, Given, Retries, InLoop
      <4>3. Count(q, x) \in Nat
        BY CountsNat DEF CountsType, Counts
      <4> QED
        BY <4>2, <4>3
    <3> QED
      BY <3>1, <3>2
  <2>3. ASSUME NEW q \in Proc, Waits(q)' PROVE Waits(q)
    BY <1>0, <1>3, <2>3 DEF semqueue, Waits
  <2> QED
    BY <1>0, <1>3, <2>2, <2>3, CoverMore DEF semqueue
<1>4. ASSUME NEW p \in Proc, SetWaiting(p) PROVE Cover'
  <2>1. Retries(p) <= Retries(p)'
    BY <1>0, <1>4 DEF SetWaiting, Retries, InLoop
  <2>2. Waits(p)' => Waits(p)
    BY <1>0, <1>4 DEF SetWaiting, Waits
  <2> QED
    BY <1>0, <1>4, <2>1, <2>2, CoverGo DEF SetWaiting
<1>5. ASSUME NEW p \in Proc, TryAgain(p) PROVE Cover'
  <2>1. CASE canacquire /\ pc' = [pc EXCEPT ![p] = "dequeue"]
    <3>1. /\ value > 0 /\ value' = value - 1 /\ pc[p] = "try"
          /\ pc'[p] = "dequeue" /\ UNCHANGED <<list, waiting, n, i>>
          /\ \A q \in Proc \ {p} : pc'[q] = pc[q]
      BY <1>0, <1>5, <2>1 DEF TryAgain, canacquire
    <3>2. ~Waits(p)'
      BY <3>1 DEF Waits
    <3>3. \A q \in Proc : Count(q, p) <= Count(q, p)' + 1
      BY <1>0, <3>1 DEF Count, Retries, InLoop
    <3> QED
      BY <3>1, <3>2, <3>3, CoverTake
  <2>2. CASE value = 0 /\ UNCHANGED value
    BY <2>2, CoversNone DEF Cover
  <2> QED
    BY <1>5, <2>1, <2>2 DEF TryAgain
<1>6. ASSUME NEW p \in Proc, Sleep(p) PROVE Cover'
  <2>1. Retries(p) <= Retries(p)'
    BY <1>0, <1>6 DEF Sleep, Retries, InLoop
  <2>2. Waits(p)' => Waits(p)
    BY <1>0, <1>6 DEF Sleep, Waits
  <2> QED
    BY <1>0, <1>6, <2>1, <2>2, CoverGo DEF Sleep
<1>7. ASSUME NEW p \in Proc, TimerWakes(p) PROVE Cover'
  <2>1. Retries(p) <= Retries(p)'
    BY <1>0, <1>7 DEF TimerWakes, Retries, InLoop
  <2>2. Waits(p)' => Waits(p)
    BY <1>0, <1>7 DEF TimerWakes, Waits
  <2> QED
    BY <1>0, <1>7, <2>1, <2>2, CoverGo DEF TimerWakes
<1>8. ASSUME NEW p \in Proc, PostNote(p) PROVE Cover'
  <2>1. Retries(p) <= Retries(p)'
    BY <1>0, <1>8 DEF PostNote, Retries, InLoop
  <2>2. Waits(p)' => Waits(p)
    BY <1>0, <1>8 DEF PostNote, Waits
  <2> QED
    BY <1>0, <1>8, <2>1, <2>2, CoverGo DEF PostNote
<1>9. ASSUME NEW p \in Proc, SleepReturn(p) PROVE Cover'
  <2>1. Retries(p) <= Retries(p)'
    BY <1>0, <1>9 DEF SleepReturn, Retries, InLoop
  <2>2. Waits(p)' => Waits(p)
    BY <1>0, <1>9 DEF SleepReturn, Waits
  <2> QED
    BY <1>0, <1>9, <2>1, <2>2, CoverGo DEF SleepReturn
<1>10. ASSUME NEW p \in Proc, semdequeue(p) PROVE Cover'
  <2>1. \A q \in Proc : pc[q] \notin {"scan", "wake"} /\ pc'[q] \notin {"scan", "wake"}
    BY <1>0, <1>10, NoProcAssumption DEF semdequeue, Base, LockInv
  <2>2. ASSUME NEW q \in Proc, NEW x \in Proc PROVE Count(q, x) <= Count(q, x)'
    <3>1. CASE x = p
      BY <1>0, <1>10, <3>1 DEF semdequeue, Count, Retries, InLoop
    <3>2. CASE x # p
      <4>1. pc'[x] = pc[x] /\ waiting'[x] = waiting[x] /\ n'[x] = n[x] /\ n[x] \in Nat
        BY <1>0, <1>10, <3>2 DEF semdequeue
      <4>2. Count(q, x)' = Count(q, x)
        BY <2>1, <4>1 DEF Count, Given, Retries, InLoop
      <4>3. Count(q, x) \in Nat
        BY CountsNat DEF CountsType, Counts
      <4> QED
        BY <4>2, <4>3
    <3> QED
      BY <3>1, <3>2
  <2>3. ASSUME NEW q \in Proc, Waits(q)' PROVE Waits(q)
    BY <1>0, <1>10, <2>3 DEF semdequeue, Waits
  <2> QED
    BY <1>0, <1>10, <2>2, <2>3, CoverMore DEF semdequeue
<1>11. ASSUME NEW p \in Proc, PassOn(p) PROVE Cover'
  <2>1. CASE waiting[p]
    <3>1. Retries(p) <= Retries(p)'
      BY <1>0, <1>11, <2>1 DEF PassOn, Retries, InLoop
    <3>2. Waits(p)' => Waits(p)
      BY <1>0, <1>11, <2>1 DEF PassOn, Waits
    <3> QED
      BY <1>0, <1>11, <2>1, <3>1, <3>2, CoverGo DEF PassOn
  <2>2. CASE ~waiting[p]
    <3>1. /\ pc[p] = "pass" /\ pc'[p] = "wlock" /\ n'[p] = 1
          /\ UNCHANGED <<list, i, value>>
          /\ \A q \in Proc \ {p} : /\ pc'[q] = pc[q] /\ waiting'[q] = waiting[q]
                                   /\ n'[q] = n[q] /\ i'[q] = i[q]
      BY <1>0, <1>11, <2>2 DEF PassOn
    <3>2. \A q \in Proc : Count(q, p) = 1 /\ Count(q, p)' = 1
      BY <2>2, <3>1 DEF Count, Given, Retries, InLoop
    <3>3. ~Waits(p)' /\ value' <= value
      BY <1>0, <3>1 DEF Waits
    <3> QED
      BY <3>1, <3>2, <3>3, CoverMove
  <2> QED
    BY <2>1, <2>2
<1>12. ASSUME NEW p \in Proc, SemRelease(p) PROVE Cover'
  <2>1. PICK delta \in 1 .. MaxValue - value :
           value' = value + delta /\ n' = [n EXCEPT ![p] = delta]
    BY <1>12 DEF SemRelease
  <2>2. delta \in Nat
    BY <1>0, <2>1
  <2>3. /\ pc[p] = "idle" /\ pc'[p] = "wlock" /\ n'[p] = delta
        /\ UNCHANGED <<list, i, waiting>>
        /\ \A q \in Proc \ {p} : pc'[q] = pc[q] /\ n'[q] = n[q]
    BY <1>0, <1>12, <2>1 DEF SemRelease
  <2> SUFFICES ASSUME NEW q \in Proc, Waits(q)' PROVE Covers(value', Counts(q)')
    BY DEF Cover
  <2>4. Waits(q)
    BY <2>3 DEF Waits
  <2>5. Counts(q) \in [Proc -> Nat] /\ Counts(q)' \in [Proc -> Nat]
    BY CountsNat, CountsNatNext DEF CountsType
  <2>6. Counts(q)[p] = 0 /\ Counts(q)'[p] = delta
    BY <2>3 DEF Counts, Count, Given, Retries, InLoop
  <2>7. ASSUME NEW x \in Proc PROVE Counts(q)[x] <= Counts(q)'[x]
    <3>1. CASE x = p
      BY <2>2, <2>6, <3>1
    <3>2. CASE x # p
      <4>1. Count(q, x)' = Count(q, x) /\ Count(q, x) \in Nat
        BY <2>3, <2>5, <3>2, CountKept DEF Counts
      <4> QED
        BY <4>1 DEF Counts
    <3> QED
      BY <3>1, <3>2
  <2>8. Covers(value, Counts(q))
    BY <2>4 DEF Cover
  <2>9. Counts(q)[p] + delta <= Counts(q)'[p]
    BY <2>2, <2>6
  <2>10. Covers(value + delta, Counts(q)')
    BY <1>0, <2>2, <2>5, <2>7, <2>8, <2>9, CoversGive
  <2> QED
    BY <2>1, <2>10
<1>13. ASSUME NEW p \in Proc, semwakeup(p) PROVE Cover'
  <2>1. /\ pc[p] = "wlock" /\ pc'[p] = "scan" /\ i'[p] = 1
        /\ UNCHANGED <<list, n, waiting, value>>
        /\ \A q \in Proc \ {p} : pc'[q] = pc[q] /\ i'[q] = i[q]
    BY <1>0, <1>13 DEF semwakeup
  <2>2. ASSUME NEW q \in Proc, Waits(q) PROVE Count(q, p) <= Count(q, p)'
    <3>1. On(list, q)
      BY <2>2 DEF Waits, Base, ListInv, InLoop
    <3>2. Ahead(q, 1)' /\ n[p] \in Nat
      BY <1>0, <2>1, <3>1 DEF Ahead, On
    <3> QED
      BY <2>1, <3>2 DEF Count, Given
  <2>3. ~Waits(p)' /\ value' <= value
    BY <1>0, <2>1 DEF Waits
  <2> QED
    BY <2>1, <2>2, <2>3, CoverMove
<1>14. ASSUME NEW p \in Proc, Scan(p) PROVE Cover'
  <2>1. /\ pc[p] = "scan" /\ i[p] \in DOMAIN list /\ i[p] \in Nat
        /\ list[i[p]] \in Proc /\ n[p] \in Nat /\ n[p] > 0
        /\ DOMAIN list \subseteq Nat /\ UNCHANGED <<list, n, value>>
    BY <1>0, <1>14 DEF Scan
  <2> PICK x \in Proc : x = list[i[p]]
    BY <2>1
  <2>2. pc[x] \in InLoop /\ x # p
    BY <2>1 DEF Base, ListInv, On, InLoop
  <2>3. ASSUME NEW q \in Proc, q # x
        PROVE  Ahead(q, i[p]) <=> Ahead(q, i[p] + 1)
    BY <2>1, <2>3 DEF Ahead
  <2>4. CASE waiting[x]
    <3>1. /\ waiting' = [waiting EXCEPT ![x] = FALSE]
          /\ pc' = [pc EXCEPT ![p] = "wake"] /\ UNCHANGED i
      BY <1>14, <2>4 DEF Scan
    <3> SUFFICES ASSUME NEW q \in Proc, Waits(q)' PROVE Covers(value', Counts(q)')
      BY DEF Cover
    <3>2. Waits(q) /\ q # x
      BY <1>0, <2>1, <3>1 DEF Waits
    <3>3. Counts(q) \in [Proc -> Nat] /\ Counts(q)' \in [Proc -> Nat]
      BY CountsNat, CountsNatNext DEF CountsType
    <3>4. Count(q, p) <= Count(q, p)' + 1
      <4>1. Ahead(q, i[p])' <=> Ahead(q, i[p])
        BY <2>1, <3>1 DEF Ahead
      <4>2. Ahead(q, i[p] + 1)' <=> Ahead(q, i[p] + 1)
        BY <2>1, <3>1 DEF Ahead
      <4>3. pc'[p] = "wake"
        BY <1>0, <3>1
      <4>4. Count(q, p) = IF Ahead(q, i[p]) THEN n[p] ELSE 0
        BY <2>1 DEF Count, Given
      <4>5. Count(q, p)' = IF Ahead(q, i[p] + 1) THEN n[p] - 1 ELSE 0
        BY <2>1, <3>1, <4>2, <4>3 DEF Count, Given
      <4> QED
        BY <2>1, <2>3, <3>2, <4>4, <4>5
    <3>5. Count(q, x) + 1 <= Count(q, x)'
      <4>1. pc'[x] = pc[x] /\ waiting'[x] = FALSE
        BY <1>0, <2>1, <2>2, <3>1
      <4> QED
        BY <2>2, <2>4, <4>1 DEF Count, Retries, InLoop
    <3>6. ASSUME NEW y \in Proc \ {p} PROVE Count(q, y) <= Count(q, y)'
      <4>1. Count(q, y) \in Nat /\ Count(q, y)' \in Nat
        BY <3>3 DEF Counts
      <4>2. CASE y = x
        BY <3>5, <4>1, <4>2
      <4>3. CASE y # x
        <5>1. Count(q, y)' = Count(q, y)
          BY <1>0, <2>1, <3>1, <4>3, CountKept
        <5> QED
          BY <4>1, <5>1
      <4> QED
        BY <4>2, <4>3
    <3>7. Covers(value, Counts(q))
      BY <3>2 DEF Cover
    <3>8. /\ \A y \in Proc \ {p} : Counts(q)[y] <= Counts(q)'[y]
          /\ Counts(q)[p] <= Counts(q)'[p] + 1
          /\ Counts(q)[x] + 1 <= Counts(q)'[x]
      BY <2>1, <3>4, <3>5, <3>6 DEF Counts
    <3> QED
      BY <1>0, <2>1, <2>2, <3>3, <3>7, <3>8, CoversMove
  <2>5. CASE ~waiting[x]
    <3>1. i' = [i EXCEPT ![p] = @ + 1] /\ UNCHANGED <<waiting, pc>>
      BY <1>14, <2>5 DEF Scan
    <3>2. ASSUME NEW q \in Proc, Waits(q) PROVE Count(q, p) <= Count(q, p)'
      <4>1. q # x
        BY <2>5, <3>2 DEF Waits
      <4>2. i'[p] = i[p] + 1
        BY <1>0, <3>1
      <4>3. Ahead(q, i[p])' <=> Ahead(q, i[p] + 1)
        BY <2>1, <4>2 DEF Ahead
      <4>4. Count(q, p)' = Count(q, p)
        BY <2>1, <2>3, <3>1, <4>1, <4>3 DEF Count, Given
      <4>5. Count(q, p) \in Nat
        BY CountsNat DEF CountsType, Counts
      <4> QED
        BY <4>4, <4>5
    <3>3. Waits(p)' => Waits(p)
      BY <3>1 DEF Waits
    <3> QED
      BY <1>0, <2>1, <3>1, <3>2, <3>3, CoverMove
  <2> QED
    BY <2>4, <2>5
<1>15. ASSUME NEW p \in Proc, Wakeup(p) PROVE Cover'
  <2> DEFINE x == list[i[p]]
  <2>1. /\ pc[p] = "wake" /\ i[p] \in DOMAIN list /\ x \in Proc
        /\ UNCHANGED <<list, waiting, value>>
    BY <1>0, <1>15 DEF Wakeup, Base, ScanInv
  <2>2. x # p
    BY <2>1 DEF Base, ListInv, On, InLoop
  <2>3. /\ n'[p] = n[p] - 1 /\ i'[p] = i[p] + 1 /\ pc'[p] = "scan"
        /\ pc'[x] = (IF pc[x] = "asleep" THEN "woke" ELSE pc[x])
        /\ \A q \in Proc \ {p} : n'[q] = n[q] /\ i'[q] = i[q]
        /\ \A q \in Proc \ {p, x} : pc'[q] = pc[q]
    BY <1>0, <1>15, <2>1, <2>2 DEF Wakeup
  <2>4. pc[x] \in InLoop
    BY <2>1 DEF Base, ListInv, On
  <2> HIDE DEF x
  <2>5. ASSUME NEW q \in Proc, NEW y \in Proc PROVE Count(q, y)' = Count(q, y)
    <3>1. CASE y = p
      BY <2>1, <2>3, <3>1 DEF Count, Given, Ahead
    <3>2. CASE y = x
      BY <2>1, <2>2, <2>3, <2>4, <3>2 DEF Count, Retries, InLoop
    <3>3. CASE y # p /\ y # x
      BY <2>1, <2>3, <3>3, CountKept
    <3> QED
      BY <3>1, <3>2, <3>3
  <2>6. ASSUME NEW q \in Proc, Waits(q)' PROVE Waits(q)
    BY <2>1, <2>3, <2>6 DEF Waits
  <2>7. \A q \in Proc, y \in Proc : Count(q, y) <= Count(q, y)'
    BY <2>5, CountsNat DEF CountsType, Counts
  <2> QED
    BY <1>0, <2>1, <2>6, <2>7, CoverMore
<1>16. ASSUME NEW p \in Proc, ScanDone(p) PROVE Cover'
  <2>1. /\ pc[p] = "scan" /\ pc'[p] = "idle" /\ UNCHANGED <<list, waiting, value>>
        /\ i[p] \notin DOMAIN list \/ n[p] = 0
        /\ \A q \in Proc \ {p} : pc'[q] = pc[q] /\ n'[q] = n[q] /\ i'[q] = i[q]
    BY <1>0, <1>16 DEF ScanDone
  <2>2. ASSUME NEW q \in Proc PROVE Count(q, p) = 0
    <3>1. i[p] \notin DOMAIN list => ~Ahead(q, i[p])
      <4>1. i[p] \in Nat /\ i[p] > 0 /\ DOMAIN list = 1 .. Len(list) /\ Len(list) \in Nat
        BY <1>0 DEF Base, ScanInv
      <4> QED
        BY <4>1 DEF Ahead
    <3> QED
      BY <2>1, <3>1 DEF Count, Given
  <2>3. ASSUME NEW q \in Proc PROVE Count(q, p)' = 0
    BY <2>1 DEF Count, Retries, InLoop
  <2>4. \A q \in Proc : Count(q, p) <= Count(q, p)'
    BY <2>2, <2>3
  <2>5. ~Waits(p)' /\ value' <= value
    BY <1>0, <2>1 DEF Waits
  <2> QED
    BY <2>1, <2>4, <2>5, CoverMove
<1>17. CASE UNCHANGED vars
  <2>1. UNCHANGED <<list, value, i, n, pc, waiting>>
    BY <1>17 DEF vars
  <2>2. \A q \in Proc, y \in Proc : Count(q, y)' = Count(q, y)
    BY <2>1, CountKept
  <2>3. \A q \in Proc, y \in Proc : Count(q, y) <= Count(q, y)'
    BY <2>2, CountsNat DEF CountsType, Counts
  <2>4. \A q \in Proc : Waits(q)' => Waits(q)
    BY <2>1 DEF Waits
  <2> QED
    BY <1>0, <2>1, <2>3, <2>4, CoverMore
<1> QED
  BY <1>1, <1>2, <1>3, <1>4, <1>5, <1>6, <1>7, <1>8, <1>9, <1>10, <1>11, <1>12, <1>13,
     <1>14, <1>15, <1>16, <1>17 DEF Next, Step

(* A permit beside a sleeper: there is a token, and whoever has it is on   *)
(* its way.                                                                *)
LEMMA InvMeans == Base /\ Claimed /\ Cover => WakeupsArrive
<1> SUFFICES ASSUME Base, Claimed, Cover PROVE WakeupsArrive
  OBVIOUS
<1>1. TypeOK
  BY DEF Base
<1>2. \A q \in Proc : pc[q] = "wake" => i[q] \in DOMAIN list /\ n[q] > 0
  BY DEF Base, ScanInv
<1>3. ClearedIsWoken
  BY <1>2 DEF ClearedIsWoken, Claimed
<1>4. ASSUME value > 0, NEW p \in Proc, Asleep(p)
      PROVE  \E q \in Proc :
               \/ pc[q] \in {"set", "try", "woke"}
               \/ pc[q] \in {"sleep", "dequeue", "pass"} /\ ~waiting[q]
               \/ pc[q] \in {"wlock", "scan", "wake"} /\ n[q] > 0
  <2>1. (\E q \in Proc : pc[q] = "wake") \/ \A q \in Proc : Asleep(q) => waiting[q]
    BY DEF Claimed
  <2>2. CASE \E q \in Proc : pc[q] = "wake"
    BY <1>2, <2>2
  <2>3. CASE \A q \in Proc : Asleep(q) => waiting[q]
    <3>1. Covers(value, Counts(p))
      BY <1>4, <2>3 DEF Cover, Waits, Asleep
    <3>2. value \in Nat \ {0} /\ Counts(p) \in [Proc -> Nat]
      BY <1>1, <1>4, CountsNat, MaxValueAssumption DEF CountsType, TypeOK
    <3>3. PICK q \in Proc : Count(p, q) > 0
      BY <3>1, <3>2, CoversOne DEF Counts
    <3>4. CASE pc[q] \in {"wlock", "scan", "wake"}
      <4>1. n[q] \in Nat
        BY <1>1, MaxValueAssumption DEF TypeOK
      <4>2. n[q] > 0
        BY <3>3, <3>4, <4>1 DEF Count, Given
      <4> QED
        BY <3>4, <4>2
    <3>5. CASE pc[q] \notin {"wlock", "scan", "wake"}
      BY <2>3, <3>3, <3>5 DEF Count, Retries, InLoop, Asleep
    <3> QED
      BY <3>4, <3>5
  <2> QED
    BY <2>1, <2>2, <2>3
<1> QED
  BY <1>1, <1>3, <1>4 DEF WakeupsArrive, NoMissedWakeup

(* No wakeup is missed or lost between a release and an acquirer           *)
(* (sysproc.c:950-966, 1015-1034), for any number of processes, permits,   *)
(* notes and timeouts.                                                     *)
THEOREM SemaphoreWakeupsArrive == Spec => []WakeupsArrive
<1>1. Init => Base /\ Claimed /\ Cover
  BY BaseInit DEF Init, Claimed, Asleep, Cover, Waits
<1>2. Base /\ Claimed /\ Cover /\ [Next]_vars => (Base /\ Claimed /\ Cover)'
  BY BaseStep, ClaimedStep, CoverStep
<1> QED
  BY <1>1, <1>2, InvMeans, PTL DEF Spec
-----------------------------------------------------------------------------
(* Refinement of the atomic semaphore                                      *)

(* Where a process is says whether its call was answered; only one that    *)
(* does not poll goes to wait.                                             *)
Waiting == {"queue", "set", "try", "sleep", "asleep", "woke"}
Answered == {"idle", "dequeue", "pass", "wlock", "scan", "wake"}
CallInv ==
  \A p \in Proc : /\ pc[p] = "first" => call[p] \in Request
                  /\ pc[p] \in Waiting => call[p] \in Request \ {"poll"}
                  /\ pc[p] \in Answered => call[p] \in Result

(* A step between places of one kind that answers nothing.                 *)
LEMMA CallKept ==
  ASSUME CallInv, UNCHANGED call,
         \A p \in Proc : \/ pc'[p] = pc[p]
                         \/ pc[p] \in Waiting /\ pc'[p] \in Waiting
                         \/ pc[p] \in Answered /\ pc'[p] \in Answered
  PROVE  CallInv'
  BY DEF CallInv, Waiting, Answered

(* A step of p that asks, or answers, or leaves the call as it was.        *)
LEMMA CallMoves ==
  ASSUME TypeOK, CallInv, NEW p \in Proc, NEW l \in Label, Goto(p, l),
         NEW c \in Request \cup Result, call' = [call EXCEPT ![p] = c],
         \/ l = "first" /\ c \in Request
         \/ l \in Waiting /\ c \in Request \ {"poll"}
         \/ l \in Answered /\ c \in Result
  PROVE  CallInv'
<1>1. /\ \A q \in Proc : pc'[q] = IF q = p THEN l ELSE pc[q]
      /\ \A q \in Proc : call'[q] = IF q = p THEN c ELSE call[q]
  BY DEF TypeOK, Goto
<1>2. \A q \in Proc : q # p => pc'[q] = pc[q] /\ call'[q] = call[q]
  BY <1>1
<1>3. pc'[p] = l /\ call'[p] = c
  BY <1>1
<1> QED
  BY <1>2, <1>3 DEF CallInv, Waiting, Answered

(* Each step of semacquire and semrelease is one of the atomic semaphore,  *)
(* or changes neither the value nor a call.                                *)
LEMMA AbsStep ==
  Base /\ CallInv /\ [Next]_vars => CallInv' /\ [Abs!Next]_(Abs!vars)
<1> SUFFICES ASSUME Base, CallInv, [Next]_vars
             PROVE  CallInv' /\ [Abs!Next]_(Abs!vars)
  OBVIOUS
<1>t. TypeOK /\ MaxValue \in Nat
  BY MaxValueAssumption DEF Base
<1>s. UNCHANGED <<value, call>> => [Abs!Next]_(Abs!vars)
  BY DEF Abs!vars
(* a step of p to l, in which nothing is asked or answered                 *)
<1>q. ASSUME NEW p \in Proc, NEW l \in Label, Goto(p, l), UNCHANGED <<value, call>>,
             \/ pc[p] \in Waiting /\ l \in Waiting
             \/ pc[p] \in Answered /\ l \in Answered
      PROVE  CallInv' /\ [Abs!Next]_(Abs!vars)
  <2>1. \A q \in Proc : pc'[q] = IF q = p THEN l ELSE pc[q]
    BY <1>q, <1>t DEF TypeOK, Goto
  <2> QED
    BY <1>q, <1>s, <2>1, CallKept
<1>1. ASSUME NEW p \in Proc, SemAcquireCall(p) PROVE CallInv' /\ [Abs!Next]_(Abs!vars)
  <2>1. PICK c \in Request : call' = [call EXCEPT ![p] = c]
    BY <1>1, AsksAssumption DEF SemAcquireCall, Becomes, Request
  <2>2. Goto(p, "first") /\ call[p] \in Result /\ UNCHANGED value
    BY <1>1 DEF SemAcquireCall, CallInv, Answered
  <2>3. CallInv'
    BY <1>t, <2>1, <2>2, CallMoves DEF Label
  <2>4. Abs!Ask(p)
    BY <2>1, <2>2 DEF Abs!Ask, Abs!Request, Abs!Result, Request, Result
  <2> QED
    BY <2>3, <2>4 DEF Abs!Next
<1>2. ASSUME NEW p \in Proc, SemRelease(p) PROVE CallInv' /\ [Abs!Next]_(Abs!vars)
  <2>1. /\ Goto(p, "wlock") /\ call[p] \in Result
        /\ call' = [call EXCEPT ![p] = "released"]
    BY <1>2 DEF SemRelease, Becomes, CallInv, Answered
  <2>2. value' > value
    BY <1>2, <1>t DEF SemRelease, TypeOK
  <2>3. CallInv'
    BY <1>t, <2>1, CallMoves DEF Label, Answered, Result
  <2>4. Abs!Release(p)
    BY <2>1, <2>2 DEF Abs!Release, Abs!Result, Result
  <2> QED
    BY <2>3, <2>4 DEF Abs!Next
(* canacquire succeeds                                                     *)
<1>3. ASSUME NEW p \in Proc, NEW l \in {"idle", "dequeue"}, canacquire,
             Becomes(p, "acquired"), Goto(p, l), pc[p] \in {"first", "try"}
      PROVE  CallInv' /\ [Abs!Next]_(Abs!vars)
  <2>1. CallInv'
    BY <1>3, <1>t, CallMoves DEF Becomes, Label, Answered, Result
  <2>2. call[p] \in Request
    BY <1>3 DEF CallInv, Waiting
  <2>3. Abs!Acquire(p)
    BY <1>3, <2>2 DEF Abs!Acquire, Abs!Answer, Abs!Request, Request, canacquire, Becomes
  <2> QED
    BY <2>1, <2>3 DEF Abs!Next
(* it fails, or the time is over                                           *)
<1>4. ASSUME NEW p \in Proc, NEW l \in {"idle", "dequeue"}, UNCHANGED value,
             Becomes(p, "failed"), Goto(p, l),
             \/ pc[p] = "first" /\ call[p] = "poll" /\ value = 0
             \/ pc[p] = "woke" /\ call[p] = "timed"
      PROVE  CallInv' /\ [Abs!Next]_(Abs!vars)
  <2>1. CallInv'
    BY <1>4, <1>t, CallMoves DEF Becomes, Label, Answered, Result
  <2>2. Abs!Fail(p)
    BY <1>4 DEF Abs!Fail, Abs!Answer, Abs!Request, Becomes
  <2> QED
    BY <2>1, <2>2 DEF Abs!Next
<1>5. ASSUME NEW p \in Proc, SemAcquireFirst(p) PROVE CallInv' /\ [Abs!Next]_(Abs!vars)
  <2>1. CASE canacquire /\ Becomes(p, "acquired") /\ Goto(p, "idle")
    BY <1>3, <1>5, <2>1 DEF SemAcquireFirst
  <2>2. CASE value = 0 /\ call[p] = "poll" /\ Becomes(p, "failed") /\ Goto(p, "idle")
               /\ UNCHANGED value
    BY <1>4, <1>5, <2>2 DEF SemAcquireFirst
  <2>3. CASE call[p] # "poll" /\ Goto(p, "queue") /\ UNCHANGED <<value, call>>
    <3>1. call[p] \in Request \ {"poll"} /\ call' = [call EXCEPT ![p] = call[p]]
      BY <1>5, <1>t, <2>3 DEF SemAcquireFirst, CallInv, TypeOK
    <3>2. CallInv'
      BY <1>t, <2>3, <3>1, CallMoves DEF Label, Waiting
    <3> QED
      BY <1>s, <2>3, <3>2
  <2> QED
    BY <1>5, <2>1, <2>2, <2>3 DEF SemAcquireFirst
<1>6. ASSUME NEW p \in Proc, TryAgain(p) PROVE CallInv' /\ [Abs!Next]_(Abs!vars)
  <2>1. CASE canacquire /\ Becomes(p, "acquired") /\ Goto(p, "dequeue")
    BY <1>3, <1>6, <2>1 DEF TryAgain
  <2>2. CASE Goto(p, "sleep") /\ UNCHANGED <<value, call>>
    BY <1>6, <1>q, <2>2 DEF TryAgain, Waiting, Label
  <2> QED
    BY <1>6, <2>1, <2>2 DEF TryAgain
<1>7. ASSUME NEW p \in Proc, SleepReturn(p) PROVE CallInv' /\ [Abs!Next]_(Abs!vars)
  <2>1. CASE Becomes(p, "interrupted") /\ Goto(p, "dequeue")
    <3>1. CallInv'
      BY <1>t, <2>1, CallMoves DEF Becomes, Label, Answered, Result
    <3>2. call[p] \in Request \ {"poll"} /\ UNCHANGED value
      BY <1>7 DEF SleepReturn, CallInv, Waiting
    <3>3. Abs!Interrupt(p)
      BY <2>1, <3>2 DEF Abs!Interrupt, Abs!Answer, Abs!Request, Request, Becomes
    <3> QED
      BY <3>1, <3>3 DEF Abs!Next
  <2>2. CASE call[p] = "timed" /\ Becomes(p, "failed") /\ Goto(p, "dequeue")
    BY <1>4, <1>7, <2>2 DEF SleepReturn
  <2>3. CASE Goto(p, "set") /\ UNCHANGED call
    BY <1>7, <1>q, <2>3 DEF SleepReturn, Waiting, Label
  <2> QED
    BY <1>7, <2>1, <2>2, <2>3 DEF SleepReturn
<1>8. ASSUME NEW p \in Proc,
             semqueue(p) \/ SetWaiting(p) \/ Sleep(p) \/ TimerWakes(p) \/ PostNote(p)
      PROVE  CallInv' /\ [Abs!Next]_(Abs!vars)
  <2>1. UNCHANGED <<value, call>> /\ pc[p] \in Waiting
    BY <1>8 DEF semqueue, SetWaiting, Sleep, TimerWakes, PostNote, Waiting
  <2>2. \E l \in Waiting : Goto(p, l)
    BY <1>8 DEF semqueue, SetWaiting, Sleep, TimerWakes, PostNote, Waiting
  <2> QED
    BY <1>q, <2>1, <2>2 DEF Waiting, Label
<1>9. ASSUME NEW p \in Proc,
             semdequeue(p) \/ PassOn(p) \/ semwakeup(p) \/ ScanDone(p)
      PROVE  CallInv' /\ [Abs!Next]_(Abs!vars)
  <2>1. UNCHANGED <<value, call>> /\ pc[p] \in Answered
    BY <1>9 DEF semdequeue, PassOn, semwakeup, ScanDone, Answered
  <2>2. \E l \in Answered : Goto(p, l)
    BY <1>9 DEF semdequeue, PassOn, semwakeup, ScanDone, Answered
  <2> QED
    BY <1>q, <2>1, <2>2 DEF Answered, Label
<1>10. ASSUME NEW p \in Proc, Scan(p) PROVE CallInv' /\ [Abs!Next]_(Abs!vars)
  <2>1. UNCHANGED <<value, call>> /\ pc[p] = "scan" /\ (Goto(p, "wake") \/ UNCHANGED pc)
    BY <1>10 DEF Scan
  <2>2. CASE Goto(p, "wake")
    BY <1>q, <2>1, <2>2 DEF Answered, Label
  <2>3. CASE UNCHANGED pc
    BY <1>s, <2>1, <2>3, CallKept
  <2> QED
    BY <2>1, <2>2, <2>3
<1>11. ASSUME NEW p \in Proc, Wakeup(p) PROVE CallInv' /\ [Abs!Next]_(Abs!vars)
  <2>1. UNCHANGED <<value, call>> /\ pc[p] = "wake"
    BY <1>11 DEF Wakeup
  <2>2. ASSUME NEW r \in Proc
        PROVE  \/ pc'[r] = pc[r]
               \/ pc[r] = "asleep" /\ pc'[r] = "woke"
               \/ r = p /\ pc'[r] = "scan"
    <3> DEFINE q == list[i[p]]
               pc1 == [pc EXCEPT ![p] = "scan"]
    <3>1. pc1 \in [Proc -> Label] /\ \A x \in Proc : pc1[x] = IF x = p THEN "scan" ELSE pc[x]
      BY <1>t DEF TypeOK, Label
    <3>2. pc' = [pc1 EXCEPT ![q] = IF pc[q] = "asleep" THEN "woke" ELSE pc[q]]
      BY <1>11 DEF Wakeup
    <3> HIDE DEF q, pc1
    <3> QED
      BY <3>1, <3>2
  <2>3. CallInv'
    BY <2>1, <2>2, CallKept DEF Waiting, Answered
  <2> QED
    BY <1>s, <2>1, <2>3
<1>12. CASE UNCHANGED vars
  BY <1>s, <1>12, CallKept DEF vars
<1> QED
  BY <1>1, <1>2, <1>5, <1>6, <1>7, <1>8, <1>9, <1>10, <1>11, <1>12 DEF Next, Step

(* semacquire, tsemacquire and semrelease implement the atomic semaphore   *)
(* (sysproc.c:968-1110): no permit is made or lost, and a call fails only  *)
(* for the reason that semacquire(2) gives, for any processes and any      *)
(* bound of the value.                                                     *)
THEOREM SemaphoreImplementsSpec == Spec => ImplementsSemaphore
<1>1. Init => Base /\ CallInv /\ Abs!Init
  BY BaseInit DEF Init, CallInv, Waiting, Answered, Result, Abs!Init
<1>2. Base /\ CallInv /\ [Next]_vars => (Base /\ CallInv)' /\ [Abs!Next]_(Abs!vars)
  BY BaseStep, AbsStep
<1> QED
  BY <1>1, <1>2, PTL DEF Spec, ImplementsSemaphore, Abs!Spec
=============================================================================
