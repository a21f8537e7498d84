-------------------------- MODULE ThreadChanProofs --------------------------
(***************************************************************************)
(* Two theorems about ThreadChan, for any threads, channels, sizes, arrays *)
(* and bounds: when the memory of a channel is freed, and that every step  *)
(* of it is one of ChanSpec, which says what callers are promised.         *)
(*                                                                         *)
(* The heart of the argument is MeetInv: a thread that waits is committed  *)
(* by one other, which does not go away before they have met; until then   *)
(* it is on the channel that it was committed on.                          *)
(***************************************************************************)
EXTENDS ThreadChan, ListLemmas

(* Its rendezvous has taken place.                                         *)
HasMet(p) == pc[p] = "back" /\ rendval[p] # Intred

(* p has committed u, or woken it in chanclose, and is yet to meet it.     *)
Meets(p, u) == on[p] = u /\ p # u /\ ~HasMet(p)

(* Where a thread is, and what it has there.  One whose tag is set waits   *)
(* and has an entry for the channel that tag names.                        *)
PlaceInv ==
  \A t \in Thread :
    /\ pc[t] = "idle" => on[t] = Nil /\ req[t] = Nil /\ closing[t] = Nil
    /\ pc[t] # "idle" => on[t] \in Thread
    /\ closing[t] # Nil => on[t] # t /\ req[t] = Nil
    /\ pc[t] # "idle" /\ closing[t] = Nil => req[t] \in Frame
    /\ t \in rendbreak => pc[t] = "asleep"
    /\ tag[t] # Nil => /\ Waits(t)
                       /\ \E i \in DOMAIN Alts(t) : Alts(t)[i].c = tag[t]

(* Whoever is on a channel waits, and names it.                            *)
EntryInv ==
  \A c \in Chan : \A w \in Entries(c) :
    Waits(w[1]) /\ w[2] \in DOMAIN Alts(w[1]) /\ Alt(w).c = c

(* A thread that waits is committed once, by one thread, and until they    *)
(* have met neither goes away.                                             *)
MeetInv ==
  /\ \A p, u \in Thread : Meets(p, u) => tag[u] # Nil /\ ~HasMet(u)
  /\ \A p, q, u \in Thread : Meets(p, u) /\ Meets(q, u) => p = q
  /\ \A u \in Thread : Waits(u) /\ HasMet(u) => tag[u] # Nil

(* One thread closes a channel, while closed says so.                      *)
CloseInv ==
  /\ \A t \in Thread : closing[t] # Nil => closed[closing[t]] = 1
  /\ \A t, u \in Thread : closing[t] = closing[u] /\ closing[t] # Nil => t = u

(* A channel is gone when nobody is on it and nobody closes it, and at     *)
(* once, if it was freed.                                                  *)
GoneInv == \A c \in gone : Entries(c) = {} /\ closed[c] # 1
FreedInv == \A c \in freed \ gone : closed[c] = 1 \/ Entries(c) # {}

(* Whoever is committed on a channel is on it until its wait is over.      *)
NamedInv ==
  \A u \in Thread : tag[u] # Nil => \E i \in Index : <<u, i>> \in Entries(tag[u])

CInv ==
  /\ TypeOK /\ PlaceInv /\ EntryInv /\ MeetInv /\ CloseInv
  /\ GoneInv /\ FreedInv /\ NamedInv
-----------------------------------------------------------------------------
(* Sets of numbers                                                         *)

(* A set of naturals that is not empty has a least element.                *)
LEMMA MinIs ==
  ASSUME NEW S, S \subseteq Nat, S # {}
  PROVE  Min(S) \in S /\ \A y \in S : Min(S) <= y
  BY LeastNat DEF Min

(* One with a bound has a greatest.                                        *)
LEMMA MaxIs ==
  ASSUME NEW n \in Nat, NEW S, S \subseteq 0..n, S # {}
  PROVE  Max(S) \in S /\ \A y \in S : y <= Max(S)
<1> DEFINE T == {n - y : y \in S}
<1>1. T \subseteq Nat /\ T # {}
  <2>1. \A y \in S : y \in 0..n /\ n - y \in Nat
    OBVIOUS
  <2> QED
    BY <2>1
<1>2. PICK x \in T : \A y \in T : x <= y
  BY <1>1, LeastNat
<1>3. PICK m \in S : x = n - m
  BY <1>2
<1>4. \A y \in S : m >= y
  <2> TAKE y \in S
  <2>1. n - m <= n - y
    BY <1>2, <1>3
  <2> QED
    BY <2>1
<1>5. Max(S) \in S /\ \A y \in S : Max(S) >= y
  BY <1>3, <1>4 DEF Max
<1> QED
  BY <1>5
-----------------------------------------------------------------------------
(* The slots of a channel                                                  *)

(* Put adds an entry and removes none.                                     *)
LEMMA PutIs ==
  ASSUME NEW S, Nil \in S, NEW q \in Seq(S), NEW w \in S
  PROVE  /\ Put(q, w) \in Seq(S)
         /\ \A x : x # Nil => (On(Put(q, w), x) <=> On(q, x) \/ x = w)
<1> DEFINE empty == {i \in DOMAIN q : q[i] = Nil}
<1>1. DOMAIN q = 1..Len(q) /\ Len(q) \in Nat
  OBVIOUS
<1>2. CASE empty = {}
  <2>1. Put(q, w) = Append(q, w)
    BY <1>2 DEF Put
  <2>2. \A x : On(Append(q, w), x) <=> On(q, x) \/ x = w
    BY AppendOn
  <2> QED
    BY <2>1, <2>2
<1>3. CASE empty # {}
  <2>1. PICK m \in DOMAIN q : m = Min(empty) /\ q[m] = Nil
    <3>1. empty \subseteq Nat
      BY <1>1
    <3>2. Min(empty) \in empty
      BY <1>3, <3>1, MinIs
    <3> QED
      BY <3>2
  <2>2. Put(q, w) = [q EXCEPT ![m] = w]
    BY <1>3, <2>1 DEF Put
  <2> DEFINE p == [q EXCEPT ![m] = w]
  <2>3. p \in Seq(S) /\ DOMAIN p = DOMAIN q /\ p[m] = w
        /\ \A i \in DOMAIN q : i # m => p[i] = q[i]
    BY <1>1, <2>1
  <2> HIDE DEF p
  <2>4. ASSUME NEW x, x # Nil PROVE On(p, x) <=> On(q, x) \/ x = w
    BY <2>1, <2>3, <2>4 DEF On
  <2> QED
    BY <2>2, <2>3, <2>4 DEF p
<1> QED
  BY <1>2, <1>3

(* The equation of the recursive function in Puts, value by value          *)
PutsRec(q, t, K, n, f) ==
  f = [i \in 0..n |-> IF i = 0 THEN q
        ELSE IF i \in K THEN Put(f[i - 1], <<t, i>>) ELSE f[i - 1]]

(* There is a function that satisfies it.                                  *)
LEMMA PutsExists ==
  ASSUME NEW S, Nil \in S, NEW q \in Seq(S), NEW t, NEW n \in Nat, NEW K,
         \A i \in K : <<t, i>> \in S
  PROVE  \E f : PutsRec(q, t, K, n, f)
<1> DEFINE g == [i \in 1..n |-> [s \in Seq(S) |-> IF i \in K THEN Put(s, <<t, i>>) ELSE s]]
<1>1. g \in [1..n -> [Seq(S) -> Seq(S)]]
  BY PutIs
<1> HIDE DEF g
<1>2. PICK f \in [0..n -> Seq(S)] : f[0] = q /\ \A i \in 1..n : f[i] = g[i][f[i - 1]]
  <2>1. PICK V : V = Seq(S)
    OBVIOUS
  <2> DEFINE Is(m, W, c, h) ==
        \E e \in [0..m -> W] : e[0] = c /\ \A i \in 1..m : e[i] = h[i][e[i - 1]]
  <2>2. \A m \in Nat : \A W : \A c \in W : \A h \in [1..m -> [W -> W]] : Is(m, W, c, h)
    BY Recursion
  <2>3. q \in V /\ g \in [1..n -> [V -> V]]
    BY <1>1, <2>1
  <2> HIDE DEF Is
  <2>4. Is(n, V, q, g)
    BY <2>2, <2>3
  <2> QED
    BY <2>1, <2>4 DEF Is
<1>3. ASSUME NEW i \in 1..n
      PROVE  f[i] = IF i \in K THEN Put(f[i - 1], <<t, i>>) ELSE f[i - 1]
  <2>1. i - 1 \in 0..n
    OBVIOUS
  <2>2. f[i - 1] \in Seq(S)
    BY <2>1
  <2> QED
    BY <1>2, <2>2 DEF g
<1>4. f = [i \in 0..n |-> f[i]]
  OBVIOUS
<1>5. \A i \in 0..n : f[i] = IF i = 0 THEN q
        ELSE IF i \in K THEN Put(f[i - 1], <<t, i>>) ELSE f[i - 1]
  <2> TAKE i \in 0..n
  <2>1. CASE i = 0
    BY <1>2, <2>1
  <2>2. CASE i # 0
    <3>1. i \in 1..n
      BY <2>2
    <3> QED
      BY <1>3, <2>2, <3>1
  <2> QED
    BY <2>1, <2>2
<1>6. f = [i \in 0..n |-> IF i = 0 THEN q
        ELSE IF i \in K THEN Put(f[i - 1], <<t, i>>) ELSE f[i - 1]]
  BY <1>4, <1>5
<1> QED
  BY <1>6 DEF PutsRec

(* x is one of t's entries in K.                                            *)
OneOf(x, t, K) == \E i \in K : x = <<t, i>>

(* alt puts the entries of K on the channel, and nothing else.             *)
LEMMA PutsIs ==
  ASSUME NEW S, Nil \in S, NEW q \in Seq(S), NEW t, NEW n \in Nat, NEW K,
         K \subseteq 1..n, \A i \in K : <<t, i>> \in S
  PROVE  /\ Puts(q, t, K, n) \in Seq(S)
         /\ \A x : x # Nil =>
              (On(Puts(q, t, K, n), x) <=> On(q, x) \/ OneOf(x, t, K))
<1> DEFINE f == CHOOSE f : PutsRec(q, t, K, n, f)
<1>1. PutsRec(q, t, K, n, f)
  BY PutsExists
<1>2. Puts(q, t, K, n) = f[n]
  BY DEF Puts, PutsRec
<1> HIDE DEF f
<1>3. f[0] = q /\ \A i \in 1..n : f[i] = IF i \in K THEN Put(f[i - 1], <<t, i>>) ELSE f[i - 1]
  <2>1. \A i \in 0..n : f[i] = IF i = 0 THEN q
        ELSE IF i \in K THEN Put(f[i - 1], <<t, i>>) ELSE f[i - 1]
    BY <1>1 DEF PutsRec
  <2>2. 0 \in 0..n /\ \A i \in 1..n : i \in 0..n /\ i # 0
    OBVIOUS
  <2> QED
    BY <2>1, <2>2
<1> DEFINE Good(i) == /\ f[i] \in Seq(S)
                      /\ \A x : x # Nil =>
                           (On(f[i], x) <=> On(q, x) \/ \E j \in K : j <= i /\ x = <<t, j>>)
           G == {i \in Nat : i <= n => Good(i)}
<1>4. 0 \in G
  BY <1>3
<1>5. ASSUME NEW i \in Nat, i \in G PROVE i + 1 \in G
  <2> SUFFICES ASSUME i + 1 <= n PROVE Good(i + 1)
    OBVIOUS
  <2>1. Good(i) /\ i + 1 \in 1..n /\ (i + 1) - 1 = i
    BY <1>5
  <2>2. \A j \in K : j <= i + 1 <=> j <= i \/ j = i + 1
    OBVIOUS
  <2>3. CASE i + 1 \in K
    <3>1. f[i + 1] = Put(f[i], <<t, i + 1>>)
      BY <1>3, <2>1, <2>3
    <3>2. f[i] \in Seq(S) /\ <<t, i + 1>> \in S
      BY <2>1, <2>3
    <3>3. PICK w \in S : w = <<t, i + 1>>
      BY <3>2
    <3>4. PICK s \in Seq(S) : s = f[i]
      BY <3>2
    <3>5. /\ Put(s, w) \in Seq(S)
          /\ \A x : x # Nil => (On(Put(s, w), x) <=> On(s, x) \/ x = w)
      BY PutIs
    <3> QED
      BY <2>1, <2>2, <2>3, <3>1, <3>3, <3>4, <3>5
  <2>4. CASE i + 1 \notin K
    <3>1. f[i + 1] = f[i]
      BY <1>3, <2>1, <2>4
    <3>2. \A j \in K : j <= i + 1 <=> j <= i
      BY <2>2, <2>4
    <3> QED
      BY <2>1, <3>1, <3>2
  <2> QED
    BY <2>3, <2>4
<1>6. n \in G
  <2> HIDE DEF G
  <2> QED
    BY <1>4, <1>5, NatInd
<1>7. Good(n)
  BY <1>6
<1> QED
  BY <1>2, <1>7 DEF OneOf
-----------------------------------------------------------------------------
(* Types                                                                   *)

(* What an array of a call is.                                             *)
LEMMA RequestIs ==
  ASSUME NEW r \in Request
  PROVE  /\ r.alts \in Arrays /\ Len(r.alts) \in Nat
         /\ DOMAIN r.alts = 1..Len(r.alts)
         /\ \A i \in DOMAIN r.alts : r.alts[i] \in Entry /\ i \in Index
         /\ 0 \in Index /\ Len(r.alts) + 1 \in Index
         /\ r.known \subseteq DOMAIN r.alts
<1>1. r.alts \in Arrays /\ r.known \subseteq DOMAIN r.alts
  BY DEF Request
<1>2. r.alts \in Seq(Entry)
  BY <1>1, ArraysAssumption
<1>3. /\ Len(r.alts) \in Nat /\ DOMAIN r.alts = 1..Len(r.alts)
      /\ \A i \in DOMAIN r.alts : r.alts[i] \in Entry
  BY <1>2
<1>4. \A i \in 1..Len(r.alts) + 1 : i \in Index
  BY <1>1 DEF Index
<1>5. 0 \in Index
  BY DEF Index
<1> QED
  BY <1>1, <1>3, <1>4, <1>5

(* What req holds for a call under way.                                    *)
LEMMA FrameIs ==
  ASSUME NEW u, req[u] \in Frame
  PROVE  /\ req[u].call \in Request /\ Alts(u) = req[u].call.alts
         /\ req[u].val \in Value
         /\ \A i \in DOMAIN Alts(u) : Alts(u)[i] \in Entry /\ Alts(u)[i].c \in Chan
                                        /\ i \in Index
<1>1. req[u].call \in Request /\ Alts(u) = req[u].call.alts /\ req[u].val \in Value
  BY DEF Frame, Alts
<1>2. \A i \in DOMAIN Alts(u) : Alts(u)[i] \in Entry /\ i \in Index
  BY <1>1, RequestIs
<1>3. \A e \in Entry : e.c \in Chan
  BY DEF Entry
<1> QED
  BY <1>1, <1>2, <1>3

(* The entries of a channel are what is in its slots.                      *)
LEMMA EntriesOn ==
  ASSUME NEW c
  PROVE  \A x : x \in Entries(c) <=> On(qentry[c], x) /\ x # Nil
  BY DEF Entries, Range, On

(* An entry is of a thread that waits, and points into its array.          *)
LEMMA EntryIs ==
  ASSUME TypeOK, PlaceInv, EntryInv, NEW c \in Chan, NEW w \in Entries(c)
  PROVE  /\ w \in Thread \X Index /\ w[1] \in Thread /\ w = <<w[1], w[2]>>
         /\ on[w[1]] = w[1] /\ closing[w[1]] = Nil /\ req[w[1]] \in Frame
         /\ pc[w[1]] # "idle"
         /\ w[2] \in DOMAIN Alts(w[1]) /\ Alts(w[1])[w[2]].c = c
<1>1. qentry[c] \in Seq(Slot)
  BY DEF TypeOK
<1>2. w \in Slot /\ w # Nil
  BY <1>1, EntriesOn DEF On
<1>3. w \in Thread \X Index
  BY <1>2 DEF Slot
<1>4. on[w[1]] = w[1] /\ w[2] \in DOMAIN Alts(w[1]) /\ Alts(w[1])[w[2]].c = c
  BY DEF EntryInv, Waits, Alt
<1>5. w[1] \in Thread /\ w = <<w[1], w[2]>> /\ w[1] # Nil
  BY <1>3, NilAssumption
<1>6. pc[w[1]] # "idle" /\ closing[w[1]] = Nil /\ req[w[1]] \in Frame
  BY <1>4, <1>5 DEF PlaceInv
<1> QED
  BY <1>3, <1>4, <1>5, <1>6

(* A thread at rest is on no channel, and nobody meets it.                 *)
LEMMA IdleIs ==
  ASSUME TypeOK, PlaceInv, EntryInv, MeetInv, NEW t \in Thread, pc[t] = "idle"
  PROVE  /\ on[t] = Nil /\ req[t] = Nil /\ closing[t] = Nil /\ tag[t] = Nil
         /\ ~Waits(t) /\ \A p \in Thread : ~Meets(p, t)
         /\ \A c \in Chan : \A w \in Entries(c) : w[1] # t
<1>1. on[t] = Nil /\ req[t] = Nil /\ closing[t] = Nil /\ t # Nil
  BY NilAssumption DEF PlaceInv
<1>2. ~Waits(t) /\ tag[t] = Nil
  BY <1>1 DEF PlaceInv, Waits
<1>3. \A p \in Thread : ~Meets(p, t)
  BY <1>2 DEF MeetInv
<1>4. \A c \in Chan : \A w \in Entries(c) : w[1] # t
  BY EntryIs
<1> QED
  BY <1>1, <1>2, <1>3, <1>4
-----------------------------------------------------------------------------
(* Steps of the rendezvous                                                 *)

Places == {"idle", "rendez", "asleep", "back"}
Offers == {"met", "Closed", Intred}

(* A step that touches neither channels nor calls, and nobody ends by it.  *)
Quiet ==
  /\ UNCHANGED <<chanvars, altvars, on, closevars, calls>>
  /\ ret' = Nil /\ ints' \in 0..MaxInts
  /\ pc' \in [Thread -> Places] /\ rendval' \in [Thread -> Offers]
  /\ rendbreak' \subseteq Thread
  /\ \A t \in Thread : pc'[t] = "idle" <=> pc[t] = "idle"
  /\ \A t \in rendbreak' : pc'[t] = "asleep"

(* It leaves all but MeetInv as it was.                                    *)
LEMMA QuietKeeps ==
  ASSUME CInv, Quiet, MeetInv'
  PROVE  CInv'
<1>1. /\ UNCHANGED buf /\ UNCHANGED closed /\ UNCHANGED freed /\ UNCHANGED gone
      /\ UNCHANGED qentry /\ UNCHANGED req /\ UNCHANGED tag /\ UNCHANGED got
      /\ UNCHANGED a /\ UNCHANGED on /\ UNCHANGED closing /\ UNCHANGED next
      /\ UNCHANGED calls
  BY DEF Quiet, chanvars, altvars, closevars
<1>2. TypeOK'
  BY <1>1 DEF CInv, TypeOK, Quiet, Places, Offers
<1>3. PlaceInv'
  BY <1>1 DEF CInv, PlaceInv, Quiet, Waits, Alts
<1>4. EntryInv'
  BY <1>1 DEF CInv, EntryInv, Waits, Alts, Alt, Entries
<1>5. CloseInv'
  BY <1>1 DEF CInv, CloseInv
<1>6. GoneInv' /\ FreedInv'
  BY <1>1 DEF CInv, GoneInv, FreedInv, Entries
<1>7. NamedInv'
  BY <1>1 DEF CInv, NamedInv, Entries
<1> QED
  BY <1>2, <1>3, <1>4, <1>5, <1>6, <1>7 DEF CInv

(* Nobody meets anybody by it.                                             *)
LEMMA QuietMeet ==
  ASSUME CInv, Quiet, \A p \in Thread : HasMet(p)' <=> HasMet(p)
  PROVE  CInv'
<1>1. UNCHANGED on /\ UNCHANGED tag
  BY DEF Quiet, altvars
<1>2. \A p, u \in Thread : Meets(p, u)' <=> Meets(p, u)
  BY <1>1 DEF Meets
<1>3. MeetInv'
  BY <1>1, <1>2 DEF CInv, MeetInv, Waits
<1> QED
  BY <1>3, QuietKeeps

(* threadint, and the breaks that it calls for                             *)
LEMMA BreakInv ==
  ASSUME CInv, _threadbreakrendez \/ \E t \in Thread : threadint(t)
  PROVE  CInv'
<1>t. /\ pc \in [Thread -> Places] /\ rendval \in [Thread -> Offers]
      /\ rendbreak \subseteq Thread /\ ints \in 0..MaxInts /\ MaxInts \in Nat
      /\ \A t \in rendbreak : pc[t] = "asleep"
  BY BoundAssumption DEF CInv, TypeOK, PlaceInv, Places, Offers
<1>1. ASSUME NEW t \in Thread, threadint(t)
      PROVE  CInv'
  <2>1. Quiet
    BY <1>1, <1>t DEF threadint, Quiet
  <2>2. \A p \in Thread : HasMet(p)' <=> HasMet(p)
    BY <1>1 DEF threadint, HasMet
  <2> QED
    BY <2>1, <2>2, QuietMeet
<1>2. CASE _threadbreakrendez
  <2>1. /\ \A t \in Thread : pc'[t] = IF t \in rendbreak THEN "back" ELSE pc[t]
        /\ \A t \in Thread : rendval'[t] = IF t \in rendbreak THEN Intred ELSE rendval[t]
        /\ pc' \in [Thread -> Places] /\ rendval' \in [Thread -> Offers]
    BY <1>2, <1>t DEF _threadbreakrendez, Places, Offers
  <2>2. rendbreak' = {} /\ ret' = Nil
        /\ UNCHANGED <<chanvars, altvars, on, closevars, bounds>>
    BY <1>2 DEF _threadbreakrendez
  <2>3. Quiet
    BY <1>t, <2>1, <2>2 DEF Quiet, bounds
  <2>4. \A p \in Thread : HasMet(p)' <=> HasMet(p)
    BY <1>t, <2>1 DEF HasMet
  <2> QED
    BY <2>3, <2>4, QuietMeet
<1> QED
  BY <1>1, <1>2

(* Going back after an interrupt                                           *)
LEMMA BackInv ==
  ASSUME CInv, NEW t \in Thread, Retry(t) \/ Again(t)
  PROVE  CInv'
<1>1. /\ pc[t] = "back" /\ rendval[t] = Intred /\ pc' = [pc EXCEPT ![t] = "rendez"]
      /\ ret' = Nil /\ UNCHANGED <<chanvars, altvars, on, closevars, rendvars, bounds>>
  BY DEF Retry, Again, Go
<1>2. /\ pc \in [Thread -> Places] /\ rendval \in [Thread -> Offers]
      /\ rendbreak \subseteq Thread /\ ints \in 0..MaxInts
      /\ \A p \in rendbreak : pc[p] = "asleep"
  BY DEF CInv, TypeOK, PlaceInv, Places, Offers
<1>3. \A p \in Thread : pc'[p] = IF p = t THEN "rendez" ELSE pc[p]
  BY <1>1, <1>2
<1>4. Quiet
  BY <1>1, <1>2, <1>3 DEF Quiet, rendvars, bounds, Places
<1>5. \A p \in Thread : HasMet(p)' <=> HasMet(p)
  BY <1>1, <1>3 DEF HasMet, rendvars
<1> QED
  BY <1>4, <1>5, QuietMeet

(* The two that are at one place are a thread that waits and the one that  *)
(* committed it.                                                           *)
LEMMA RendezvousInv ==
  ASSUME CInv, NEW t \in Thread, Rendezvous(t)
  PROVE  CInv'
<1>t. /\ pc \in [Thread -> Places] /\ rendval \in [Thread -> Offers]
      /\ rendbreak \subseteq Thread /\ ints \in 0..MaxInts
      /\ \A p \in rendbreak : pc[p] = "asleep"
  BY DEF CInv, TypeOK, PlaceInv, Places, Offers
<1>u. /\ pc[t] = "rendez" /\ ret' = Nil
      /\ UNCHANGED <<chanvars, altvars, on, closevars, bounds>>
  BY DEF Rendezvous
<1>1. CASE Go(t, "asleep") /\ UNCHANGED rendvars
  <2>1. \A p \in Thread : pc'[p] = IF p = t THEN "asleep" ELSE pc[p]
    BY <1>1, <1>t DEF Go
  <2>2. Quiet
    BY <1>1, <1>t, <1>u, <2>1 DEF Quiet, rendvars, bounds, Places, Go
  <2>3. \A p \in Thread : HasMet(p)' <=> HasMet(p)
    BY <1>1, <1>u, <2>1 DEF HasMet, rendvars
  <2> QED
    BY <2>2, <2>3, QuietMeet
<1>2. ASSUME NEW w \in Thread, pc[w] = "asleep", on[w] = on[t],
             pc' = [pc EXCEPT ![w] = "back", ![t] = "back"],
             rendval' = [rendval EXCEPT ![w] = Offer(t), ![t] = Offer(w)],
             rendbreak' = rendbreak \ {w}
      PROVE  CInv'
  <2>1. t # w
    BY <1>2, <1>u
  <2>2. Offer(t) \in Offers \ {Intred} /\ Offer(w) \in Offers \ {Intred}
    BY DEF Offer, Offers, Intred
  <2>3. /\ pc' \in [Thread -> Places]
        /\ \A p \in Thread : pc'[p] = IF p \in {t, w} THEN "back" ELSE pc[p]
    BY <1>2, <1>t, <2>1 DEF Places
  <2>4. /\ rendval' \in [Thread -> Offers]
        /\ \A p \in Thread : p \in {t, w} => rendval'[p] # Intred
        /\ \A p \in Thread : p \notin {t, w} => rendval'[p] = rendval[p]
    BY <1>2, <1>t, <2>1, <2>2
  <2>5. Quiet
    BY <1>2, <1>t, <1>u, <2>3, <2>4 DEF Quiet, bounds
  <2>6. /\ \A p \in Thread : HasMet(p)' <=> HasMet(p) \/ p \in {t, w}
        /\ ~HasMet(t) /\ ~HasMet(w)
    BY <1>2, <1>u, <2>3, <2>4 DEF HasMet
  <2>7. UNCHANGED on /\ UNCHANGED tag
    BY <1>u DEF altvars
  <2>8. on[t] \in Thread
    BY <1>u DEF CInv, PlaceInv
  <2>9. \/ on[t] = t /\ on[w] = t /\ Meets(w, t)
        \/ on[t] = w /\ on[w] = w /\ Meets(t, w)
    BY <1>2, <2>1, <2>6, <2>8 DEF Meets, CInv, MeetInv
  <2>10. \A p, u \in Thread : Meets(p, u)' <=> Meets(p, u) /\ p \notin {t, w}
    BY <2>6, <2>7 DEF Meets
  <2>11. \A u \in Thread : tag[u] # Nil => on[u] = u
    BY DEF CInv, PlaceInv, Waits
  <2>12. ASSUME NEW p \in Thread, NEW u \in Thread, Meets(p, u)'
         PROVE  tag'[u] # Nil /\ ~HasMet(u)'
    <3>1. tag[u] # Nil /\ ~HasMet(u) /\ on[u] = u /\ Meets(p, u) /\ p \notin {t, w}
      BY <2>10, <2>11, <2>12 DEF CInv, MeetInv
    <3>2. u \notin {t, w}
      BY <2>1, <2>9, <3>1 DEF CInv, MeetInv
    <3> QED
      BY <2>6, <2>7, <3>1, <3>2
  <2>13. \A p, q, u \in Thread : Meets(p, u)' /\ Meets(q, u)' => p = q
    BY <2>10 DEF CInv, MeetInv
  <2>14. ASSUME NEW u \in Thread, on'[u] = u, HasMet(u)' PROVE tag'[u] # Nil
    <3>1. CASE u \in {t, w}
      BY <2>7, <2>1, <2>9, <2>14, <3>1 DEF CInv, MeetInv
    <3>2. CASE u \notin {t, w}
      BY <2>6, <2>7, <2>14, <3>2 DEF CInv, MeetInv, Waits
    <3> QED
      BY <3>1, <3>2
  <2>15. MeetInv'
    BY <2>12, <2>13, <2>14 DEF MeetInv, Waits
  <2> QED
    BY <2>5, <2>15, QuietKeeps
<1> QED
  BY <1>1, <1>2 DEF Rendezvous
-----------------------------------------------------------------------------
(* Ends of calls                                                           *)

(* t's call is over, and t is off every channel.                           *)
Ends(t) ==
  /\ req' = [req EXCEPT ![t] = Nil] /\ tag' = [tag EXCEPT ![t] = Nil]
  /\ pc' = [pc EXCEPT ![t] = "idle"] /\ on' = [on EXCEPT ![t] = Nil]
  /\ UNCHANGED <<closed, freed, closevars, rendvars>>
  /\ \A c \in Chan : Entries(c)' = {w \in Entries(c) : w[1] # t}

(* That disturbs nobody if nobody meets it.                                *)
LEMMA EndsKeeps ==
  ASSUME CInv, NEW t \in Thread, Ends(t), pc[t] \in {"idle", "back"}, closing[t] = Nil,
         \A p \in Thread : ~Meets(p, t)
  PROVE  PlaceInv' /\ EntryInv' /\ MeetInv' /\ CloseInv' /\ NamedInv'
<1>1. /\ \A u \in Thread : u # t => /\ req'[u] = req[u] /\ tag'[u] = tag[u]
                                    /\ pc'[u] = pc[u] /\ on'[u] = on[u]
      /\ req'[t] = Nil /\ tag'[t] = Nil /\ pc'[t] = "idle" /\ on'[t] = Nil
      /\ t # Nil
  BY NilAssumption DEF CInv, TypeOK, Ends
<1>2. /\ UNCHANGED closed /\ UNCHANGED freed /\ UNCHANGED closing /\ UNCHANGED rendval
      /\ UNCHANGED rendbreak
  BY DEF Ends, closevars, rendvars
<1>3. \A c \in Chan : \A w : w \in Entries(c)' <=> w \in Entries(c) /\ w[1] # t
  BY DEF Ends
<1>4. PlaceInv'
  <2>1. ASSUME NEW u \in Thread, u # t
        PROVE  /\ Waits(u)' <=> Waits(u)
               /\ (Alts(u))' = Alts(u)
    BY <1>1, <2>1 DEF Waits, Alts
  <2>2. t \notin rendbreak
    BY DEF CInv, PlaceInv
  <2> QED
    BY <1>1, <1>2, <2>1, <2>2 DEF CInv, PlaceInv
<1>5. EntryInv'
  <2>1. ASSUME NEW c \in Chan, NEW w \in Entries(c)'
        PROVE  on'[w[1]] = w[1] /\ w[2] \in DOMAIN (req'[w[1]]).call.alts
               /\ (req'[w[1]]).call.alts[w[2]].c = c
    <3>1. w \in Entries(c) /\ w[1] # t
      BY <1>3, <2>1
    <3>2. w[1] \in Thread /\ on[w[1]] = w[1] /\ w[2] \in DOMAIN Alts(w[1])
          /\ Alts(w[1])[w[2]].c = c
      BY <3>1, EntryIs DEF CInv
    <3> QED
      BY <1>1, <3>1, <3>2 DEF Alts
  <2> QED
    BY <2>1 DEF EntryInv, Waits, Alts, Alt
<1>6. MeetInv'
  <2>1. \A p \in Thread : p # t => (HasMet(p)' <=> HasMet(p))
    BY <1>1, <1>2 DEF HasMet
  <2>2. \A p, u \in Thread : Meets(p, u)' => Meets(p, u) /\ p # t /\ u # t
    <3> SUFFICES ASSUME NEW p \in Thread, NEW u \in Thread, Meets(p, u)'
                 PROVE  Meets(p, u) /\ p # t /\ u # t
      OBVIOUS
    <3>1. p # t
      BY <1>1, NilAssumption DEF Meets
    <3>2. Meets(p, u)
      BY <1>1, <2>1, <3>1 DEF Meets
    <3> QED
      BY <3>1, <3>2
  <2>3. ASSUME NEW p \in Thread, NEW u \in Thread, Meets(p, u)'
        PROVE  tag'[u] # Nil /\ ~HasMet(u)'
    BY <1>1, <2>1, <2>2, <2>3 DEF CInv, MeetInv
  <2>4. \A p, q, u \in Thread : Meets(p, u)' /\ Meets(q, u)' => p = q
    BY <2>2 DEF CInv, MeetInv
  <2>5. \A u \in Thread : on'[u] = u /\ HasMet(u)' => tag'[u] # Nil
    BY <1>1, <2>1 DEF CInv, MeetInv, Waits
  <2> QED
    BY <2>3, <2>4, <2>5 DEF MeetInv, Waits
<1>7. CloseInv'
  BY <1>2 DEF CInv, CloseInv
<1>8. NamedInv'
  <2>1. ASSUME NEW u \in Thread, tag'[u] # Nil
        PROVE  \E i \in Index : <<u, i>> \in Entries(tag[u])'
    <3>1. u # t /\ tag'[u] = tag[u] /\ tag[u] \in Chan
      BY <1>1, <2>1 DEF CInv, TypeOK
    <3>2. PICK i \in Index : <<u, i>> \in Entries(tag[u])
      BY <2>1, <3>1 DEF CInv, NamedInv
    <3> QED
      BY <1>3, <3>1, <3>2
  <2> QED
    BY <2>1 DEF NamedInv
<1> QED
  BY <1>4, <1>5, <1>6, <1>7, <1>8

(* The types of what Return assigns                                        *)
LEMMA ReturnTypes ==
  ASSUME TypeOK, NEW t \in Thread, NEW i \in Index, NEW e \in BOOLEAN,
         NEW v \in {0} \cup Value, Return(t, Result(i, e, v))
  PROVE  /\ req' \in [Thread -> Frame \cup {Nil}] /\ tag' \in [Thread -> Chan \cup {Nil}]
         /\ got' \in [Thread -> {0} \cup Value] /\ a' \in [Thread -> Index]
         /\ pc' \in [Thread -> Places] /\ on' \in [Thread -> Thread \cup {Nil}]
         /\ ret' \in (Thread \X Outcomes) \cup {Nil}
<1>1. Result(i, e, v) \in Outcomes
  BY DEF Result, Outcomes
<1>2. 0 \in Index
  BY DEF Index
<1> QED
  BY <1>1, <1>2 DEF Return, TypeOK, Places, Go

(* A call that ends without a wait, or once its partner was met, leaves    *)
(* the slots alone.                                                        *)
LEMMA EndsAlone ==
  ASSUME CInv, NEW t \in Thread, NEW i \in Index, NEW e \in BOOLEAN,
         NEW v \in {0} \cup Value, Return(t, Result(i, e, v)),
         pc[t] \in {"idle", "back"}, ~Waits(t), closing[t] = Nil,
         buf' \in [Chan -> Seq(Value)], \A c \in Chan : Len(buf'[c]) <= Size[c],
         calls' \in 0..MaxCalls,
         UNCHANGED <<closed, freed, gone, qentry, closevars, rendvars, ints>>
  PROVE  CInv'
<1>1. UNCHANGED closed /\ UNCHANGED freed /\ UNCHANGED gone /\ UNCHANGED qentry
      /\ UNCHANGED <<closevars, rendvars, ints>>
  OBVIOUS
<1>2. \A c : Entries(c)' = Entries(c)
  BY <1>1 DEF Entries
<1>3. \A c \in Chan : \A w \in Entries(c) : w[1] # t
  BY EntryIs DEF CInv, Waits
<1>4. Ends(t)
  BY <1>1, <1>2, <1>3 DEF Ends, Return, Go
<1>5. \A p \in Thread : ~Meets(p, t)
  BY DEF CInv, MeetInv, PlaceInv
<1>6. PlaceInv' /\ EntryInv' /\ MeetInv' /\ CloseInv' /\ NamedInv'
  BY <1>4, <1>5, EndsKeeps
<1>7. TypeOK'
  BY <1>1, ReturnTypes DEF CInv, TypeOK, Places, closevars, rendvars
<1>8. GoneInv' /\ FreedInv'
  BY <1>1, <1>2 DEF CInv, GoneInv, FreedInv
<1> QED
  BY <1>6, <1>7, <1>8 DEF CInv

(* The one that committed another returns.                                 *)
LEMMA MetInv ==
  ASSUME CInv, NEW t \in Thread, Met(t)
  PROVE  CInv'
<1>1. pc[t] = "back" /\ ~Waits(t) /\ closing[t] = Nil
      /\ Return(t, Result(a[t], FALSE, got[t]))
      /\ UNCHANGED <<chanvars, closevars, rendvars, bounds>>
  BY DEF Met
<1>2. a[t] \in Index /\ got[t] \in {0} \cup Value
  BY DEF CInv, TypeOK
<1>3. /\ buf' \in [Chan -> Seq(Value)] /\ \A c \in Chan : Len(buf'[c]) <= Size[c]
      /\ calls' \in 0..MaxCalls
      /\ UNCHANGED <<closed, freed, gone, qentry, closevars, rendvars, ints>>
  BY <1>1 DEF CInv, TypeOK, chanvars, bounds
<1> QED
  BY <1>1, <1>2, <1>3, EndsAlone
-----------------------------------------------------------------------------
(* Leaving the channels                                                    *)

(* The slots of t are emptied.                                             *)
LEMMA WithoutIs ==
  ASSUME NEW q \in Seq(Slot), NEW t \in Thread
  PROVE  /\ Without(t, q) \in Seq(Slot)
         /\ \A x : x # Nil => (On(Without(t, q), x) <=> On(q, x) /\ x[1] # t)
<1> DEFINE p == Without(t, q)
<1>1. DOMAIN q = 1..Len(q) /\ Len(q) \in Nat /\ \A i \in DOMAIN q : q[i] \in Slot
  OBVIOUS
<1>2. p = [i \in DOMAIN q |-> IF q[i] # Nil /\ q[i][1] = t THEN Nil ELSE q[i]]
  BY DEF Without
<1> HIDE DEF p
<1>3. Nil \in Slot
  BY DEF Slot
<1>4. p \in Seq(Slot) /\ DOMAIN p = DOMAIN q
      /\ \A i \in DOMAIN q : p[i] = IF q[i] # Nil /\ q[i][1] = t THEN Nil ELSE q[i]
  BY <1>1, <1>2, <1>3
<1>5. ASSUME NEW x, x # Nil PROVE On(p, x) <=> On(q, x) /\ x[1] # t
  BY <1>4, <1>5 DEF On
<1> QED
  BY <1>4, <1>5 DEF p

(* A wait ends: the channels that t was the last on are gone if they were  *)
(* freed and nobody closes them.                                           *)
LEMMA LeavesInv ==
  ASSUME CInv, NEW t \in Thread, pc[t] = "back", Waits(t), dequeue(t),
         \A p \in Thread : ~Meets(p, t),
         NEW i \in Index, NEW e \in BOOLEAN, NEW v \in {0} \cup Value,
         Return(t, Result(i, e, v)), UNCHANGED <<closevars, rendvars, bounds>>
  PROVE  CInv'
<1>1. UNCHANGED buf /\ UNCHANGED closed /\ UNCHANGED freed
      /\ UNCHANGED <<closevars, rendvars, bounds>>
  BY DEF dequeue
<1>2. \A c \in Chan : qentry'[c] = Without(t, qentry[c])
  BY DEF dequeue
<1>3. \A c \in Chan : qentry[c] \in Seq(Slot)
  BY DEF CInv, TypeOK
<1>4. \A c \in Chan : /\ qentry'[c] \in Seq(Slot)
                      /\ \A x : x # Nil => (On(qentry'[c], x) <=> On(qentry[c], x) /\ x[1] # t)
  BY <1>2, <1>3, WithoutIs
<1>5. ASSUME NEW c \in Chan PROVE Entries(c)' = {w \in Entries(c) : w[1] # t}
  <2>1. \A x : x \in Entries(c)' <=> On(qentry'[c], x) /\ x # Nil
    BY DEF Entries, Range, On
  <2> QED
    BY <1>4, <2>1, EntriesOn
<1>6. Ends(t)
  BY <1>1, <1>5 DEF Ends, Return, Go
<1>7. closing[t] = Nil /\ t # Nil
  BY NilAssumption DEF CInv, PlaceInv, Waits
<1>8. PlaceInv' /\ EntryInv' /\ MeetInv' /\ CloseInv' /\ NamedInv'
  BY <1>6, <1>7, EndsKeeps
<1>9. gone' = gone \cup {c \in freed : /\ qentry'[c] # qentry[c] /\ closed[c] # 1
                                       /\ Entries(c)' = {}}
  <2>1. \A c : Range(qentry'[c]) \subseteq {Nil} <=> Entries(c)' = {}
    BY DEF Entries
  <2> QED
    BY <2>1 DEF dequeue
<1>f. freed \subseteq Chan /\ gone \subseteq freed
  BY DEF CInv, TypeOK
<1>10. TypeOK'
  <2>1. qentry' \in [Chan -> Seq(Slot)]
    BY <1>4 DEF dequeue
  <2>2. gone' \subseteq freed'
    BY <1>1, <1>9, <1>f
  <2> QED
    BY <1>1, <2>1, <2>2, ReturnTypes DEF CInv, TypeOK, Places, closevars, rendvars, bounds
<1>11. GoneInv'
  BY <1>1, <1>5, <1>9, <1>f DEF CInv, GoneInv
<1>12. FreedInv'
  <2> SUFFICES ASSUME NEW c \in freed' \ gone', closed'[c] # 1, Entries(c)' = {} PROVE FALSE
    BY DEF FreedInv
  <2>1. c \in freed \ gone /\ closed[c] # 1 /\ c \in Chan
    BY <1>1, <1>9, <1>f
  <2>2. Entries(c) # {}
    BY <2>1 DEF CInv, FreedInv
  <2>3. qentry'[c] # qentry[c]
    BY <2>2 DEF Entries
  <2> QED
    BY <1>9, <2>1, <2>3
<1> QED
  BY <1>8, <1>10, <1>11, <1>12 DEF CInv

(* The entry that alt reports                                              *)
LEMMA ChosenIs ==
  ASSUME CInv, NEW t \in Thread, tag[t] # Nil
  PROVE  Chosen(t) \in DOMAIN Alts(t) /\ Chosen(t) \in Index
           /\ Alts(t)[Chosen(t)].c = tag[t]
<1>1. req[t] \in Frame /\ \E i \in DOMAIN Alts(t) : Alts(t)[i].c = tag[t]
  <2>1. on[t] = t /\ t # Nil
    BY NilAssumption DEF CInv, PlaceInv, Waits
  <2> QED
    BY <2>1 DEF CInv, PlaceInv
<1>2. DOMAIN Alts(t) = 1..Len(Alts(t)) /\ Len(Alts(t)) \in Nat
      /\ \A i \in DOMAIN Alts(t) : i \in Index
  BY <1>1, FrameIs, RequestIs
<1> DEFINE S == {i \in DOMAIN Alts(t) : Alts(t)[i].c = tag[t]}
<1>3. S # {} /\ S \subseteq 0..Len(Alts(t))
  BY <1>1, <1>2
<1> HIDE DEF S
<1>4. Max(S) \in S
  BY <1>2, <1>3, MaxIs
<1>5. Chosen(t) = Max(S)
  BY DEF Chosen, S
<1> QED
  BY <1>2, <1>4, <1>5 DEF S

(* alt returns from its wait, interrupted or met.                          *)
LEMMA WaitEndsInv ==
  ASSUME CInv, NEW t \in Thread, Interrupted(t) \/ Chose(t)
  PROVE  CInv'
<1>t. got[t] \in {0} \cup Value /\ 0 \in Index
  BY DEF CInv, TypeOK, Index
<1>1. CASE Interrupted(t)
  <2>1. /\ pc[t] = "back" /\ Waits(t) /\ dequeue(t) /\ Return(t, Result(0, FALSE, 0))
        /\ tag[t] = Nil /\ UNCHANGED <<closevars, rendvars, bounds>>
    BY <1>1 DEF Interrupted, Meant, None
  <2>2. \A p \in Thread : ~Meets(p, t)
    BY <2>1 DEF CInv, MeetInv
  <2> QED
    BY <1>t, <2>1, <2>2, LeavesInv
<1>2. CASE Chose(t)
  <2>1. /\ pc[t] = "back" /\ Waits(t) /\ dequeue(t) /\ HasMet(t)
        /\ Return(t, Result(Chosen(t), rendval[t] = "Closed", got[t]))
        /\ UNCHANGED <<closevars, rendvars, bounds>>
    BY <1>2 DEF Chose, HasMet
  <2>2. tag[t] # Nil /\ \A p \in Thread : ~Meets(p, t)
    BY <2>1 DEF CInv, MeetInv
  <2>3. Chosen(t) \in Index
    BY <2>2, ChosenIs
  <2>4. (rendval[t] = "Closed") \in BOOLEAN
    OBVIOUS
  <2> QED
    BY <1>t, <2>1, <2>2, <2>3, <2>4, LeavesInv
<1> QED
  BY <1>1, <1>2
-----------------------------------------------------------------------------
(* Committing a thread that waits                                          *)

(* A thread that is at rest, or about to go on with its close, is not one  *)
(* that waits, and meets nobody.                                           *)
Free(t) == pc[t] = "idle" \/ (closing[t] # Nil /\ HasMet(t))

LEMMA FreeIs ==
  ASSUME CInv, NEW t \in Thread, Free(t)
  PROVE  /\ on[t] # t /\ req[t] = Nil /\ tag[t] = Nil /\ t \notin rendbreak
         /\ \A p \in Thread : ~Meets(p, t) /\ ~Meets(t, p)
         /\ \A c \in Chan : \A w \in Entries(c) : w[1] # t
<1>1. on[t] # t /\ req[t] = Nil
  BY NilAssumption DEF CInv, PlaceInv, Free
<1>2. tag[t] = Nil /\ \A p \in Thread : ~Meets(p, t)
  BY <1>1 DEF CInv, PlaceInv, MeetInv, Waits
<1>3. \A p \in Thread : ~Meets(t, p)
  BY NilAssumption DEF CInv, PlaceInv, Free, Meets
<1>4. \A c \in Chan : \A w \in Entries(c) : w[1] # t
  BY <1>1, EntryIs DEF CInv
<1>5. t \notin rendbreak
  BY DEF CInv, PlaceInv, Free, HasMet
<1> QED
  BY <1>1, <1>2, <1>3, <1>4, <1>5

(* t commits u, which waits for c, and goes to meet it.                    *)
Commits(t, u, c) ==
  /\ pc' = [pc EXCEPT ![t] = "rendez"] /\ on' = [on EXCEPT ![t] = u]
  /\ tag' = [tag EXCEPT ![u] = c]
  /\ UNCHANGED <<freed, gone, qentry, rendvars>>
  /\ \A p \in Thread \ {t} : req'[p] = req[p] /\ closing'[p] = closing[p]
  /\ IF closing'[t] = Nil THEN req'[t] \in Frame ELSE req'[t] = Nil

LEMMA CommitsKeeps ==
  ASSUME CInv, NEW t \in Thread, Free(t), NEW u \in Thread, NEW c \in Chan,
         Waits(u), tag[u] = Nil, \E i \in DOMAIN Alts(u) : Alts(u)[i].c = c,
         \E i \in Index : <<u, i>> \in Entries(c),
         Commits(t, u, c)
  PROVE  PlaceInv' /\ EntryInv' /\ MeetInv' /\ NamedInv'
<1>0. u # t /\ on[u] = u /\ u # Nil /\ t # Nil /\ c # Nil
  BY FreeIs, NilAssumption DEF Waits
<1>1. /\ pc'[t] = "rendez" /\ on'[t] = u /\ tag'[u] = c
      /\ \A p \in Thread : p # t => pc'[p] = pc[p] /\ on'[p] = on[p] /\ req'[p] = req[p]
                                    /\ closing'[p] = closing[p]
      /\ \A p \in Thread : p # u => tag'[p] = tag[p]
  BY DEF Commits, CInv, TypeOK
<1>2. UNCHANGED freed /\ UNCHANGED qentry /\ UNCHANGED rendval /\ UNCHANGED rendbreak
  BY DEF Commits, rendvars
<1>3. \A p \in Thread : on'[p] = p <=> on[p] = p
  BY <1>0, <1>1, FreeIs
<1>4. \A p \in Thread : p # t => (Alts(p))' = Alts(p)
  BY <1>1 DEF Alts
<1>5. \A x : Entries(x)' = Entries(x)
  BY <1>2 DEF Entries
<1>6. PlaceInv'
  <2>1. ASSUME NEW p \in Thread, p # t, p # u
        PROVE  /\ pc'[p] = pc[p] /\ on'[p] = on[p] /\ req'[p] = req[p]
               /\ closing'[p] = closing[p] /\ tag'[p] = tag[p] /\ (Alts(p))' = Alts(p)
    BY <1>1, <1>4, <2>1
  <2>2. /\ pc'[u] = pc[u] /\ on'[u] = u /\ req'[u] = req[u]
        /\ closing'[u] = closing[u] /\ tag'[u] = c /\ (Alts(u))' = Alts(u)
    BY <1>0, <1>1, <1>4
  <2>3. /\ tag'[t] = Nil /\ t \notin rendbreak
        /\ IF closing'[t] = Nil THEN req'[t] \in Frame ELSE req'[t] = Nil
    BY <1>0, <1>1, FreeIs DEF Commits
  <2> DEFINE P(p) ==
        /\ pc[p] = "idle" => on[p] = Nil /\ req[p] = Nil /\ closing[p] = Nil
        /\ pc[p] # "idle" => on[p] \in Thread
        /\ closing[p] # Nil => on[p] # p /\ req[p] = Nil
        /\ pc[p] # "idle" /\ closing[p] = Nil => req[p] \in Frame
        /\ p \in rendbreak => pc[p] = "asleep"
        /\ tag[p] # Nil => /\ Waits(p)
                           /\ \E i \in DOMAIN Alts(p) : Alts(p)[i].c = tag[p]
  <2>4. ASSUME NEW p \in Thread PROVE P(p)
    BY DEF CInv, PlaceInv
  <2>5. ASSUME NEW p \in Thread, p # t, p # u PROVE P(p)'
    BY <1>2, <2>1, <2>4, <2>5 DEF Waits
  <2>6. P(u)'
    BY <1>0, <1>2, <2>2, <2>4 DEF Waits
  <2>7. P(t)'
    BY <1>0, <1>1, <1>2, <2>3
  <2> QED
    BY <2>5, <2>6, <2>7 DEF PlaceInv
<1>7. EntryInv'
  <2>1. ASSUME NEW x \in Chan, NEW w \in Entries(x)
        PROVE  on'[w[1]] = w[1] /\ w[2] \in DOMAIN (req'[w[1]]).call.alts
               /\ (req'[w[1]]).call.alts[w[2]].c = x
    <3>1. w[1] \in Thread /\ w[1] # t /\ on[w[1]] = w[1] /\ w[2] \in DOMAIN Alts(w[1])
          /\ Alts(w[1])[w[2]].c = x
      BY EntryIs, FreeIs DEF CInv
    <3> QED
      BY <1>1, <3>1 DEF Alts
  <2> QED
    BY <1>5, <2>1 DEF EntryInv, Waits, Alts, Alt
<1>8. MeetInv'
  <2>1. ~HasMet(t)' /\ \A p \in Thread : p # t => (HasMet(p)' <=> HasMet(p))
    BY <1>1, <1>2 DEF HasMet
  <2>2. \A p, x \in Thread : Meets(p, x)' <=> (Meets(p, x) /\ p # t) \/ (p = t /\ x = u)
    BY <1>0, <1>1, <2>1 DEF Meets
  <2>3. ~HasMet(u) /\ \A p \in Thread : ~Meets(p, u)
    BY <1>0 DEF CInv, MeetInv, Waits
  <2>4. ASSUME NEW p \in Thread, NEW x \in Thread, Meets(p, x)'
        PROVE  tag'[x] # Nil /\ ~HasMet(x)'
    <3>1. CASE x = u
      BY <1>0, <1>1, <2>1, <2>3, <3>1
    <3>2. CASE x # u
      <4>1. Meets(p, x) /\ x # t
        BY <2>2, <2>4, <3>2, FreeIs
      <4>2. tag[x] # Nil /\ ~HasMet(x)
        BY <4>1 DEF CInv, MeetInv
      <4> QED
        BY <1>1, <2>1, <3>2, <4>1, <4>2
    <3> QED
      BY <3>1, <3>2
  <2>5. \A p, q, x \in Thread : Meets(p, x)' /\ Meets(q, x)' => p = q
    BY <2>2, <2>3 DEF CInv, MeetInv
  <2>6. ASSUME NEW x \in Thread, on'[x] = x, HasMet(x)' PROVE tag'[x] # Nil
    BY <1>0, <1>1, <1>3, <2>1, <2>6 DEF CInv, MeetInv, Waits
  <2> QED
    BY <2>4, <2>5, <2>6 DEF MeetInv, Waits
<1>9. NamedInv'
  <2>1. \A p \in Thread : p # u => tag'[p] = tag[p]
    BY <1>1
  <2> QED
    BY <1>1, <1>5, <2>1 DEF CInv, NamedInv
<1> QED
  BY <1>6, <1>7, <1>8, <1>9
-----------------------------------------------------------------------------
(* alt                                                                     *)

(* What alt's guard says of its array.                                     *)
LEMMA AltIs ==
  ASSUME CInv, NEW t \in Thread, NEW r \in Request, pc[t] = "idle",
         calls < MaxCalls, alt(t, r)
  PROVE  /\ calls + 1 \in Value /\ calls' \in 0..MaxCalls
         /\ UNCHANGED <<closed, freed, gone, closevars, rendvars, ints>>
         /\ closing[t] = Nil /\ ~Waits(t)
         /\ \A i \in DOMAIN r.alts : /\ r.alts[i].c \in Chan /\ r.alts[i].c \notin freed
                                     /\ i \in Index
<1>1. calls' = calls + 1 /\ UNCHANGED <<closed, freed, gone, closevars, rendvars, ints>>
      /\ \A i \in DOMAIN r.alts : r.alts[i].c \notin freed
  BY DEF alt
<1>2. calls \in 0..MaxCalls /\ MaxCalls \in Nat
  BY BoundAssumption DEF CInv, TypeOK
<1>3. \A i \in DOMAIN r.alts : r.alts[i].c \in Chan /\ i \in Index
  BY RequestIs DEF Entry
<1>4. closing[t] = Nil /\ ~Waits(t)
  BY IdleIs DEF CInv
<1> QED
  BY <1>1, <1>2, <1>3, <1>4 DEF Value

(* A partner is waiting: t commits it and goes to meet it.                 *)
LEMMA PartnerInv ==
  ASSUME CInv, NEW t \in Thread, NEW r \in Request, pc[t] = "idle",
         calls < MaxCalls, alt(t, r), NEW i \in DOMAIN r.alts,
         NEW w \in Blocked(r.alts[i]), Partner(t, r, i, w), UNCHANGED qentry
  PROVE  CInv'
<1> DEFINE e == r.alts[i]
<1>c. PICK c \in Chan : c = e.c
  BY AltIs
<1>1. w \in Entries(c) /\ tag[w[1]] = Nil
  BY <1>c DEF Blocked
<1>2. PICK u \in Thread : u = w[1]
  BY <1>1, EntryIs DEF CInv
<1>3. /\ Waits(u) /\ tag[u] = Nil /\ u # t /\ req[u] \in Frame
      /\ \E k \in DOMAIN Alts(u) : Alts(u)[k].c = c
      /\ \E k \in Index : <<u, k>> \in Entries(c)
  BY <1>1, <1>2, EntryIs, IdleIs DEF CInv, Waits
<1>4. calls + 1 \in Value /\ calls' \in 0..MaxCalls /\ i \in Index /\ closing[t] = Nil
      /\ UNCHANGED <<closed, freed, gone, closevars, rendvars, ints>>
  BY AltIs
<1>5. PICK f \in Frame : f = [call |-> r, val |-> calls + 1]
  BY <1>4 DEF Frame
<1>6. /\ pc' = [pc EXCEPT ![t] = "rendez"] /\ on' = [on EXCEPT ![t] = u]
      /\ tag' = [tag EXCEPT ![u] = c] /\ req' = [req EXCEPT ![t] = f]
      /\ a' = [a EXCEPT ![t] = i] /\ ret' = Nil
  BY <1>c, <1>2, <1>5 DEF Partner, GoMeet, Go
<1>7. UNCHANGED closed /\ UNCHANGED freed /\ UNCHANGED gone /\ UNCHANGED qentry
      /\ UNCHANGED closing /\ UNCHANGED next /\ UNCHANGED rendval
      /\ UNCHANGED rendbreak /\ UNCHANGED ints
  BY <1>4 DEF closevars, rendvars
<1>8. Commits(t, u, c)
  <2>1. req \in [Thread -> Frame \cup {Nil}]
    BY DEF CInv, TypeOK
  <2>2. req'[t] = f /\ closing'[t] = Nil /\ \A p \in Thread \ {t} : req'[p] = req[p]
    BY <1>4, <1>6, <1>7, <2>1
  <2> QED
    BY <1>6, <1>7, <2>2 DEF Commits, rendvars
<1>9. PlaceInv' /\ EntryInv' /\ MeetInv' /\ NamedInv'
  BY <1>3, <1>8, CommitsKeeps DEF Free
<1>10. TypeOK'
  <2>1. /\ buf[c] \in Seq(Value) /\ req[u].val \in Value /\ Len(buf[c]) <= Size[c]
        /\ buf \in [Chan -> Seq(Value)] /\ \A x \in Chan : Len(buf[x]) <= Size[x]
        /\ Size[c] \in Nat
    BY <1>3, FrameIs, SizeAssumption DEF CInv, TypeOK
  <2>v. PICK v \in Value : v = req[u].val
    BY <2>1
  <2>b. PICK b \in Seq(Value) : b = buf[c]
    BY <2>1
  <2>d. Append(b, v) \in Seq(Value) /\ Append(b, v) # <<>>
        /\ Len(Append(b, v)) = Len(b) + 1 /\ Len(b) \in Nat
    OBVIOUS
  <2>2. PICK q \in Seq(Value) : q = Append(b, v) /\ q # <<>> /\ Len(q) = Len(b) + 1
    BY <2>d
  <2>3. /\ q # <<>> /\ Head(q) \in Value /\ Tail(q) \in Seq(Value)
        /\ Len(Tail(q)) = Len(buf[c])
    BY <2>b, <2>d, <2>2
  <2>4. \/ got' = [got EXCEPT ![t] = Head(q)] /\ buf' = [buf EXCEPT ![c] = Tail(q)]
        \/ got' = [got EXCEPT ![u] = calls + 1] /\ UNCHANGED buf
    BY <1>c, <1>2, <2>v, <2>b, <2>2 DEF Partner
  <2>5. /\ buf' \in [Chan -> Seq(Value)] /\ \A x \in Chan : Len(buf'[x]) <= Size[x]
        /\ got' \in [Thread -> {0} \cup Value]
    <3>1. got \in [Thread -> {0} \cup Value]
      BY DEF CInv, TypeOK
    <3>2. CASE got' = [got EXCEPT ![u] = calls + 1] /\ UNCHANGED buf
      BY <1>4, <2>1, <3>1, <3>2
    <3>3. CASE got' = [got EXCEPT ![t] = Head(q)] /\ buf' = [buf EXCEPT ![c] = Tail(q)]
      BY <2>1, <2>3, <3>1, <3>3
    <3> QED
      BY <2>4, <3>2, <3>3
  <2>6. /\ req' \in [Thread -> Frame \cup {Nil}] /\ tag' \in [Thread -> Chan \cup {Nil}]
        /\ a' \in [Thread -> Index] /\ on' \in [Thread -> Thread \cup {Nil}]
        /\ pc' \in [Thread -> {"idle", "rendez", "asleep", "back"}]
    BY <1>4, <1>6 DEF CInv, TypeOK
  <2> QED
    BY <1>4, <1>6, <1>7, <2>5, <2>6 DEF CInv, TypeOK
<1>11. CloseInv' /\ GoneInv' /\ FreedInv'
  BY <1>7 DEF CInv, CloseInv, GoneInv, FreedInv, Entries
<1> QED
  BY <1>9, <1>10, <1>11 DEF CInv

(* The buffer has a value, or room for one.                                *)
LEMMA BufferedInv ==
  ASSUME CInv, NEW t \in Thread, NEW r \in Request, pc[t] = "idle",
         calls < MaxCalls, alt(t, r), NEW i \in DOMAIN r.alts,
         canexec(r.alts[i]), Blocked(r.alts[i]) = {}, Buffered(t, r, i), UNCHANGED qentry
  PROVE  CInv'
<1>1. PICK c \in Chan : c = r.alts[i].c
  BY AltIs
<1>2. calls + 1 \in Value /\ calls' \in 0..MaxCalls /\ i \in Index /\ closing[t] = Nil
      /\ UNCHANGED <<closed, freed, gone, closevars, rendvars, ints>> /\ ~Waits(t)
  BY AltIs
<1>3. buf \in [Chan -> Seq(Value)] /\ (\A x \in Chan : Len(buf[x]) <= Size[x])
      /\ Size \in [Chan -> Nat]
  BY SizeAssumption DEF CInv, TypeOK
<1>4. PICK v \in {0} \cup Value :
        /\ Return(t, Result(i, FALSE, v))
        /\ buf' \in [Chan -> Seq(Value)] /\ \A x \in Chan : Len(buf'[x]) <= Size[x]
  <2>1. CASE r.alts[i].op = "RCV"
    <3>1. buf[c] # <<>> /\ buf[c] \in Seq(Value)
      BY <1>1, <1>3, <2>1 DEF canexec
    <3>2. Head(buf[c]) \in Value /\ Tail(buf[c]) \in Seq(Value)
          /\ Len(Tail(buf[c])) = Len(buf[c]) - 1 /\ Len(buf[c]) \in Nat
      BY <3>1
    <3>3. buf' = [buf EXCEPT ![c] = Tail(buf[c])]
          /\ Return(t, Result(i, FALSE, Head(buf[c])))
      BY <1>1, <2>1 DEF Buffered
    <3>4. buf' \in [Chan -> Seq(Value)] /\ \A x \in Chan : Len(buf'[x]) <= Size[x]
      <4>1. buf' \in [Chan -> Seq(Value)]
        BY <1>3, <3>2, <3>3
      <4>2. Len(buf'[c]) <= Size[c]
        BY <1>3, <3>2, <3>3
      <4>3. \A x \in Chan : x # c => buf'[x] = buf[x]
        BY <1>3, <3>3
      <4> QED
        BY <1>3, <4>1, <4>2, <4>3
    <3> QED
      BY <3>2, <3>3, <3>4
  <2>2. CASE r.alts[i].op # "RCV"
    <3>1. Len(buf[c]) < Size[c] /\ buf[c] \in Seq(Value)
      BY <1>1, <1>3, <2>2 DEF canexec
    <3>2. Append(buf[c], calls + 1) \in Seq(Value)
          /\ Len(Append(buf[c], calls + 1)) = Len(buf[c]) + 1 /\ Len(buf[c]) \in Nat
      BY <1>2, <3>1
    <3>3. buf' = [buf EXCEPT ![c] = Append(buf[c], calls + 1)]
          /\ Return(t, Result(i, FALSE, 0))
      BY <1>1, <2>2 DEF Buffered
    <3>4. buf' \in [Chan -> Seq(Value)] /\ \A x \in Chan : Len(buf'[x]) <= Size[x]
      <4>1. buf' \in [Chan -> Seq(Value)]
        BY <1>3, <3>2, <3>3
      <4>2. Len(buf'[c]) <= Size[c]
        BY <1>3, <3>1, <3>2, <3>3
      <4>3. \A x \in Chan : x # c => buf'[x] = buf[x]
        BY <1>3, <3>3
      <4> QED
        BY <1>3, <4>1, <4>2, <4>3
    <3> QED
      BY <3>3, <3>4
  <2> QED
    BY <2>1, <2>2
<1>5. FALSE \in BOOLEAN
  OBVIOUS
<1> QED
  BY <1>2, <1>4, <1>5, EndsAlone

(* Nothing can proceed, and alt is not to wait or has nothing to wait for. *)
LEMMA GivesUpInv ==
  ASSUME CInv, NEW t \in Thread, NEW r \in Request, pc[t] = "idle",
         calls < MaxCalls, alt(t, r), NEW open, Nothing(t, r, open), r.nb \/ open = {}
  PROVE  CInv'
<1>1. calls' \in 0..MaxCalls /\ closing[t] = Nil /\ ~Waits(t)
      /\ UNCHANGED <<closed, freed, gone, closevars, rendvars, ints>>
  BY AltIs
<1>2. buf' \in [Chan -> Seq(Value)] /\ \A x \in Chan : Len(buf'[x]) <= Size[x]
  BY DEF Nothing, CInv, TypeOK
<1>3. UNCHANGED qentry
  BY DEF Nothing
<1>4. PICK i \in Index, e \in BOOLEAN : Return(t, Result(i, e, 0))
  <2>1. CASE r.nb
    BY <2>1, RequestIs DEF Nothing
  <2>2. CASE ~r.nb
    <3> DEFINE unknown == DOMAIN r.alts \ r.known
    <3>1. Return(t, IF unknown = {} THEN Result(0, FALSE, 0) ELSE Result(Max(unknown), TRUE, 0))
      BY <2>2 DEF Nothing, None
    <3>2. unknown \subseteq 0..Len(r.alts) /\ Len(r.alts) \in Nat
          /\ \A k \in unknown : k \in Index
      BY RequestIs
    <3>3. unknown # {} => Max(unknown) \in Index
      BY <3>2, MaxIs
    <3>4. 0 \in Index
      BY RequestIs
    <3> QED
      BY <3>1, <3>3, <3>4
  <2> QED
    BY <2>1, <2>2
<1> QED
  BY <1>1, <1>2, <1>3, <1>4, EndsAlone
(* t puts its entries for the open channels on them, and goes to wait.     *)
LEMMA BlocksInv ==
  ASSUME CInv, NEW t \in Thread, NEW r \in Request, pc[t] = "idle",
         calls < MaxCalls, alt(t, r), NEW open, open \subseteq DOMAIN r.alts,
         Nothing(t, r, open), ~r.nb, open # {}
  PROVE  CInv'
<1>1. calls + 1 \in Value /\ calls' \in 0..MaxCalls /\ closing[t] = Nil
      /\ UNCHANGED <<closed, freed, gone, closevars, rendvars, ints>>
      /\ \A i \in DOMAIN r.alts : /\ r.alts[i].c \in Chan /\ r.alts[i].c \notin freed
                                  /\ i \in Index
  BY AltIs
<1>2. PICK f \in Frame : f = [call |-> r, val |-> calls + 1]
  BY <1>1 DEF Frame
<1>3. /\ pc' = [pc EXCEPT ![t] = "rendez"] /\ on' = [on EXCEPT ![t] = t]
      /\ req' = [req EXCEPT ![t] = f] /\ ret' = Nil
      /\ UNCHANGED buf /\ UNCHANGED tag /\ UNCHANGED got /\ UNCHANGED a
      /\ enqueue(t, r, open)
  BY <1>2 DEF Nothing, GoMeet, Go
<1>4. UNCHANGED closed /\ UNCHANGED freed /\ UNCHANGED gone /\ UNCHANGED closing
      /\ UNCHANGED next /\ UNCHANGED rendval /\ UNCHANGED rendbreak /\ UNCHANGED ints
  BY <1>1 DEF closevars, rendvars
<1>i. /\ on[t] = Nil /\ tag[t] = Nil /\ t # Nil /\ t \notin rendbreak
      /\ \A p \in Thread : ~Meets(p, t)
      /\ \A c \in Chan : \A w \in Entries(c) : w[1] # t
  BY IdleIs, NilAssumption DEF CInv, PlaceInv
<1> DEFINE K(c) == {i \in open : r.alts[i].c = c}
<1>5. ASSUME NEW c \in Chan
      PROVE  /\ qentry'[c] \in Seq(Slot)
             /\ \A x : x # Nil =>
                  (On(qentry'[c], x) <=> On(qentry[c], x) \/ OneOf(x, t, K(c)))
  <2>1. qentry'[c] = Puts(qentry[c], t, K(c), Len(r.alts))
    BY <1>3 DEF enqueue
  <2>2. qentry[c] \in Seq(Slot) /\ Nil \in Slot
    BY DEF CInv, TypeOK, Slot
  <2>3. Len(r.alts) \in Nat /\ DOMAIN r.alts = 1..Len(r.alts)
    BY RequestIs
  <2>4. K(c) \subseteq 1..Len(r.alts)
    BY <2>3
  <2>5. \A i \in K(c) : <<t, i>> \in Slot
    BY <1>1 DEF Slot
  <2> HIDE DEF K
  <2>6. PICK q \in Seq(Slot), n \in Nat, k \in SUBSET (1..Len(r.alts)) :
                q = qentry[c] /\ n = Len(r.alts) /\ k = K(c)
    BY <2>2, <2>3, <2>4
  <2>7. k \subseteq 1..n /\ \A i \in k : <<t, i>> \in Slot
    BY <2>4, <2>5, <2>6
  <2>8. /\ Puts(q, t, k, n) \in Seq(Slot)
        /\ \A x : x # Nil =>
             (On(Puts(q, t, k, n), x) <=> On(q, x) \/ OneOf(x, t, k))
    BY <2>2, <2>7, PutsIs
  <2> QED
    BY <2>1, <2>6, <2>8
<1>6. ASSUME NEW c \in Chan
      PROVE  \A x : x \in Entries(c)' <=> x \in Entries(c) \/ \E i \in K(c) : x = <<t, i>>
  <2>1. \A x : x \in Entries(c)' <=> On(qentry'[c], x) /\ x # Nil
    BY DEF Entries, Range, On
  <2>3. \A x : x \in Entries(c) <=> On(qentry[c], x) /\ x # Nil
    BY EntriesOn
  <2>4. \A i \in K(c) : <<t, i>> # Nil
    <3>1. \A i \in K(c) : <<t, i>> \in Thread \X Nat
      BY RequestIs
    <3> QED
      BY <3>1, NilAssumption
  <2> HIDE DEF K
  <2> QED
    BY <1>5, <2>1, <2>3, <2>4 DEF OneOf
<1>7. /\ pc'[t] = "rendez" /\ on'[t] = t /\ req'[t] = f /\ f.call = r
      /\ \A p \in Thread : p # t => pc'[p] = pc[p] /\ on'[p] = on[p] /\ req'[p] = req[p]
  BY <1>2, <1>3 DEF CInv, TypeOK
<1>8. TypeOK'
  <2>1. qentry' \in [Chan -> Seq(Slot)]
    BY <1>3, <1>5 DEF enqueue
  <2>2. /\ req' \in [Thread -> Frame \cup {Nil}] /\ on' \in [Thread -> Thread \cup {Nil}]
        /\ pc' \in [Thread -> {"idle", "rendez", "asleep", "back"}]
    BY <1>3 DEF CInv, TypeOK
  <2> QED
    BY <1>1, <1>3, <1>4, <2>1, <2>2 DEF CInv, TypeOK
<1>9. PlaceInv'
  <2>1. ASSUME NEW p \in Thread, p # t
        PROVE  pc'[p] = pc[p] /\ on'[p] = on[p] /\ req'[p] = req[p] /\ (Alts(p))' = Alts(p)
    BY <1>7, <2>1 DEF Alts
  <2> QED
    BY <1>1, <1>3, <1>4, <1>7, <1>i, <2>1 DEF CInv, PlaceInv, Waits
<1>10. EntryInv'
  <2>1. ASSUME NEW c \in Chan, NEW w, w \in Entries(c) \/ \E i \in K(c) : w = <<t, i>>
        PROVE  on'[w[1]] = w[1] /\ w[2] \in DOMAIN (req'[w[1]]).call.alts
               /\ (req'[w[1]]).call.alts[w[2]].c = c
    <3>1. CASE w \in Entries(c)
      <4>1. w[1] \in Thread /\ w[1] # t /\ on[w[1]] = w[1] /\ w[2] \in DOMAIN Alts(w[1])
            /\ Alts(w[1])[w[2]].c = c
        BY <1>i, <3>1, EntryIs DEF CInv
      <4> QED
        BY <1>7, <4>1 DEF Alts
    <3>2. CASE \E i \in K(c) : w = <<t, i>>
      BY <1>7, <3>2
    <3> QED
      BY <2>1, <3>1, <3>2
  <2>2. ASSUME NEW c \in Chan, NEW w \in Entries(c)'
        PROVE  on'[w[1]] = w[1] /\ w[2] \in DOMAIN (req'[w[1]]).call.alts
               /\ (req'[w[1]]).call.alts[w[2]].c = c
    BY <1>6, <2>1
  <2> QED
    BY <2>2 DEF EntryInv, Waits, Alts, Alt
<1>11. MeetInv'
  <2>1. ~HasMet(t)' /\ \A p \in Thread : p # t => (HasMet(p)' <=> HasMet(p))
    BY <1>4, <1>7 DEF HasMet
  <2>2. \A p, u \in Thread : Meets(p, u)' <=> Meets(p, u)
    BY <1>7, <1>i, <2>1, NilAssumption DEF Meets
  <2> QED
    BY <1>3, <1>7, <1>i, <2>1, <2>2 DEF CInv, MeetInv, Waits
<1>12. CloseInv'
  BY <1>4 DEF CInv, CloseInv
<1>13. GoneInv' /\ FreedInv'
  <2>1. freed \subseteq Chan /\ gone \subseteq freed
    BY DEF CInv, TypeOK
  <2>2. \A c \in gone : K(c) = {}
    BY <1>1, <2>1
  <2>3. \A c \in gone : Entries(c)' = {} /\ closed'[c] # 1
    BY <1>4, <1>6, <2>1, <2>2 DEF CInv, GoneInv
  <2>4. \A c \in Chan : Entries(c) # {} => Entries(c)' # {}
    BY <1>6
  <2>5. GoneInv'
    BY <1>4, <2>3 DEF GoneInv
  <2>6. FreedInv'
    BY <1>4, <2>1, <2>4 DEF CInv, FreedInv
  <2> QED
    BY <2>5, <2>6
<1>14. NamedInv'
  <2>1. \A c \in Chan : \A w \in Entries(c) : w \in Entries(c)'
    BY <1>6
  <2>2. UNCHANGED tag /\ \A u \in Thread : tag[u] \in Chan \cup {Nil}
    BY <1>3 DEF CInv, TypeOK
  <2> QED
    BY <2>1, <2>2 DEF CInv, NamedInv
<1> QED
  BY <1>8, <1>9, <1>10, <1>11, <1>12, <1>13, <1>14 DEF CInv

LEMMA AltInv ==
  ASSUME CInv, NEW t \in Thread, NEW r \in Request, pc[t] = "idle",
         calls < MaxCalls, alt(t, r)
  PROVE  CInv'
<1> DEFINE open == {i \in DOMAIN r.alts : isopenfor(r.alts[i])}
           can == {i \in open : canexec(r.alts[i])}
<1>1. IF can # {} THEN \E i \in can : altexec(t, r, i) ELSE Nothing(t, r, open)
  BY DEF alt
<1>2. ASSUME NEW i \in can, altexec(t, r, i) PROVE CInv'
  <2>1. i \in DOMAIN r.alts /\ canexec(r.alts[i])
    OBVIOUS
  <2>2. UNCHANGED qentry
        /\ IF Blocked(r.alts[i]) # {} THEN \E w \in Blocked(r.alts[i]) : Partner(t, r, i, w)
                                      ELSE Buffered(t, r, i)
    BY <1>2 DEF altexec
  <2> QED
    BY <2>1, <2>2, PartnerInv, BufferedInv
<1>3. CASE Nothing(t, r, open)
  <2>1. open \subseteq DOMAIN r.alts
    OBVIOUS
  <2> HIDE DEF open
  <2> QED
    BY <1>3, <2>1, GivesUpInv, BlocksInv
<1> QED
  BY <1>1, <1>2, <1>3
-----------------------------------------------------------------------------
(* chanclose and chanfree                                                  *)

(* A part of a close wakes one of those that it finds waiting, and goes to *)
(* meet it, or it is the end of the close.                                 *)
LEMMA CloseInvStep ==
  ASSUME CInv, NEW t \in Thread, NEW c \in Chan, NEW n \in Nat, Free(t), CloseFrom(t, c, n),
         closed[c] = 0 \/ closing[t] = c, pc[t] = "idle" => closed[c] = 0
  PROVE  CInv'
<1> DEFINE wakes == {i \in DOMAIN qentry[c] :
                  LET w == qentry[c][i] IN
                  i >= n /\ w # Nil /\ tag[w[1]] = Nil /\ Fails(w)}
<1>1. /\ UNCHANGED buf /\ UNCHANGED freed /\ UNCHANGED qentry /\ UNCHANGED req
      /\ UNCHANGED got /\ UNCHANGED a /\ UNCHANGED rendval /\ UNCHANGED rendbreak
      /\ UNCHANGED calls /\ UNCHANGED ints /\ ret' = Nil
  BY DEF CloseFrom, rendvars, bounds
<1>2. /\ \A p \in Thread : closing[p] = c => p = t
      /\ \A x : Entries(x)' = Entries(x)
  <2>1. c # Nil
    BY NilAssumption
  <2>2. \A p \in Thread : closing[p] = c => p = t
    BY <2>1 DEF CInv, CloseInv
  <2> QED
    BY <1>1, <2>2 DEF Entries
<1>3. /\ req[t] = Nil /\ on[t] # t /\ tag[t] = Nil /\ t \notin rendbreak
      /\ \A p \in Thread : ~Meets(p, t) /\ ~Meets(t, p)
      /\ \A x \in Chan : \A w \in Entries(x) : w[1] # t
      /\ c # Nil /\ t # Nil /\ freed \subseteq Chan /\ gone \subseteq freed
  BY FreeIs, NilAssumption DEF CInv, TypeOK
<1>4. CASE wakes # {}
  <2>1. PICK m \in wakes : m = Min(wakes)
    <3>1. qentry[c] \in Seq(Slot)
      BY DEF CInv, TypeOK
    <3>2. wakes \subseteq Nat
      BY <3>1
    <3> HIDE DEF wakes
    <3> QED
      BY <1>4, <3>2, MinIs
  <2>2. m \in Nat /\ m \in DOMAIN qentry[c] /\ qentry[c][m] # Nil /\ tag[qentry[c][m][1]] = Nil
    <3>1. qentry[c] \in Seq(Slot)
      BY DEF CInv, TypeOK
    <3> QED
      BY <3>1
  <2>3. qentry[c][m] \in Entries(c)
    BY <2>2 DEF Entries, Range
  <2>4. PICK u \in Thread : u = qentry[c][m][1]
    BY <2>3, EntryIs DEF CInv
  <2>5. /\ Waits(u) /\ tag[u] = Nil /\ \E i \in DOMAIN Alts(u) : Alts(u)[i].c = c
        /\ \E i \in Index : <<u, i>> \in Entries(c)
    BY <2>2, <2>3, <2>4, EntryIs DEF CInv, Waits
  <2>6. /\ tag' = [tag EXCEPT ![u] = c]
        /\ pc' = [pc EXCEPT ![t] = "rendez"] /\ on' = [on EXCEPT ![t] = u]
        /\ closing' = [closing EXCEPT ![t] = c] /\ next' = [next EXCEPT ![t] = m + 1]
        /\ closed' = [closed EXCEPT ![c] = 1] /\ UNCHANGED gone
    BY <1>4, <2>1, <2>4 DEF CloseFrom, GoMeet, Go
  <2>7. /\ closing'[t] = c /\ \A p \in Thread : p # t => closing'[p] = closing[p]
        /\ closed'[c] = 1 /\ \A x \in Chan : x # c => closed'[x] = closed[x]
    BY <2>6 DEF CInv, TypeOK
  <2>8. Commits(t, u, c)
    BY <1>1, <1>3, <2>6, <2>7 DEF Commits, rendvars
  <2>9. PlaceInv' /\ EntryInv' /\ MeetInv' /\ NamedInv'
    BY <2>5, <2>8, CommitsKeeps
  <2>10. TypeOK'
    <3>1. m + 1 \in Nat
      BY <2>2
    <3> HIDE DEF wakes
    <3>2. /\ tag' \in [Thread -> Chan \cup {Nil}]
          /\ pc' \in [Thread -> {"idle", "rendez", "asleep", "back"}]
          /\ on' \in [Thread -> Thread \cup {Nil}]
          /\ closing' \in [Thread -> Chan \cup {Nil}] /\ next' \in [Thread -> Nat]
          /\ closed' \in [Chan -> 0..2]
      BY <2>6, <3>1 DEF CInv, TypeOK
    <3> QED
      BY <1>1, <2>6, <3>2 DEF CInv, TypeOK
  <2>11. CloseInv'
    <3>1. \A p \in Thread : closing[p] \in Chan \cup {Nil}
      BY DEF CInv, TypeOK
    <3> QED
      BY <1>2, <1>3, <2>7, <3>1 DEF CInv, CloseInv
  <2>12. GoneInv' /\ FreedInv'
    <3>1. c \notin gone
      BY <2>3 DEF CInv, GoneInv
    <3> QED
      BY <1>1, <1>2, <1>3, <2>6, <2>7, <3>1 DEF CInv, GoneInv, FreedInv
  <2> QED
    BY <2>9, <2>10, <2>11, <2>12 DEF CInv
<1>5. CASE wakes = {}
  <2>1. /\ closed' = [closed EXCEPT ![c] = 2]
        /\ gone' = IF c \in freed /\ Entries(c) = {} THEN gone \cup {c} ELSE gone
        /\ closing' = [closing EXCEPT ![t] = Nil] /\ next' = [next EXCEPT ![t] = 1]
        /\ pc' = [pc EXCEPT ![t] = "idle"] /\ on' = [on EXCEPT ![t] = Nil] /\ UNCHANGED tag
    BY <1>5 DEF CloseFrom, Go
  <2> HIDE DEF wakes
  <2>2. /\ closing'[t] = Nil /\ pc'[t] = "idle" /\ on'[t] = Nil
        /\ \A p \in Thread : p # t => closing'[p] = closing[p] /\ pc'[p] = pc[p]
                                      /\ on'[p] = on[p]
        /\ closed'[c] = 2 /\ \A x \in Chan : x # c => closed'[x] = closed[x]
        /\ UNCHANGED tag
    BY <2>1 DEF CInv, TypeOK
  <2>3. TypeOK'
    <3>1. 1 \in Nat /\ 2 \in 0..2
      OBVIOUS
    <3>2. /\ pc' \in [Thread -> {"idle", "rendez", "asleep", "back"}]
          /\ on' \in [Thread -> Thread \cup {Nil}] /\ closed' \in [Chan -> 0..2]
          /\ closing' \in [Thread -> Chan \cup {Nil}] /\ next' \in [Thread -> Nat]
      BY <2>1, <3>1 DEF CInv, TypeOK
    <3>3. gone' \subseteq freed
      BY <1>3, <2>1
    <3> QED
      BY <1>1, <2>1, <3>2, <3>3 DEF CInv, TypeOK
  <2>4. \A p \in Thread : (on'[p] = p <=> on[p] = p) /\ (Alts(p))' = Alts(p)
    BY <1>1, <1>3, <2>2 DEF Alts
  <2>5. PlaceInv'
    BY <1>1, <1>3, <2>2, <2>4 DEF CInv, PlaceInv, Waits
  <2>6. EntryInv'
    <3>1. ASSUME NEW x \in Chan, NEW w \in Entries(x)
          PROVE  on'[w[1]] = w[1]
      <4>1. w[1] \in Thread /\ on[w[1]] = w[1]
        BY EntryIs DEF CInv
      <4> QED
        BY <2>4, <4>1
    <3> QED
      BY <1>1, <1>2, <3>1 DEF CInv, EntryInv, Waits, Alts, Alt
  <2>7. MeetInv'
    <3>1. \A p \in Thread : p # t => (HasMet(p)' <=> HasMet(p))
      BY <1>1, <2>2 DEF HasMet
    <3>2. \A p, u \in Thread : Meets(p, u)' => Meets(p, u) /\ p # t /\ u # t
      <4> SUFFICES ASSUME NEW p \in Thread, NEW u \in Thread, Meets(p, u)'
                   PROVE  Meets(p, u) /\ p # t /\ u # t
        OBVIOUS
      <4>1. p # t
        BY <2>2, NilAssumption DEF Meets
      <4>2. Meets(p, u)
        BY <2>2, <3>1, <4>1 DEF Meets
      <4> QED
        BY <1>3, <4>1, <4>2
    <3>3. ASSUME NEW p \in Thread, NEW u \in Thread, Meets(p, u)'
          PROVE  tag'[u] # Nil /\ ~HasMet(u)'
      BY <2>2, <3>1, <3>2, <3>3 DEF CInv, MeetInv
    <3>4. \A p, q, u \in Thread : Meets(p, u)' /\ Meets(q, u)' => p = q
      BY <3>2 DEF CInv, MeetInv
    <3>5. \A u \in Thread : on'[u] = u /\ HasMet(u)' => tag'[u] # Nil
      BY <1>3, <2>2, <3>1 DEF CInv, MeetInv, Waits
    <3> QED
      BY <3>3, <3>4, <3>5 DEF MeetInv, Waits
  <2>8. CloseInv'
    <3>1. \A p \in Thread : closing[p] \in Chan \cup {Nil}
      BY DEF CInv, TypeOK
    <3> QED
      BY <1>2, <2>2, <3>1 DEF CInv, CloseInv
  <2>9. GoneInv' /\ FreedInv'
    BY <1>1, <1>2, <1>3, <2>1, <2>2 DEF CInv, GoneInv, FreedInv
  <2>10. NamedInv'
    BY <1>2, <2>2 DEF CInv, NamedInv
  <2> QED
    BY <2>3, <2>5, <2>6, <2>7, <2>8, <2>9, <2>10 DEF CInv
<1> QED
  BY <1>4, <1>5

LEMMA ChancloseInv ==
  ASSUME CInv, NEW t \in Thread, CloseNext(t) \/ \E c \in Chan : chanclose(t, c)
  PROVE  CInv'
<1>1. CASE CloseNext(t)
  <2>1. /\ closing[t] \in Chan /\ next[t] \in Nat /\ Free(t) /\ pc[t] # "idle"
        /\ CloseFrom(t, closing[t], next[t])
    BY <1>1 DEF CloseNext, CInv, TypeOK, Free, HasMet
  <2> QED
    BY <2>1, CloseInvStep
<1>2. ASSUME NEW c \in Chan, chanclose(t, c) PROVE CInv'
  <2>1. closed[c] = 0 /\ Free(t) /\ CloseFrom(t, c, 1) /\ 1 \in Nat
    BY <1>2 DEF chanclose, Free
  <2> QED
    BY <2>1, CloseInvStep
<1> QED
  BY <1>1, <1>2

(* A channel is freed.                                                     *)
LEMMA ChanfreeInv ==
  ASSUME CInv, NEW t \in Thread, NEW c \in Chan, chanfree(t, c)
  PROVE  CInv'
<1>1. /\ UNCHANGED buf /\ UNCHANGED closed /\ UNCHANGED qentry /\ UNCHANGED req
      /\ UNCHANGED tag /\ UNCHANGED got /\ UNCHANGED a /\ UNCHANGED pc /\ UNCHANGED on
      /\ UNCHANGED closing /\ UNCHANGED next /\ UNCHANGED rendval
      /\ UNCHANGED rendbreak /\ UNCHANGED calls /\ UNCHANGED ints /\ ret' = Nil
  BY DEF chanfree, altvars, closevars, rendvars, bounds
<1>2. /\ freed' = freed \cup {c} /\ c \notin freed
      /\ gone' = IF closed[c] # 1 /\ Entries(c) = {} THEN gone \cup {c} ELSE gone
  BY DEF chanfree, _chanfree
<1>3. TypeOK'
  <2>1. freed' \subseteq Chan /\ gone' \subseteq freed'
    BY <1>2 DEF CInv, TypeOK
  <2> QED
    BY <1>1, <2>1 DEF CInv, TypeOK
<1>4. PlaceInv'
  BY <1>1 DEF CInv, PlaceInv, Waits, Alts
<1>5. EntryInv'
  BY <1>1 DEF CInv, EntryInv, Waits, Alts, Alt, Entries
<1>6. MeetInv'
  BY <1>1 DEF CInv, MeetInv, Waits, Meets, HasMet
<1>7. CloseInv'
  BY <1>1 DEF CInv, CloseInv
<1>8. \A x : Entries(x)' = Entries(x)
  BY <1>1 DEF Entries
<1>9. GoneInv' /\ FreedInv'
  BY <1>1, <1>2, <1>8 DEF CInv, GoneInv, FreedInv
<1>10. NamedInv'
  BY <1>1, <1>8 DEF CInv, NamedInv
<1> QED
  BY <1>3, <1>4, <1>5, <1>6, <1>7, <1>9, <1>10 DEF CInv
-----------------------------------------------------------------------------
LEMMA CInit == Init => CInv
<1> SUFFICES ASSUME Init PROVE CInv
  OBVIOUS
<1>1. \A c \in Chan : Entries(c) = {}
  BY DEF Init, Entries, Range
<1>2. TypeOK
  BY SizeAssumption, BoundAssumption DEF Init, TypeOK, Index
<1>3. \A t \in Thread : pc[t] = "idle" /\ on[t] = Nil /\ req[t] = Nil /\ closing[t] = Nil
                        /\ tag[t] = Nil /\ t # Nil
  BY NilAssumption DEF Init
<1>4. PlaceInv
  BY <1>3 DEF Init, PlaceInv
<1>5. EntryInv /\ CloseInv /\ NamedInv
  BY <1>1, <1>3 DEF EntryInv, CloseInv, NamedInv, Waits
<1>6. MeetInv
  BY <1>3 DEF MeetInv, Meets, Waits
<1>7. GoneInv /\ FreedInv
  BY DEF Init, GoneInv, FreedInv
<1> QED
  BY <1>2, <1>4, <1>5, <1>6, <1>7 DEF CInv

LEMMA CStep ==
  ASSUME CInv, [Next]_vars
  PROVE  CInv'
<1>1. ASSUME NEW t \in Thread, NEW r \in Request, pc[t] = "idle", calls < MaxCalls, alt(t, r)
      PROVE  CInv'
  BY <1>1, AltInv
<1>2. ASSUME NEW t \in Thread, Step(t)
      PROVE  CInv'
  BY <1>2, RendezvousInv, BackInv, MetInv, WaitEndsInv, ChancloseInv DEF Step
<1>3. ASSUME NEW t \in Thread, threadint(t)
      PROVE  CInv'
  BY <1>3, BreakInv
<1>4. ASSUME NEW t \in Thread, NEW c \in Chan, chanclose(t, c) \/ chanfree(t, c)
      PROVE  CInv'
  BY <1>4, ChancloseInv, ChanfreeInv
<1>5. CASE _threadbreakrendez
  BY <1>5, BreakInv
<1>6. CASE UNCHANGED vars
  <2>1. /\ UNCHANGED <<chanvars, altvars, on, closevars, calls>> /\ UNCHANGED pc
        /\ UNCHANGED rendval /\ UNCHANGED rendbreak /\ UNCHANGED ints /\ UNCHANGED ret
    BY <1>6 DEF vars, rendvars, bounds
  <2>2. /\ UNCHANGED buf /\ UNCHANGED closed /\ UNCHANGED freed /\ UNCHANGED gone
        /\ UNCHANGED qentry /\ UNCHANGED req /\ UNCHANGED tag /\ UNCHANGED got
        /\ UNCHANGED a /\ UNCHANGED on /\ UNCHANGED closing /\ UNCHANGED next
        /\ UNCHANGED calls
    BY <2>1 DEF chanvars, altvars, closevars
  <2>3. TypeOK'
    BY <2>1, <2>2 DEF CInv, TypeOK
  <2>4. PlaceInv' /\ CloseInv'
    BY <2>1, <2>2 DEF CInv, PlaceInv, CloseInv, Waits, Alts
  <2>5. EntryInv' /\ NamedInv' /\ GoneInv' /\ FreedInv'
    BY <2>1, <2>2 DEF CInv, EntryInv, NamedInv, GoneInv, FreedInv, Waits, Alts, Alt, Entries
  <2>6. MeetInv'
    BY <2>1, <2>2 DEF CInv, MeetInv, Waits, Meets, HasMet
  <2> QED
    BY <2>3, <2>4, <2>5, <2>6 DEF CInv
<1> QED
  BY <1>1, <1>2, <1>3, <1>4, <1>5, <1>6 DEF Next

(* What the invariant says of the memory of channels                       *)
LEMMA CInvFreed == CInv => FreedInTime
<1> SUFFICES ASSUME CInv PROVE FreedInTime
  OBVIOUS
<1>1. Nil \notin gone
  BY NilAssumption DEF CInv, TypeOK
<1>2. \A t \in Thread : tag[t] \notin gone
  BY <1>1 DEF CInv, NamedInv, GoneInv
<1>3. \A t \in Thread : closing[t] \notin gone
  BY <1>1 DEF CInv, CloseInv, GoneInv
<1>4. \A c \in freed : c \in gone <=> closed[c] # 1 /\ Entries(c) = {}
  BY DEF CInv, GoneInv, FreedInv
<1> QED
  BY <1>2, <1>3, <1>4 DEF CInv, FreedInTime

(* A channel's memory is never freed while somebody has an entry on it or  *)
(* is at its close, nor before one that was committed on it knows, and it  *)
(* is freed at once when the last of them is done, whatever the order of   *)
(* alts, closes, interrupts and rendezvous, and whenever chanfree is       *)
(* called.                                                                 *)
THEOREM ChanFreedInTime == Spec => []FreedInTime
<1>1. CInv /\ [Next]_vars => CInv'
  BY CStep
<1> QED
  BY <1>1, CInit, CInvFreed, PTL DEF Spec
-----------------------------------------------------------------------------
(* The refinement of ChanSpec.  What the algorithm keeps besides CInv says *)
(* what is in the buffers and who is on a queue.                           *)

(* A receiver waits only at an empty channel.                              *)
BufferInv ==
  \A c \in Chan : \A w \in Entries(c) :
    tag[w[1]] = Nil /\ Alt(w).op = "RCV" => buf[c] = <<>>

(* Nothing has been received by a call that nobody has committed.          *)
GotInv == \A t \in Thread : req[t] = Nil \/ Pending(t) => got[t] = 0

(* Arrays that name a channel once, and calls with such arrays.            *)
NamesOnce ==
  \A x \in Arrays : \A i, j \in DOMAIN x : x[i].c = x[j].c => i = j
OnceInv ==
  \A t \in Thread : req[t] # Nil =>
    \A i, j \in DOMAIN Alts(t) : Alts(t)[i].c = Alts(t)[j].c => i = j

(* A close leaves nobody behind who is not committed.                      *)
PassedInv ==
  \A t \in Thread : closing[t] # Nil =>
    \A i \in DOMAIN qentry[closing[t]] : i < next[t] =>
      LET w == qentry[closing[t]][i] IN w = Nil \/ tag[w[1]] # Nil

RInv == BufferInv /\ GotInv /\ OnceInv /\ PassedInv
-----------------------------------------------------------------------------
(* The calls as ChanSpec sees them                                         *)

(* p is to tell u that the channel is closed.                              *)
Failing(p, u) == closing[p] # Nil /\ on[p] = u /\ ~HasMet(p)

(* A call fails when one that closes the channel is yet to tell it so, or  *)
(* has told it and it is not back.                                         *)
LEMMA FailedIs ==
  ASSUME NEW u
  PROVE  FailedBy(u) <=> \/ \E p \in Thread : Failing(p, u)
                         \/ pc[u] = "back" /\ rendval[u] = "Closed"
  BY DEF FailedBy, Failing, HasMet

(* The call of u is what it was.                                           *)
Same(u) == Call(u)' = Call(u) /\ WaitsAt(u)' = WaitsAt(u) /\ Outcome(u)' = Outcome(u)

(* What a call is depends on the variables of its thread, its entries, and *)
(* whether its partner says that the channel was closed.                   *)
LEMMA SameIs ==
  ASSUME CInv, NEW u \in Thread,
         req'[u] = req[u], on'[u] = on[u], tag'[u] = tag[u], got'[u] = got[u], a'[u] = a[u],
         \A c \in Chan : \A i : <<u, i>> \in Entries(c)' <=> <<u, i>> \in Entries(c),
         Waits(u) /\ tag[u] # Nil => (FailedBy(u)' <=> FailedBy(u))
  PROVE  Same(u)
<1>1. (Pending(u)' <=> Pending(u)) /\ (Waits(u)' <=> Waits(u)) /\ (Alts(u))' = Alts(u)
  BY DEF Pending, Waits, Alts
<1>2. Call(u)' = Call(u)
  BY <1>1 DEF Call
<1>3. WaitsAt(u)' = WaitsAt(u)
  <2>1. CASE ~Pending(u)
    BY <1>1, <2>1 DEF WaitsAt
  <2>2. CASE Pending(u)
    <3>1. pc[u] # "idle" /\ closing[u] = Nil
      BY <2>2, NilAssumption DEF CInv, PlaceInv, Pending, Waits
    <3>2. \A i \in DOMAIN Alts(u) : Alts(u)[i].c \in Chan
      BY <3>1, FrameIs DEF CInv, PlaceInv
    <3>3. WaitsAt(u) = {i \in DOMAIN Alts(u) : <<u, i>> \in Entries(Alts(u)[i].c)}
      BY <2>2 DEF WaitsAt
    <3>4. WaitsAt(u)' = {i \in DOMAIN (Alts(u))' : <<u, i>> \in Entries(Alts(u)[i].c)'}
      BY <1>1, <2>2 DEF WaitsAt
    <3>5. \A i \in DOMAIN Alts(u) : <<u, i>> \in Entries(Alts(u)[i].c)'
                                  <=> <<u, i>> \in Entries(Alts(u)[i].c)
      BY <1>1, <3>2
    <3> QED
      BY <1>1, <3>3, <3>4, <3>5
  <2> QED
    BY <2>1, <2>2
<1>4. Outcome(u)' = Outcome(u)
  <2>1. CASE req[u] = Nil \/ Pending(u)
    BY <1>1, <2>1 DEF Outcome
  <2>2. CASE ~(req[u] = Nil \/ Pending(u)) /\ ~Waits(u)
    BY <1>1, <2>2 DEF Outcome
  <2>3. CASE ~(req[u] = Nil \/ Pending(u)) /\ Waits(u)
    <3>1. (FailedBy(u)' <=> FailedBy(u)) /\ Chosen(u)' = Chosen(u)
      BY <1>1, <2>3 DEF Pending, Chosen
    <3>2. FailedBy(u)' \in BOOLEAN /\ FailedBy(u) \in BOOLEAN
      BY DEF FailedBy
    <3>3. Outcome(u) = Result(Chosen(u), FailedBy(u), got[u])
      BY <2>3 DEF Outcome
    <3>4. Outcome(u)' = Result(Chosen(u)', FailedBy(u)', got'[u])
      BY <1>1, <2>3 DEF Outcome
    <3>5. FailedBy(u)' = FailedBy(u)
      BY <3>1, <3>2
    <3> QED
      BY <3>1, <3>3, <3>4, <3>5
  <2> QED
    BY <2>1, <2>2, <2>3
<1> QED
  BY <1>2, <1>3, <1>4 DEF Same

(* Those on whom a step of t has no bearing                                *)
LEMMA OthersSame ==
  ASSUME CInv, NEW t \in Thread, NEW u \in Thread, u # t,
         \A p \in Thread : p # t => pc'[p] = pc[p] /\ on'[p] = on[p] /\ closing'[p] = closing[p]
                                    /\ rendval'[p] = rendval[p],
         ~Failing(t, u), ~Failing(t, u)',
         req'[u] = req[u], tag'[u] = tag[u], got'[u] = got[u], a'[u] = a[u],
         \A c \in Chan : \A i : <<u, i>> \in Entries(c)' <=> <<u, i>> \in Entries(c)
  PROVE  Same(u)
<1>1. \A p \in Thread : Failing(p, u)' <=> Failing(p, u)
  BY DEF Failing, HasMet
<1>2. FailedBy(u)' <=> FailedBy(u)
  <2>1. FailedBy(u)' <=> \/ \E p \in Thread : Failing(p, u)'
                         \/ pc'[u] = "back" /\ rendval'[u] = "Closed"
    BY DEF FailedBy, Failing, HasMet
  <2> QED
    BY <1>1, <2>1, FailedIs
<1> QED
  BY <1>2, SameIs

(* The calls of one thread are done ...                                    *)
LEMMA OneIs ==
  ASSUME NEW t \in Thread, NEW res, \A u \in Thread : u # t => Same(u),
         Call(t)' = Nil, WaitsAt(t)' = {},
         \/ Outcome(t)' = res /\ ret' = Nil
         \/ Outcome(t)' = Outcome(t) /\ ret' = <<t, res>>
  PROVE  Promise!One(t, res)
<1> DEFINE r == [u \in {t} |-> res]
<1>1. DOMAIN r = {t} /\ r[t] = res
  OBVIOUS
<1> HIDE DEF r
<1>2. [u \in Thread |-> Call(u)]' = [u \in Thread |-> IF u \in DOMAIN r THEN Nil ELSE [p \in Thread |-> Call(p)][u]]
  BY <1>1 DEF Same
<1>3. [u \in Thread |-> WaitsAt(u)]' = [u \in Thread |-> IF u \in DOMAIN r THEN {} ELSE [p \in Thread |-> WaitsAt(p)][u]]
  BY <1>1 DEF Same
<1>4. CASE Outcome(t)' = res /\ ret' = Nil
  <2>1. [u \in Thread |-> Outcome(u)]' =
          [u \in Thread |-> IF u \in DOMAIN r \ {} THEN r[u] ELSE [p \in Thread |-> Outcome(p)][u]]
    BY <1>1, <1>4 DEF Same
  <2>2. {} \in {{}} \cup {{u} : u \in DOMAIN r}
    OBVIOUS
  <2>3. Promise!Done(r)
    BY <1>2, <1>3, <1>4, <2>1, <2>2 DEF Promise!Done
  <2> QED
    BY <2>3 DEF Promise!One, r
<1>5. CASE Outcome(t)' = Outcome(t) /\ ret' = <<t, res>>
  <2>1. [u \in Thread |-> Outcome(u)]' =
          [u \in Thread |-> IF u \in DOMAIN r \ {t} THEN r[u] ELSE [p \in Thread |-> Outcome(p)][u]]
    BY <1>1, <1>5 DEF Same
  <2>2. {t} \in {{}} \cup {{u} : u \in DOMAIN r} /\ {t} # {} /\ (CHOOSE u \in {t} : TRUE) = t
    BY <1>1
  <2>3. Promise!Done(r)
    BY <1>1, <1>2, <1>3, <1>5, <2>1, <2>2 DEF Promise!Done
  <2> QED
    BY <2>3 DEF Promise!One, r
<1> QED
  BY <1>4, <1>5

(* ... or of two.                                                          *)
LEMMA TwoIs ==
  ASSUME NEW t \in Thread, NEW u \in Thread, u # t, NEW res, NEW other,
         \A p \in Thread : p # t /\ p # u => Same(p), ret' = Nil,
         Call(t)' = Nil, WaitsAt(t)' = {}, Outcome(t)' = res,
         Call(u)' = Nil, WaitsAt(u)' = {}, Outcome(u)' = other
  PROVE  Promise!Two(t, res, u, other)
<1> DEFINE r == [w \in {t, u} |-> IF w = t THEN res ELSE other]
<1>1. DOMAIN r = {t, u} /\ r[t] = res /\ r[u] = other
  OBVIOUS
<1> HIDE DEF r
<1>2. [w \in Thread |-> Call(w)]' = [w \in Thread |-> IF w \in DOMAIN r THEN Nil ELSE [p \in Thread |-> Call(p)][w]]
  BY <1>1 DEF Same
<1>3. [w \in Thread |-> WaitsAt(w)]' = [w \in Thread |-> IF w \in DOMAIN r THEN {} ELSE [p \in Thread |-> WaitsAt(p)][w]]
  BY <1>1 DEF Same
<1>4. [w \in Thread |-> Outcome(w)]' =
          [w \in Thread |-> IF w \in DOMAIN r \ {} THEN r[w] ELSE [p \in Thread |-> Outcome(p)][w]]
  BY <1>1 DEF Same
<1>5. {} \in {{}} \cup {{w} : w \in DOMAIN r}
  OBVIOUS
<1>6. Promise!Done(r)
  BY <1>2, <1>3, <1>4, <1>5 DEF Promise!Done
<1> QED
  BY <1>6 DEF Promise!Two, r

(* Nothing is done.                                                        *)
LEMMA InternalIs ==
  ASSUME \A u \in Thread : Same(u), ret' = Nil, UNCHANGED <<buf, closed, calls>>
  PROVE  Promise!Internal
<1>1. /\ [u \in Thread |-> Call(u)]' = [u \in Thread |-> Call(u)]
      /\ [u \in Thread |-> WaitsAt(u)]' = [u \in Thread |-> WaitsAt(u)]
      /\ [u \in Thread |-> Outcome(u)]' = [u \in Thread |-> Outcome(u)]
  BY DEF Same
<1> QED
  BY <1>1 DEF Promise!Internal
-----------------------------------------------------------------------------
(* Steps that do nothing                                                   *)

Still ==
  /\ UNCHANGED <<buf, closed, qentry, altvars, on, closevars, calls>>
  /\ ret' = Nil

(* A step that changes no call but perhaps where its thread is             *)
LEMMA StillIs ==
  ASSUME CInv, RInv, Still,
         \A u \in Thread : Waits(u) /\ tag[u] # Nil => (FailedBy(u)' <=> FailedBy(u))
  PROVE  RInv' /\ Promise!Next
<1>1. /\ UNCHANGED buf /\ UNCHANGED closed /\ UNCHANGED qentry /\ UNCHANGED req
      /\ UNCHANGED tag /\ UNCHANGED got /\ UNCHANGED a /\ UNCHANGED on
      /\ UNCHANGED closing /\ UNCHANGED next /\ UNCHANGED calls /\ ret' = Nil
  BY DEF Still, altvars, closevars
<1>2. BufferInv'
  BY <1>1 DEF RInv, BufferInv, Alts, Alt, Entries
<1>3. GotInv' /\ OnceInv' /\ PassedInv'
  BY <1>1 DEF RInv, GotInv, OnceInv, PassedInv, Pending, Waits, Alts
<1>4. \A c : Entries(c)' = Entries(c)
  BY <1>1 DEF Entries
<1>5. \A u \in Thread : Same(u)
  BY <1>1, <1>4, SameIs
<1>6. Promise!Internal
  BY <1>1, <1>5, InternalIs
<1> QED
  BY <1>2, <1>3, <1>6 DEF RInv, Promise!Next

(* Nobody meets anybody, and nobody is told anything.                      *)
LEMMA StillAlone ==
  ASSUME CInv, RInv, Still, \A p \in Thread : HasMet(p)' <=> HasMet(p),
         \A p \in Thread : pc'[p] = "back" /\ rendval'[p] = "Closed"
                             <=> pc[p] = "back" /\ rendval[p] = "Closed"
  PROVE  RInv' /\ Promise!Next
<1>1. UNCHANGED on /\ UNCHANGED closing
  BY DEF Still, closevars
<1>2. ASSUME NEW u \in Thread PROVE FailedBy(u)' <=> FailedBy(u)
  BY <1>1 DEF FailedBy, HasMet
<1> QED
  BY <1>2, StillIs

(* Interrupts and going back after one                                     *)
LEMMA BreakRef ==
  ASSUME CInv, RInv,
         \/ _threadbreakrendez
         \/ \E t \in Thread : threadint(t) \/ Retry(t) \/ Again(t)
  PROVE  RInv' /\ Promise!Next
<1>t. /\ pc \in [Thread -> Places] /\ rendval \in [Thread -> Offers]
      /\ rendbreak \subseteq Thread /\ \A t \in rendbreak : pc[t] = "asleep"
      /\ "Closed" # Intred
  BY DEF CInv, TypeOK, PlaceInv, Places, Offers, Intred
<1>1. ASSUME NEW t \in Thread, threadint(t)
      PROVE  RInv' /\ Promise!Next
  <2>1. Still /\ UNCHANGED pc /\ UNCHANGED rendval
    BY <1>1 DEF threadint, Still, chanvars
  <2> QED
    BY <2>1, StillAlone DEF HasMet
<1>2. CASE _threadbreakrendez
  <2>1. /\ \A t \in Thread : pc'[t] = IF t \in rendbreak THEN "back" ELSE pc[t]
        /\ \A t \in Thread : rendval'[t] = IF t \in rendbreak THEN Intred ELSE rendval[t]
    BY <1>2, <1>t DEF _threadbreakrendez
  <2>2. Still
    BY <1>2 DEF _threadbreakrendez, Still, chanvars, bounds
  <2>4. \A p \in Thread : HasMet(p)' <=> HasMet(p)
    BY <1>t, <2>1 DEF HasMet
  <2>5. \A p \in Thread : pc'[p] = "back" /\ rendval'[p] = "Closed"
                             <=> pc[p] = "back" /\ rendval[p] = "Closed"
    BY <1>t, <2>1
  <2> QED
    BY <2>2, <2>4, <2>5, StillAlone
<1>3. ASSUME NEW t \in Thread, Retry(t) \/ Again(t)
      PROVE  RInv' /\ Promise!Next
  <2>1. /\ pc[t] = "back" /\ rendval[t] = Intred /\ pc' = [pc EXCEPT ![t] = "rendez"]
        /\ Still /\ UNCHANGED rendval
    BY <1>3 DEF Retry, Again, Go, Still, chanvars, bounds, rendvars
  <2>2. \A p \in Thread : pc'[p] = IF p = t THEN "rendez" ELSE pc[p]
    BY <1>t, <2>1
  <2> QED
    BY <1>t, <2>1, <2>2, StillAlone DEF HasMet
<1> QED
  BY <1>1, <1>2, <1>3

(* Two meet: one of them waits, and the other tells it whether the channel *)
(* is closed.                                                              *)
LEMMA RendezvousRef ==
  ASSUME CInv, RInv, NEW t \in Thread, Rendezvous(t)
  PROVE  RInv' /\ Promise!Next
<1>t. pc \in [Thread -> Places] /\ rendval \in [Thread -> Offers] /\ "Closed" # Intred /\ "met" # Intred
  BY DEF CInv, TypeOK, PlaceInv, Places, Offers, Intred
<1>u. /\ pc[t] = "rendez" /\ Still
      /\ UNCHANGED <<on, closing>>
  BY DEF Rendezvous, Still, chanvars, bounds, closevars
<1>1. CASE Go(t, "asleep") /\ UNCHANGED rendvars
  <2>1. \A p \in Thread : pc'[p] = IF p = t THEN "asleep" ELSE pc[p]
    BY <1>1, <1>t DEF Go
  <2> QED
    BY <1>1, <1>t, <1>u, <2>1, StillAlone DEF HasMet, rendvars
<1>2. ASSUME NEW w \in Thread, pc[w] = "asleep", on[w] = on[t],
             pc' = [pc EXCEPT ![w] = "back", ![t] = "back"],
             rendval' = [rendval EXCEPT ![w] = Offer(t), ![t] = Offer(w)]
      PROVE  RInv' /\ Promise!Next
  <2>1. w # t
    BY <1>u, <1>2
  <2>2. \A p \in Thread : /\ pc'[p] = IF p = w \/ p = t THEN "back" ELSE pc[p]
                          /\ rendval'[p] = IF p = w THEN Offer(t) ELSE IF p = t THEN Offer(w)
                                                             ELSE rendval[p]
    BY <1>2, <1>t, <2>1
  <2>3. Offer(t) # Intred /\ Offer(w) # Intred
        /\ (Offer(t) = "Closed" <=> closing[t] # Nil) /\ (Offer(w) = "Closed" <=> closing[w] # Nil)
    BY <1>t DEF Offer
  <2>4. PICK x \in Thread : x = on[t] /\ x = on[w]
    BY <1>u, <1>2 DEF CInv, PlaceInv
  <2>5. ~HasMet(t) /\ ~HasMet(w) /\ HasMet(t)' /\ HasMet(w)'
        /\ \A p \in Thread : p # t /\ p # w => (HasMet(p)' <=> HasMet(p))
    BY <1>u, <1>2, <2>2, <2>3 DEF HasMet
  <2>6. x = t \/ x = w
    BY <2>1, <2>4, <2>5 DEF CInv, MeetInv, Meets
  <2>7. PICK p \in Thread : p # x /\ {x, p} = {t, w}
    BY <2>1, <2>6
  <2>8. Meets(p, x) /\ \A q \in Thread : Meets(q, x) => q = p
    <3>1. p = t \/ p = w
      BY <2>7
    <3>2. Meets(p, x)
      BY <2>4, <2>5, <2>7, <3>1 DEF Meets
    <3> QED
      BY <3>2 DEF CInv, MeetInv
  <2>9. closing[x] = Nil
    BY <2>4, <2>6 DEF CInv, PlaceInv
  <2>10. rendval'[x] = "Closed" <=> closing[p] # Nil
    BY <2>2, <2>3, <2>7
  <2>11. FailedBy(x) <=> closing[p] # Nil
    <3>1. ~(pc[x] = "back")
      BY <1>u, <1>2, <2>6
    <3>2. \A q \in Thread : Failing(q, x) <=> q = p /\ closing[p] # Nil
      BY <2>8, <2>9 DEF Failing, Meets
    <3> QED
      BY <3>1, <3>2, FailedIs
  <2>12. FailedBy(x)' <=> closing[p] # Nil
    <3>1. pc'[x] = "back"
      BY <2>2, <2>6
    <3>2. ASSUME NEW q \in Thread, closing'[q] # Nil, on'[q] = x, ~HasMet(q)' PROVE FALSE
      <4>1. q # t /\ q # w /\ ~HasMet(q) /\ on[q] = x /\ closing[q] # Nil
        BY <1>u, <2>5, <3>2
      <4> QED
        BY <2>7, <2>8, <2>9, <4>1 DEF Meets
    <3> QED
      BY <2>10, <3>1, <3>2 DEF FailedBy, HasMet
  <2>13. ASSUME NEW u \in Thread, u # x, Waits(u) PROVE FailedBy(u)' <=> FailedBy(u)
    <3>1. u # t /\ u # w
      BY <2>4, <2>13 DEF Waits
    <3>2. pc'[u] = pc[u] /\ rendval'[u] = rendval[u]
      BY <2>2, <3>1
    <3>3. \A q \in Thread : Failing(q, u) => q # t /\ q # w
      BY <2>4, <2>13 DEF Failing
    <3>4. \A q \in Thread : closing'[q] # Nil /\ on'[q] = u /\ ~HasMet(q)' <=> Failing(q, u)
      BY <1>u, <2>4, <2>5, <2>13 DEF Failing
    <3> QED
      BY <3>2, <3>4 DEF FailedBy, Failing, HasMet
  <2> QED
    BY <1>u, <2>11, <2>12, <2>13, StillIs
<1> QED
  BY <1>1, <1>2 DEF Rendezvous

(* chanfree only says that the channel is to go.                           *)
LEMMA ChanfreeRef ==
  ASSUME CInv, RInv, NEW t \in Thread, NEW c \in Chan, chanfree(t, c)
  PROVE  RInv' /\ Promise!Next
<1>1. Still /\ UNCHANGED pc /\ UNCHANGED rendval
  BY DEF chanfree, Still, rendvars, bounds
<1> QED
  BY <1>1, StillAlone DEF HasMet
-----------------------------------------------------------------------------
(* Calls that return                                                       *)

(* t ends, and takes its entries, if it has any, off the channels.         *)
LEMMA EndsRInv ==
  ASSUME CInv, RInv, NEW t \in Thread, NEW res, Return(t, res), UNCHANGED closevars,
         \A c \in Chan : Entries(c)' = {w \in Entries(c) : w[1] # t},
         \A c \in Chan : \A w \in Entries(c) :
           w[1] # t /\ tag[w[1]] = Nil /\ Alt(w).op = "RCV" => buf'[c] = <<>>,
         \A c \in Chan : /\ DOMAIN qentry'[c] = DOMAIN qentry[c]
                         /\ \A i \in DOMAIN qentry[c] : qentry'[c][i] \in {qentry[c][i], Nil}
  PROVE  RInv'
<1>1. /\ \A u \in Thread : u # t => /\ req'[u] = req[u] /\ tag'[u] = tag[u]
                                    /\ got'[u] = got[u] /\ on'[u] = on[u]
      /\ req'[t] = Nil /\ tag'[t] = Nil /\ got'[t] = 0 /\ on'[t] = Nil
      /\ UNCHANGED closing /\ UNCHANGED next
  BY DEF CInv, TypeOK, Return, closevars
<1>2. BufferInv'
  <2>1. ASSUME NEW c \in Chan, NEW w \in Entries(c)', tag'[w[1]] = Nil, (Alt(w))'.op = "RCV"
        PROVE  buf'[c] = <<>>
    <3>1. w \in Entries(c) /\ w[1] # t
      BY <2>1
    <3>2. w[1] \in Thread
      BY <3>1, EntryIs DEF CInv
    <3>3. tag[w[1]] = Nil /\ Alt(w).op = "RCV"
      BY <1>1, <2>1, <3>1, <3>2 DEF Alt, Alts
    <3> QED
      BY <3>1, <3>3
  <2> QED
    BY <2>1 DEF BufferInv
<1>3. GotInv' /\ OnceInv'
  BY <1>1 DEF RInv, GotInv, OnceInv, Pending, Waits, Alts
<1>4. PassedInv'
  <2>1. ASSUME NEW p \in Thread, closing[p] # Nil, NEW c \in Chan, c = closing[p],
               NEW i \in DOMAIN qentry'[c], i < next[p], NEW w, w = qentry'[c][i], w # Nil
        PROVE  tag'[w[1]] # Nil
    <3>1. i \in DOMAIN qentry[c] /\ w = qentry[c][i]
      BY <2>1
    <3>2. w \in Entries(c)' /\ w \in Entries(c)
      BY <2>1, <3>1 DEF Entries, Range
    <3>3. tag[w[1]] # Nil
      BY <2>1, <3>1 DEF RInv, PassedInv
    <3>4. w[1] # t
      BY <3>2
    <3>5. w[1] \in Thread
      BY <3>2, EntryIs DEF CInv
    <3> QED
      BY <1>1, <3>3, <3>4, <3>5
  <2>2. \A p \in Thread : closing[p] \in Chan \cup {Nil}
    BY DEF CInv, TypeOK
  <2> QED
    BY <1>1, <2>1, <2>2 DEF PassedInv
<1> QED
  BY <1>2, <1>3, <1>4 DEF RInv

(* What is known of t then                                                 *)
LEMMA EndsCall ==
  ASSUME CInv, NEW t \in Thread, NEW res, Return(t, res)
  PROVE  /\ Call(t)' = Nil /\ WaitsAt(t)' = {} /\ Outcome(t)' = Nil /\ ret' = <<t, res>>
         /\ \A u \in Thread : u # t => pc'[u] = pc[u] /\ on'[u] = on[u] /\ req'[u] = req[u]
                                       /\ tag'[u] = tag[u] /\ got'[u] = got[u] /\ a'[u] = a[u]
         /\ on'[t] = Nil
<1>1. /\ req'[t] = Nil /\ on'[t] = Nil /\ t # Nil /\ ret' = <<t, res>>
      /\ \A u \in Thread : u # t => pc'[u] = pc[u] /\ on'[u] = on[u] /\ req'[u] = req[u]
                                       /\ tag'[u] = tag[u] /\ got'[u] = got[u] /\ a'[u] = a[u]
  BY NilAssumption DEF Return, Go, CInv, TypeOK
<1> QED
  BY <1>1 DEF Call, WaitsAt, Outcome, Pending, Waits

(* The others, when it was not on its way to tell anybody of a close       *)
LEMMA EndsOthers ==
  ASSUME CInv, NEW t \in Thread, NEW res, Return(t, res), UNCHANGED <<closing, rendval>>,
         closing[t] = Nil, \A c \in Chan : Entries(c)' = {w \in Entries(c) : w[1] # t},
         NEW u \in Thread, u # t
  PROVE  Same(u)
<1>1. /\ \A p \in Thread : p # t => pc'[p] = pc[p] /\ on'[p] = on[p] /\ closing'[p] = closing[p]
                                    /\ rendval'[p] = rendval[p]
      /\ req'[u] = req[u] /\ tag'[u] = tag[u] /\ got'[u] = got[u] /\ a'[u] = a[u]
  BY EndsCall
<1>2. ~Failing(t, u) /\ ~Failing(t, u)'
  BY DEF Failing
<1>3. \A c \in Chan : \A i : <<u, i>> \in Entries(c)' <=> <<u, i>> \in Entries(c)
  OBVIOUS
<1> QED
  BY <1>1, <1>2, <1>3, OthersSame

(* Met: the one that committed another returns.                            *)
LEMMA MetRef ==
  ASSUME CInv, RInv, NEW t \in Thread, Met(t)
  PROVE  RInv' /\ Promise!Next
<1> DEFINE res == Result(a[t], FALSE, got[t])
<1>1. /\ pc[t] = "back" /\ ~Waits(t) /\ closing[t] = Nil /\ Return(t, res)
      /\ UNCHANGED <<buf, closed, qentry, calls>>
      /\ UNCHANGED closevars /\ UNCHANGED <<closing, rendval>>
  BY DEF Met, chanvars, closevars, rendvars, bounds
<1>2. req[t] \in Frame /\ req[t] # Nil
  BY <1>1, NilAssumption DEF CInv, PlaceInv
<1>3. Outcome(t) = res
  BY <1>1, <1>2 DEF Outcome, Pending
<1>4. Outcome(t) # Nil
  <2>1. a[t] \in Index /\ got[t] \in {0} \cup Value /\ FALSE \in BOOLEAN
    BY DEF CInv, TypeOK
  <2>2. res \in Outcomes
    BY <2>1 DEF Result, Outcomes
  <2> QED
    BY <1>3, <2>2, NilAssumption
<1>5. \A c \in Chan : Entries(c)' = {w \in Entries(c) : w[1] # t}
  <2>1. \A c \in Chan : \A w \in Entries(c) : w[1] # t
    BY <1>1, EntryIs DEF CInv, Waits
  <2> QED
    BY <1>1, <2>1 DEF Entries
<1> HIDE DEF res
<1>6. RInv'
  <2>1. \A c \in Chan : \A w \in Entries(c) :
          w[1] # t /\ tag[w[1]] = Nil /\ Alt(w).op = "RCV" => buf'[c] = <<>>
    BY <1>1 DEF RInv, BufferInv
  <2> QED
    BY <1>1, <1>5, <2>1, EndsRInv
<1>7. \A u \in Thread : u # t => Same(u)
  BY <1>1, <1>5, EndsOthers
<1>8. Call(t) = Nil /\ WaitsAt(t) = {}
  BY <1>1 DEF Call, WaitsAt, Pending
<1>9. Promise!Return(t)
  <2>1. Call(t)' = Nil /\ WaitsAt(t)' = {} /\ Outcome(t)' = Nil /\ ret' = <<t, res>>
    BY <1>1, EndsCall
  <2>2. /\ [u \in Thread |-> Call(u)]' = [u \in Thread |-> Call(u)]
        /\ [u \in Thread |-> WaitsAt(u)]' = [u \in Thread |-> WaitsAt(u)]
        /\ [u \in Thread |-> Outcome(u)]' = [[u \in Thread |-> Outcome(u)] EXCEPT ![t] = Nil]
    BY <1>7, <1>8, <2>1 DEF Same
  <2> QED
    BY <1>1, <1>3, <1>4, <2>1, <2>2 DEF Promise!Return
<1> QED
  BY <1>6, <1>9 DEF Promise!Next

(* Chosen is the entry at a channel: an array names it once.               *)
LEMMA ChosenOnce ==
  ASSUME NEW n \in Nat, NEW S, S \subseteq 1..n, NEW i \in S, \A j \in S : j = i
  PROVE  Max(S) = i
<1>1. S \subseteq 0..n /\ S # {}
  OBVIOUS
<1> QED
  BY <1>1, MaxIs

(* A wait ends                                                             *)
LEMMA WaitEndsRef ==
  ASSUME CInv, RInv, NEW t \in Thread, Interrupted(t) \/ Chose(t)
  PROVE  RInv' /\ Promise!Next
<1> DEFINE res == IF Interrupted(t) THEN None
                  ELSE Result(Chosen(t), rendval[t] = "Closed", got[t])
<1>1. /\ pc[t] = "back" /\ Waits(t) /\ dequeue(t) /\ UNCHANGED <<buf, closed, calls>>
      /\ UNCHANGED closevars /\ UNCHANGED <<closing, rendval>>
  BY DEF Interrupted, Chose, dequeue, closevars, rendvars, bounds
<1>2. Return(t, res)
  BY DEF Interrupted, Chose
<1>3. closing[t] = Nil /\ req[t] # Nil
  BY <1>1, NilAssumption DEF CInv, PlaceInv, Waits
<1>4. \A c \in Chan : /\ DOMAIN qentry'[c] = DOMAIN qentry[c]
                      /\ \A i \in DOMAIN qentry[c] : qentry'[c][i] \in {qentry[c][i], Nil}
  BY <1>1 DEF dequeue, Without
<1>5. ASSUME NEW c \in Chan PROVE Entries(c)' = {w \in Entries(c) : w[1] # t}
  <2>1. qentry'[c] = Without(t, qentry[c]) /\ qentry[c] \in Seq(Slot)
    BY <1>1 DEF dequeue, CInv, TypeOK
  <2>2. \A x : x \in Entries(c)' <=> On(qentry'[c], x) /\ x # Nil
    BY DEF Entries, Range, On
  <2>3. \A x : x \in Entries(c) <=> On(qentry[c], x) /\ x # Nil
    BY EntriesOn
  <2>4. \A x : x # Nil => (On(qentry'[c], x) <=> On(qentry[c], x) /\ x[1] # t)
    BY <2>1, WithoutIs
  <2> QED
    BY <2>2, <2>3, <2>4
<1>6. Call(t)' = Nil /\ WaitsAt(t)' = {} /\ Outcome(t)' = Nil /\ ret' = <<t, res>>
  <2> HIDE DEF res
  <2> QED
    BY <1>2, EndsCall
<1>7. \A u \in Thread : u # t => Same(u)
  <2> HIDE DEF res
  <2> QED
    BY <1>1, <1>2, <1>3, <1>5, EndsOthers
<1>8. RInv'
  <2> HIDE DEF res
  <2>1. \A c \in Chan : \A w \in Entries(c) :
          w[1] # t /\ tag[w[1]] = Nil /\ Alt(w).op = "RCV" => buf'[c] = <<>>
    BY <1>1 DEF RInv, BufferInv
  <2> QED
    BY <1>1, <1>2, <1>4, <1>5, <2>1, EndsRInv
<1>9. CASE Interrupted(t)
  <2>1. Pending(t) /\ res = None
    BY <1>1, <1>9 DEF Interrupted, Pending, Meant
  <2>2. Call(t) # Nil /\ Outcome(t) = Nil
    BY <1>3, <2>1 DEF Call, Outcome
  <2>3. Promise!One(t, None)
    BY <1>6, <1>7, <2>1, <2>2, OneIs
  <2>4. Promise!Interrupt(t)
    BY <1>1, <2>2, <2>3 DEF Promise!Interrupt, Promise!None, Promise!Result, None, Result
  <2> QED
    BY <1>8, <2>4 DEF Promise!Next
<1>10. CASE ~Interrupted(t)
  <2>1. HasMet(t) /\ res = Result(Chosen(t), rendval[t] = "Closed", got[t])
    BY <1>10 DEF Chose, HasMet
  <2>2. tag[t] # Nil /\ ~Pending(t)
    BY <1>1, <2>1 DEF CInv, MeetInv, Pending
  <2>3. \A p \in Thread : ~Failing(p, t)
    BY <1>3, <2>1 DEF CInv, MeetInv, Failing, Meets
  <2>4. FailedBy(t) <=> rendval[t] = "Closed"
    BY <1>1, <2>3, FailedIs
  <2>5. FailedBy(t) = (rendval[t] = "Closed")
    <3>1. FailedBy(t) \in BOOLEAN
      BY DEF FailedBy
    <3> QED
      BY <2>4, <3>1
  <2>6. Outcome(t) = res
    BY <1>1, <1>3, <2>1, <2>2, <2>5 DEF Outcome
  <2>7. Outcome(t) # Nil
    <3>1. Chosen(t) \in Index
      BY <2>2, ChosenIs
    <3>2. got[t] \in {0} \cup Value
      BY DEF CInv, TypeOK
    <3>e. PICK e \in BOOLEAN : e = (rendval[t] = "Closed")
      OBVIOUS
    <3>3. Result(Chosen(t), e, got[t]) \in Outcomes
      BY <3>1, <3>2 DEF Result, Outcomes
    <3> QED
      BY <2>1, <2>6, <3>e, <3>3, NilAssumption
  <2>8. Call(t) = Nil /\ WaitsAt(t) = {}
    BY <2>2 DEF Call, WaitsAt
  <2> HIDE DEF res
  <2>9. Promise!Return(t)
    <3>1. /\ [u \in Thread |-> Call(u)]' = [u \in Thread |-> Call(u)]
          /\ [u \in Thread |-> WaitsAt(u)]' = [u \in Thread |-> WaitsAt(u)]
          /\ [u \in Thread |-> Outcome(u)]' = [[u \in Thread |-> Outcome(u)] EXCEPT ![t] = Nil]
      BY <1>6, <1>7, <2>8 DEF Same
    <3> QED
      BY <1>1, <1>6, <2>6, <2>7, <3>1 DEF Promise!Return
  <2> QED
    BY <1>8, <2>9 DEF Promise!Next
<1> QED
  BY <1>9, <1>10
-----------------------------------------------------------------------------
(* Closing                                                                 *)

(* The entry that tag names is the one for the channel that commits.       *)
LEMMA ChosenIsEntry ==
  ASSUME CInv, RInv, NEW u \in Thread, req[u] \in Frame, NEW k \in DOMAIN Alts(u),
         NEW c, Alts(u)[k].c = c, req'[u] = req[u], tag'[u] = c
  PROVE  Chosen(u)' = k
<1> DEFINE S == {i \in DOMAIN Alts(u) : Alts(u)[i].c = c}
<1>1. (Alts(u))' = Alts(u) /\ req[u] # Nil
  BY NilAssumption DEF Alts
<1>2. Chosen(u)' = Max(S)
  BY <1>1 DEF Chosen
<1>3. \A i, j \in DOMAIN Alts(u) : Alts(u)[i].c = Alts(u)[j].c => i = j
  BY <1>1 DEF RInv, OnceInv
<1>4. DOMAIN Alts(u) = 1..Len(Alts(u)) /\ Len(Alts(u)) \in Nat
  BY FrameIs, RequestIs
<1>5. S \subseteq 1..Len(Alts(u)) /\ k \in S /\ \A j \in S : j = k
  BY <1>3, <1>4
<1> HIDE DEF S
<1> QED
  BY <1>2, <1>4, <1>5, ChosenOnce

(* One that is free to go on has no call that can change.                  *)
LEMMA FreeSame ==
  ASSUME CInv, NEW t \in Thread, Free(t), req'[t] = req[t], on'[t] # t
  PROVE  Same(t)
<1>1. req[t] = Nil /\ on[t] # t
  BY FreeIs
<1> QED
  BY <1>1 DEF Same, Call, WaitsAt, Outcome, Pending, Waits

(* chanclose goes on from entry n, to the next that waits or to the end.   *)
LEMMA CloseFromRef ==
  ASSUME CInv, RInv, NEW t \in Thread, NEW c \in Chan, NEW n \in Nat, Free(t),
         CloseFrom(t, c, n), closed[c] = 0 \/ closing[t] = c, pc[t] = "idle" => closed[c] = 0,
         \A i \in DOMAIN qentry[c] : i < n =>
           LET w == qentry[c][i] IN w = Nil \/ tag[w[1]] # Nil
  PROVE  RInv' /\ Promise!Next
<1> DEFINE wakes == {i \in DOMAIN qentry[c] :
                  LET w == qentry[c][i] IN
                  i >= n /\ w # Nil /\ tag[w[1]] = Nil /\ Fails(w)}
<1>1. /\ UNCHANGED buf /\ UNCHANGED freed /\ UNCHANGED qentry /\ UNCHANGED req
      /\ UNCHANGED got /\ UNCHANGED a /\ UNCHANGED rendval
      /\ UNCHANGED calls /\ ret' = Nil
  BY DEF CloseFrom, rendvars, bounds
<1>2. \A x : Entries(x)' = Entries(x)
  BY <1>1 DEF Entries
<1>3. /\ req[t] = Nil /\ on[t] # t /\ tag[t] = Nil
      /\ \A x \in Chan : \A w \in Entries(x) : w[1] # t
      /\ c # Nil /\ t # Nil /\ \A u \in Thread : ~Failing(t, u)
      /\ qentry[c] \in Seq(Slot) /\ closed[c] # 2
  BY FreeIs, NilAssumption DEF CInv, TypeOK, PlaceInv, CloseInv, Free, Failing
<1>p. ASSUME NEW i \in DOMAIN qentry[c], NEW w, w = qentry[c][i], w # Nil, tag[w[1]] = Nil
      PROVE  Fails(w) /\ (Alts(w[1])[w[2]].op = "RCV" => buf[c] = <<>>)
  <2>1. w \in Entries(c)
    BY <1>p DEF Entries, Range
  <2>2. /\ w[1] \in Thread /\ req[w[1]] \in Frame /\ w[2] \in DOMAIN Alts(w[1])
        /\ Alts(w[1])[w[2]].c = c
    BY <2>1, EntryIs DEF CInv
  <2>3. Alts(w[1])[w[2]].op \in {"SND", "RCV"}
    BY <2>2, FrameIs DEF Entry
  <2>4. Alts(w[1])[w[2]].op = "RCV" => buf[c] = <<>>
    BY <1>p, <2>1 DEF RInv, BufferInv, Alt
  <2> QED
    BY <2>2, <2>3, <2>4 DEF Fails, Alt
<1>4. CASE wakes # {}
  <2>1. PICK m \in wakes : m = Min(wakes) /\ \A i \in wakes : m <= i
    <3>2. wakes \subseteq Nat
      BY <1>3
    <3> HIDE DEF wakes
    <3> QED
      BY <1>4, <3>2, MinIs
  <2>2. m \in Nat /\ m \in DOMAIN qentry[c] /\ qentry[c][m] # Nil /\ tag[qentry[c][m][1]] = Nil
    BY <1>3
  <2>3. qentry[c][m] \in Entries(c)
    BY <2>2 DEF Entries, Range
  <2>4. PICK w \in Entries(c) : w = qentry[c][m]
    BY <2>3
  <2>5. PICK u \in Thread, k \in Index : w = <<u, k>> /\ u = w[1] /\ k = w[2]
    BY <2>4, EntryIs DEF CInv
  <2>6. /\ Waits(u) /\ tag[u] = Nil /\ req[u] \in Frame /\ req[u] # Nil
        /\ k \in DOMAIN Alts(u) /\ Alts(u)[k].c = c /\ u # t
        /\ Alts(u)[k].op = "RCV" => buf[c] = <<>>
    <3>1. /\ on[u] = u /\ req[u] \in Frame /\ k \in DOMAIN Alts(u) /\ Alts(u)[k].c = c
      BY <2>4, <2>5, EntryIs DEF CInv
    <3>2. w # Nil /\ tag[w[1]] = Nil
      BY <2>2, <2>4
    <3>3. Alts(w[1])[w[2]].op = "RCV" => buf[c] = <<>>
      BY <1>p, <2>2, <2>4, <3>2
    <3>4. u # t
      BY <1>3, <2>5
    <3> QED
      BY <2>5, <3>1, <3>2, <3>3, <3>4, NilAssumption DEF Waits
  <2>7. /\ tag' = [tag EXCEPT ![u] = c]
        /\ pc' = [pc EXCEPT ![t] = "rendez"] /\ on' = [on EXCEPT ![t] = u]
        /\ closing' = [closing EXCEPT ![t] = c] /\ next' = [next EXCEPT ![t] = m + 1]
        /\ closed' = [closed EXCEPT ![c] = 1]
    BY <1>4, <2>1, <2>4, <2>5 DEF CloseFrom, GoMeet, Go
  <2>8. /\ closing'[t] = c /\ next'[t] = m + 1 /\ on'[t] = u /\ pc'[t] = "rendez" /\ tag'[u] = c
        /\ \A p \in Thread : p # t => closing'[p] = closing[p] /\ next'[p] = next[p]
                                      /\ on'[p] = on[p] /\ pc'[p] = pc[p]
        /\ \A p \in Thread : p # u => tag'[p] = tag[p]
    BY <2>7 DEF CInv, TypeOK
  <2>9. ASSUME NEW p \in Thread, p # u PROVE Same(p)
    <3>1. CASE p = t
      BY <1>1, <2>6, <2>8, <3>1, FreeSame
    <3>2. CASE p # t
      <4>1. ~Failing(t, p)'
        BY <2>8, <2>9 DEF Failing
      <4>2. /\ \A q \in Thread : q # t => pc'[q] = pc[q] /\ on'[q] = on[q] /\ closing'[q] = closing[q]
                                          /\ rendval'[q] = rendval[q]
            /\ req'[p] = req[p] /\ tag'[p] = tag[p] /\ got'[p] = got[p] /\ a'[p] = a[p]
        BY <1>1, <2>8, <2>9
      <4>3. \A x \in Chan : \A i : <<p, i>> \in Entries(x)' <=> <<p, i>> \in Entries(x)
        BY <1>2
      <4> QED
        BY <1>3, <3>2, <4>1, <4>2, <4>3, OthersSame
    <3> QED
      BY <3>1, <3>2
  <2>10. Pending(u) /\ Call(u) = req[u] /\ k \in WaitsAt(u) /\ got[u] = 0
    <3>1. Pending(u)
      BY <2>6 DEF Pending
    <3>2. <<u, k>> \in Entries(Alts(u)[k].c)
      BY <2>4, <2>5, <2>6
    <3> QED
      BY <2>6, <3>1, <3>2 DEF Call, WaitsAt, RInv, GotInv
  <2>11. Waits(u)' /\ ~Pending(u)' /\ Call(u)' = Nil /\ WaitsAt(u)' = {}
    BY <1>3, <2>6, <2>8 DEF Waits, Pending, Call, WaitsAt
  <2>12. Outcome(u)' = Result(k, TRUE, 0)
    <3>1. Chosen(u)' = k
      BY <1>1, <2>6, <2>8, ChosenIsEntry
    <3>2. FailedBy(u)'
      <4>1. closing'[t] # Nil /\ on'[t] = u /\ pc'[t] # "back"
        BY <1>3, <2>8
      <4> QED
        BY <4>1 DEF FailedBy
    <3>3. FailedBy(u)' = TRUE
      BY <3>2 DEF FailedBy
    <3>4. Outcome(u)' = Result(Chosen(u)', FailedBy(u)', got'[u])
      BY <1>1, <2>6, <2>11 DEF Outcome
    <3> QED
      BY <1>1, <2>10, <3>1, <3>3, <3>4
  <2>13. Promise!One(u, Result(k, TRUE, 0))
    BY <1>1, <2>9, <2>11, <2>12, OneIs
  <2>14. Promise!Fail(u, k)
    <3>1. [p \in Thread |-> Call(p)][u].call.alts[k] = Alts(u)[k]
      BY <2>10 DEF Alts
    <3> QED
      BY <1>1, <1>3, <2>6, <2>7, <2>13, <3>1 DEF Promise!Fail, Promise!Result, Result
  <2>15. Promise!Next
    BY <2>10, <2>14 DEF Promise!Next
  <2>16. BufferInv'
    <3>1. ASSUME NEW x \in Chan, NEW v \in Entries(x), tag'[v[1]] = Nil, Alt(v).op = "RCV"
          PROVE  buf[x] = <<>>
      <4>1. v[1] \in Thread
        BY EntryIs DEF CInv
      <4>2. tag[v[1]] = Nil
        BY <2>6, <2>8, <3>1, <4>1
      <4> QED
        BY <3>1, <4>2 DEF RInv, BufferInv
    <3> QED
      BY <1>1, <1>2, <3>1 DEF BufferInv, Alt, Alts
  <2>17. GotInv' /\ OnceInv'
    <3>1. \A p \in Thread : Pending(p)' => Pending(p)
      BY <1>3, <2>6, <2>8 DEF Pending, Waits
    <3> QED
      BY <1>1, <3>1 DEF RInv, GotInv, OnceInv, Alts
  <2>18. PassedInv'
    <3>1. ASSUME NEW p \in Thread, closing'[p] # Nil, NEW x \in Chan, x = closing'[p],
                 NEW i \in DOMAIN qentry[x], i < next'[p], NEW v, v = qentry[x][i], v # Nil
          PROVE  tag'[v[1]] # Nil
      <4>v. v \in Entries(x) /\ v[1] \in Thread
        <5>1. v \in Entries(x)
          BY <3>1 DEF Entries, Range
        <5> QED
          BY <5>1, EntryIs DEF CInv
      <4>1. CASE p # t
        <5>1. tag[v[1]] # Nil
          BY <2>8, <3>1, <4>1 DEF RInv, PassedInv
        <5> QED
          BY <1>3, <2>8, <4>v, <5>1
      <4>2. CASE p = t
        <5>1. x = c /\ i < m + 1 /\ i \in Nat
          BY <1>3, <2>8, <3>1, <4>2
        <5>2. CASE i = m
          <6>1. v = w
            BY <2>4, <3>1, <5>1, <5>2
          <6> QED
            BY <1>3, <2>5, <2>8, <6>1
        <5>3. CASE i # m
          <6> HIDE DEF wakes
          <6>1. i \notin wakes /\ i < m
            <7>1. i < m
              BY <2>2, <5>1, <5>3
            <7>2. ~(m <= i)
              BY <2>2, <5>1, <7>1
            <7> QED
              BY <2>1, <7>1, <7>2
          <6> USE DEF wakes
          <6>2. tag[v[1]] # Nil
            BY <1>p, <3>1, <5>1, <6>1
          <6> QED
            BY <1>3, <2>8, <4>v, <6>2
        <5> QED
          BY <5>2, <5>3
      <4> QED
        BY <4>1, <4>2
    <3>2. \A p \in Thread : closing'[p] \in Chan \cup {Nil}
      BY <2>7 DEF CInv, TypeOK
    <3> QED
      BY <1>1, <3>1, <3>2 DEF PassedInv
  <2> QED
    BY <2>15, <2>16, <2>17, <2>18 DEF RInv
<1>5. CASE wakes = {}
  <2>1. /\ closed' = [closed EXCEPT ![c] = 2]
        /\ closing' = [closing EXCEPT ![t] = Nil] /\ next' = [next EXCEPT ![t] = 1]
        /\ pc' = [pc EXCEPT ![t] = "idle"] /\ on' = [on EXCEPT ![t] = Nil] /\ UNCHANGED tag
    BY <1>5 DEF CloseFrom, Go
  <2>2. /\ closing'[t] = Nil /\ on'[t] = Nil
        /\ \A p \in Thread : p # t => closing'[p] = closing[p] /\ next'[p] = next[p]
                                      /\ on'[p] = on[p] /\ pc'[p] = pc[p]
        /\ UNCHANGED tag
    BY <2>1 DEF CInv, TypeOK
  <2>3. ASSUME NEW p \in Thread PROVE Same(p)
    <3>1. CASE p = t
      BY <1>1, <1>3, <2>2, <3>1, FreeSame
    <3>2. CASE p # t
      <4>1. ~Failing(t, p)'
        BY <2>2 DEF Failing
      <4>2. /\ \A q \in Thread : q # t => pc'[q] = pc[q] /\ on'[q] = on[q] /\ closing'[q] = closing[q]
                                          /\ rendval'[q] = rendval[q]
            /\ req'[p] = req[p] /\ tag'[p] = tag[p] /\ got'[p] = got[p] /\ a'[p] = a[p]
        BY <1>1, <2>2
      <4>3. \A x \in Chan : \A i : <<p, i>> \in Entries(x)' <=> <<p, i>> \in Entries(x)
        BY <1>2
      <4> QED
        BY <1>3, <3>2, <4>1, <4>2, <4>3, OthersSame
    <3> QED
      BY <3>1, <3>2
  <2>4. ASSUME NEW p \in Thread, NEW i \in WaitsAt(p) PROVE Call(p).call.alts[i].c # c
    <3>1. SUFFICES ASSUME Call(p).call.alts[i].c = c PROVE FALSE
      OBVIOUS
    <3>2. Pending(p)
      BY DEF WaitsAt
    <3>3. Call(p) = req[p] /\ Alts(p)[i].c = c /\ <<p, i>> \in Entries(c) /\ tag[p] = Nil
      BY <3>1, <3>2 DEF WaitsAt, Call, Alts, Pending
    <3>4. PICK j \in DOMAIN qentry[c] : qentry[c][j] = <<p, i>> /\ <<p, i>> # Nil
      BY <3>3 DEF Entries, Range
    <3>5. PICK w \in Entries(c) : w = <<p, i>> /\ w[1] = p
      BY <3>3
    <3>6. Fails(w) /\ w # Nil /\ tag[w[1]] = Nil /\ w = qentry[c][j]
      BY <1>p, <3>3, <3>4, <3>5
    <3>7. j \in Nat /\ (j >= n \/ j < n)
      BY <1>3
    <3>8. ~(j < n)
      BY <3>6
    <3>9. j \in wakes
      BY <3>6, <3>7, <3>8
    <3> QED
      BY <1>5, <3>9
  <2>5. Promise!Close(c)
    <3>1. /\ [u \in Thread |-> Call(u)]' = [u \in Thread |-> Call(u)]
          /\ [u \in Thread |-> WaitsAt(u)]' = [u \in Thread |-> WaitsAt(u)]
          /\ [u \in Thread |-> Outcome(u)]' = [u \in Thread |-> Outcome(u)]
      BY <2>3 DEF Same
    <3>2. \A p \in Thread : \A i \in [u \in Thread |-> WaitsAt(u)][p] :
            [u \in Thread |-> Call(u)][p].call.alts[i].c # c
      BY <2>4
    <3> QED
      BY <1>1, <2>1, <3>1, <3>2 DEF Promise!Close
  <2>6. BufferInv'
    BY <1>1, <1>2, <2>1 DEF RInv, BufferInv, Alt, Alts
  <2>7. GotInv' /\ OnceInv'
    <3>1. \A p \in Thread : Pending(p)' => Pending(p)
      BY <1>3, <2>2 DEF Pending, Waits
    <3> QED
      BY <1>1, <3>1 DEF RInv, GotInv, OnceInv, Alts
  <2>8. PassedInv'
    BY <1>1, <2>2 DEF RInv, PassedInv
  <2> QED
    BY <2>5, <2>6, <2>7, <2>8 DEF RInv, Promise!Next
<1> QED
  BY <1>4, <1>5

(* chanclose begins, or goes on when it has met the one that it woke.      *)
LEMMA ChancloseRef ==
  ASSUME CInv, RInv, NEW t \in Thread, CloseNext(t) \/ \E c \in Chan : chanclose(t, c)
  PROVE  RInv' /\ Promise!Next
<1>1. CASE CloseNext(t)
  <2>1. PICK c \in Chan, n \in Nat : c = closing[t] /\ n = next[t]
    BY <1>1 DEF CloseNext, CInv, TypeOK
  <2>2. /\ Free(t) /\ pc[t] # "idle" /\ CloseFrom(t, c, n) /\ closing[t] # Nil
    BY <1>1, <2>1 DEF CloseNext, Free, HasMet
  <2>3. \A i \in DOMAIN qentry[c] : i < n =>
          LET w == qentry[c][i] IN w = Nil \/ tag[w[1]] # Nil
    BY <2>1, <2>2 DEF RInv, PassedInv
  <2> QED
    BY <2>1, <2>2, <2>3, CloseFromRef
<1>2. ASSUME NEW c \in Chan, chanclose(t, c) PROVE RInv' /\ Promise!Next
  <2>1. closed[c] = 0 /\ Free(t) /\ CloseFrom(t, c, 1) /\ 1 \in Nat
    BY <1>2 DEF chanclose, Free
  <2>2. \A i \in DOMAIN qentry[c] : ~(i < 1)
    BY DEF CInv, TypeOK
  <2> QED
    BY <2>1, <2>2, CloseFromRef
<1> QED
  BY <1>1, <1>2
-----------------------------------------------------------------------------
(* alt                                                                     *)

(* Whoever is blocked on a channel is a partner.                           *)
LEMMA PartnersIs ==
  ASSUME CInv, NEW e \in Entry
  PROVE  Promise!Partners(e) = Blocked(e)
<1> DEFINE At(u) == {k \in [p \in Thread |-> WaitsAt(p)][u] :
                       /\ [p \in Thread |-> Call(p)][u].call.alts[k].c = e.c
                       /\ [p \in Thread |-> Call(p)][u].call.alts[k].op # e.op}
<1>c. PICK c \in Chan : c = e.c
  BY DEF Entry
<1>1. Promise!Partners(e) = UNION {{<<u, j>> : j \in At(u)} : u \in Thread}
  BY DEF Promise!Partners
<1>2. ASSUME NEW u \in Thread
      PROVE  At(u) = {k \in WaitsAt(u) : Call(u).call.alts[k].c = c /\ Call(u).call.alts[k].op # e.op}
  BY <1>c
<1> HIDE DEF At
<1>3. ASSUME NEW u \in Thread, NEW j \in At(u) PROVE <<u, j>> \in Blocked(e)
  <2>1. Pending(u)
    BY <1>2, <1>3 DEF WaitsAt
  <2>2. /\ j \in DOMAIN Alts(u) /\ <<u, j>> \in Entries(Alts(u)[j].c)
        /\ Alts(u)[j].c = c /\ Alts(u)[j].op # e.op /\ tag[u] = Nil
    BY <1>2, <1>3, <2>1 DEF WaitsAt, Call, Alts, Pending
  <2>3. PICK w \in Entries(c) : w = <<u, j>> /\ w[1] = u /\ w[2] = j
    BY <2>2
  <2> QED
    BY <1>c, <2>2, <2>3 DEF Blocked, Alt
<1>4. ASSUME NEW w \in Blocked(e) PROVE \E u \in Thread : \E j \in At(u) : w = <<u, j>>
  <2>1. w \in Entries(c) /\ tag[w[1]] = Nil /\ Alt(w).op # e.op
    BY <1>c DEF Blocked
  <2>2. PICK u \in Thread, j \in Index : w = <<u, j>> /\ u = w[1] /\ j = w[2]
    BY <2>1, EntryIs DEF CInv
  <2>3. Pending(u) /\ j \in DOMAIN Alts(u) /\ Alts(u)[j].c = c /\ Alts(u)[j].op # e.op
    BY <2>1, <2>2, EntryIs DEF CInv, Pending, Waits, Alt
  <2>4. Call(u).call.alts = Alts(u) /\ j \in WaitsAt(u)
    BY <2>1, <2>2, <2>3 DEF Call, Alts, WaitsAt
  <2>5. j \in At(u)
    BY <1>2, <2>3, <2>4
  <2> QED
    BY <2>2, <2>5
<1>5. \A w : w \in Promise!Partners(e) <=> \E u \in Thread : \E j \in At(u) : w = <<u, j>>
  BY <1>1
<1> QED
  BY <1>3, <1>4, <1>5

(* So the two agree on what can proceed.                                   *)
LEMMA CanIs ==
  ASSUME CInv, NEW e \in Entry
  PROVE  /\ Promise!Open(e) <=> isopenfor(e)
         /\ Promise!Can(e) <=> isopenfor(e) /\ canexec(e)
<1>1. Promise!Open(e) <=> isopenfor(e)
  BY DEF Promise!Open, isopenfor
<1> QED
  BY <1>1, PartnersIs DEF Promise!Can, canexec

(* A caller                                                                *)
LEMMA CallerIs ==
  ASSUME CInv, RInv, NEW t \in Thread, NEW r \in Request, pc[t] = "idle",
         calls < MaxCalls, alt(t, r)
  PROVE  /\ Promise!Idle(t) /\ on[t] = Nil /\ req[t] = Nil /\ tag[t] = Nil /\ got[t] = 0
         /\ closing[t] = Nil /\ calls' = calls + 1
         /\ Call(t) = Nil /\ WaitsAt(t) = {} /\ Outcome(t) = Nil
         /\ \A i \in DOMAIN r.alts : r.alts[i] \in Entry
         /\ UNCHANGED closed /\ UNCHANGED closing /\ UNCHANGED next /\ UNCHANGED rendval
<1>1. on[t] = Nil /\ req[t] = Nil /\ tag[t] = Nil /\ closing[t] = Nil /\ ~Waits(t)
  BY IdleIs DEF CInv
<1>2. got[t] = 0
  BY <1>1 DEF RInv, GotInv
<1>3. Call(t) = Nil /\ WaitsAt(t) = {} /\ Outcome(t) = Nil
  BY <1>1 DEF Call, WaitsAt, Outcome, Pending
<1>4. Promise!Idle(t)
  BY <1>3 DEF Promise!Idle
<1>5. calls' = calls + 1 /\ UNCHANGED closed /\ UNCHANGED closing /\ UNCHANGED next
      /\ UNCHANGED rendval
  BY DEF alt, closevars, rendvars
<1> QED
  BY <1>1, <1>2, <1>3, <1>4, <1>5, RequestIs

(* A call that is one of ChanSpec's                                        *)
LEMMA AltNext ==
  ASSUME CInv, RInv, NEW t \in Thread, NEW r \in Request, pc[t] = "idle",
         calls < MaxCalls, alt(t, r),
         \/ \E i \in DOMAIN r.alts : /\ isopenfor(r.alts[i]) /\ canexec(r.alts[i])
                                     /\ Promise!Meet(t, r, i) \/ Promise!Buffer(t, r, i)
         \/ /\ \A i \in DOMAIN r.alts : ~(isopenfor(r.alts[i]) /\ canexec(r.alts[i]))
            /\ Promise!Nothing(t, r)
  PROVE  Promise!Next
<1> DEFINE can == {i \in DOMAIN r.alts : Promise!Can(r.alts[i])}
<1>1. \A i \in DOMAIN r.alts : i \in can <=> isopenfor(r.alts[i]) /\ canexec(r.alts[i])
  BY CallerIs, CanIs
<1>2. Promise!Alt(t, r)
  <2>1. UNCHANGED closed
    BY CallerIs
  <2>2. Promise!Alt(t, r) <=>
          /\ IF can # {} THEN \E i \in can : Promise!Meet(t, r, i) \/ Promise!Buffer(t, r, i)
                         ELSE Promise!Nothing(t, r)
          /\ UNCHANGED closed
    BY DEF Promise!Alt
  <2> HIDE DEF can
  <2>3. can \subseteq DOMAIN r.alts
    BY DEF can
  <2> QED
    BY <1>1, <2>1, <2>2, <2>3
<1>3. calls' = calls + 1 /\ Promise!Idle(t)
  BY CallerIs
<1> QED
  BY <1>2, <1>3 DEF Promise!Next

(* A partner is waiting.                                                   *)
LEMMA PartnerRef ==
  ASSUME CInv, RInv, NamesOnce, NEW t \in Thread, NEW r \in Request, pc[t] = "idle",
         calls < MaxCalls, alt(t, r), NEW i \in DOMAIN r.alts, isopenfor(r.alts[i]),
         canexec(r.alts[i]), NEW w \in Blocked(r.alts[i]), Partner(t, r, i, w), UNCHANGED qentry
  PROVE  RInv' /\ Promise!Next
<1> DEFINE e == r.alts[i]
<1>c. PICK c \in Chan : c = e.c
  BY AltIs
<1>e. e \in Entry /\ e.op \in {"SND", "RCV"}
  BY CallerIs DEF Entry
<1>1. w \in Entries(c) /\ tag[w[1]] = Nil /\ Alt(w).op # e.op
  BY <1>c DEF Blocked
<1>2. PICK u \in Thread, k \in Index : w = <<u, k>> /\ u = w[1] /\ k = w[2]
  BY <1>1, EntryIs DEF CInv
<1>3. /\ on[u] = u /\ tag[u] = Nil /\ u # t /\ req[u] \in Frame /\ req[u] # Nil /\ closing[u] = Nil
      /\ k \in DOMAIN Alts(u) /\ Alts(u)[k].c = c /\ Alts(u)[k].op # e.op
  <2>1. /\ on[u] = u /\ req[u] \in Frame /\ k \in DOMAIN Alts(u) /\ Alts(u)[k].c = c
        /\ closing[u] = Nil
    BY <1>1, <1>2, EntryIs DEF CInv
  <2>2. on[t] = Nil /\ u # Nil
    BY CallerIs, NilAssumption
  <2> QED
    BY <1>1, <1>2, <2>1, <2>2, NilAssumption DEF Alt
<1>4. Pending(u) /\ Call(u) = req[u] /\ got[u] = 0 /\ ~HasMet(u)
      /\ \A q \in Thread : ~Meets(q, u)
  BY <1>3 DEF Pending, Waits, Call, RInv, GotInv, CInv, MeetInv
<1>5. PICK f \in Frame : f = [call |-> r, val |-> calls + 1] /\ f # Nil
  <2>1. calls + 1 \in Value
    BY AltIs
  <2>2. [call |-> r, val |-> calls + 1] \in Frame
    BY <2>1 DEF Frame
  <2> QED
    BY <2>2, NilAssumption
<1>6. /\ pc' = [pc EXCEPT ![t] = "rendez"] /\ on' = [on EXCEPT ![t] = u]
      /\ tag' = [tag EXCEPT ![u] = c] /\ req' = [req EXCEPT ![t] = f]
      /\ a' = [a EXCEPT ![t] = i] /\ ret' = Nil
      /\ IF e.op = "RCV"
         THEN /\ got' = [got EXCEPT ![t] = Head(Append(buf[c], req[u].val))]
              /\ buf' = [buf EXCEPT ![c] = Tail(Append(buf[c], req[u].val))]
         ELSE got' = [got EXCEPT ![u] = calls + 1] /\ UNCHANGED buf
  BY <1>c, <1>2, <1>5 DEF Partner, GoMeet, Go
<1>7. /\ UNCHANGED closed /\ UNCHANGED closing /\ UNCHANGED next /\ UNCHANGED rendval
      /\ closing[t] = Nil /\ calls' = calls + 1 /\ on[t] = Nil /\ got[t] = 0 /\ req[t] = Nil
      /\ c # Nil /\ t # Nil
  BY CallerIs, NilAssumption
<1>8. /\ pc'[t] = "rendez" /\ on'[t] = u /\ tag'[u] = c /\ req'[t] = f /\ a'[t] = i
      /\ \A p \in Thread : p # t => /\ pc'[p] = pc[p] /\ on'[p] = on[p] /\ req'[p] = req[p]
                                    /\ a'[p] = a[p]
      /\ \A p \in Thread : p # u => tag'[p] = tag[p]
      /\ \A p \in Thread : p # t /\ p # u => got'[p] = got[p]
      /\ e.op = "RCV" => got'[t] = Head(Append(buf[c], req[u].val)) /\ got'[u] = 0
      /\ e.op = "SND" => got'[t] = 0 /\ got'[u] = calls + 1
  BY <1>3, <1>4, <1>6, <1>7 DEF CInv, TypeOK
<1>9. \A x : Entries(x)' = Entries(x)
  BY DEF Entries
<1>b. Alts(u)[k].op = "RCV" => buf[c] = <<>>
  BY <1>1, <1>2, <1>3 DEF RInv, BufferInv, Alt
<1> HIDE DEF e
<1>10. ASSUME NEW p \in Thread, p # t, p # u PROVE Same(p)
  <2>1. ~Failing(t, p) /\ ~Failing(t, p)'
    BY <1>7 DEF Failing
  <2>2. /\ \A q \in Thread : q # t => pc'[q] = pc[q] /\ on'[q] = on[q] /\ closing'[q] = closing[q]
                                      /\ rendval'[q] = rendval[q]
        /\ req'[p] = req[p] /\ tag'[p] = tag[p] /\ got'[p] = got[p] /\ a'[p] = a[p]
    BY <1>7, <1>8, <1>10
  <2>3. \A x \in Chan : \A j : <<p, j>> \in Entries(x)' <=> <<p, j>> \in Entries(x)
    BY <1>9
  <2> QED
    BY <1>10, <2>1, <2>2, <2>3, OthersSame
<1>11. ~Waits(t)' /\ ~Pending(t)' /\ Waits(u)' /\ ~Pending(u)'
  BY <1>3, <1>7, <1>8 DEF Waits, Pending
<1>12. /\ Call(t)' = Nil /\ WaitsAt(t)' = {} /\ Outcome(t)' = Result(i, FALSE, got'[t])
  BY <1>5, <1>8, <1>11 DEF Call, WaitsAt, Outcome
<1>13. /\ Call(u)' = Nil /\ WaitsAt(u)' = {} /\ Outcome(u)' = Result(k, FALSE, got'[u])
  <2>1. Chosen(u)' = k
    BY <1>3, <1>8, ChosenIsEntry
  <2>2. FailedBy(u)' = FALSE
    <3>1. ASSUME NEW q \in Thread, closing'[q] # Nil, on'[q] = u,
                 ~(pc'[q] = "back" /\ rendval'[q] # Intred)
          PROVE  FALSE
      <4>1. q # t /\ q # u /\ on[q] = u /\ ~HasMet(q)
        BY <1>3, <1>7, <1>8, <3>1 DEF HasMet
      <4> QED
        BY <1>4, <4>1 DEF Meets
    <3>2. ~(pc'[u] = "back" /\ rendval'[u] = "Closed")
      BY <1>3, <1>4, <1>7, <1>8 DEF HasMet, Intred
    <3> QED
      BY <3>1, <3>2 DEF FailedBy
  <2>3. Outcome(u)' = Result(Chosen(u)', FailedBy(u)', got'[u])
    BY <1>3, <1>8, <1>11 DEF Outcome
  <2> QED
    BY <1>11, <2>1, <2>2, <2>3 DEF Call, WaitsAt
<1>14. Promise!Two(t, Result(i, FALSE, got'[t]), u, Result(k, FALSE, got'[u]))
  BY <1>3, <1>6, <1>10, <1>12, <1>13, TwoIs
<1>15. Promise!Meet(t, r, i)
  <2>1. w \in Promise!Partners(r.alts[i])
    BY <1>e, PartnersIs DEF e
  <2>2. [p \in Thread |-> Call(p)][u] = req[u]
    BY <1>4
  <2>3. CASE e.op = "SND"
    <3>1. buf[c] = <<>> /\ UNCHANGED buf
      <4>1. Alts(u)[k].op \in {"SND", "RCV"}
        BY <1>3, FrameIs DEF Entry
      <4> QED
        BY <1>3, <1>6, <1>b, <2>3, <4>1
    <3>2. Promise!Two(t, Promise!Result(i, FALSE, 0), u, Promise!Result(k, FALSE, calls + 1))
      BY <1>8, <1>14, <2>3 DEF Promise!Result, Result
    <3> QED
      BY <1>2, <1>c, <2>1, <2>3, <3>1, <3>2 DEF Promise!Meet, e
  <2>4. CASE e.op = "RCV"
    <3> DEFINE q == Append(buf[c], req[u].val)
    <3>1. Promise!Two(t, Promise!Result(i, FALSE, Head(q)), u, Promise!Result(k, FALSE, 0))
      BY <1>8, <1>14, <2>4 DEF Promise!Result, Result
    <3>2. buf' = [buf EXCEPT ![c] = Tail(q)]
      BY <1>6, <2>4
    <3>3. q = Append(buf[r.alts[i].c], [p \in Thread |-> Call(p)][u].val)
      BY <1>c, <2>2 DEF e
    <3> HIDE DEF q
    <3> QED
      BY <1>2, <1>c, <2>1, <2>4, <3>1, <3>2, <3>3 DEF Promise!Meet, e
  <2> QED
    BY <1>e, <2>3, <2>4
<1>16. Promise!Next
  BY <1>15, AltNext
<1>17. BufferInv'
  <2>1. ASSUME NEW x \in Chan, NEW v \in Entries(x), tag'[v[1]] = Nil, (Alt(v))'.op = "RCV"
        PROVE  buf'[x] = <<>>
    <3>1. v[1] \in Thread /\ on[v[1]] = v[1]
      BY EntryIs DEF CInv
    <3>2. v[1] # t /\ v[1] # u
      BY <1>7, <1>8, <2>1, <3>1
    <3>3. tag[v[1]] = Nil /\ Alt(v).op = "RCV"
      BY <1>8, <2>1, <3>1, <3>2 DEF Alt, Alts
    <3>4. buf[x] = <<>>
      BY <3>3 DEF RInv, BufferInv
    <3>5. CASE e.op = "RCV" /\ x = c
      <4>1. buf'[x] = Tail(Append(<<>>, req[u].val))
        BY <1>6, <3>4, <3>5 DEF CInv, TypeOK
      <4>2. req[u].val \in Value
        BY <1>3, FrameIs
      <4>3. Tail(Append(<<>>, req[u].val)) = <<>>
        BY <4>2
      <4> QED
        BY <4>1, <4>3
    <3>6. CASE ~(e.op = "RCV" /\ x = c)
      BY <1>6, <3>4, <3>6 DEF CInv, TypeOK
    <3> QED
      BY <3>5, <3>6
  <2> QED
    BY <1>9, <2>1 DEF BufferInv
<1>18. GotInv'
  <2>1. ASSUME NEW p \in Thread, p # t, p # u, req'[p] = Nil \/ Pending(p)'
        PROVE  got'[p] = 0
    BY <1>8, <2>1 DEF RInv, GotInv, Pending, Waits
  <2> QED
    BY <1>3, <1>5, <1>8, <1>11, <2>1 DEF GotInv
<1>19. OnceInv'
  <2>1. \A j, l \in DOMAIN r.alts : r.alts[j].c = r.alts[l].c => j = l
    BY RequestIs DEF NamesOnce
  <2>2. ASSUME NEW p \in Thread, req'[p] # Nil, NEW x, x = (Alts(p))'
        PROVE  \A j, l \in DOMAIN x : x[j].c = x[l].c => j = l
    <3>1. CASE p = t
      BY <1>5, <1>8, <2>1, <2>2, <3>1 DEF Alts
    <3>2. CASE p # t
      BY <1>8, <2>2, <3>2 DEF Alts, RInv, OnceInv
    <3> QED
      BY <3>1, <3>2
  <2> QED
    BY <2>2 DEF OnceInv
<1>20. PassedInv'
  <2>1. ASSUME NEW p \in Thread, closing[p] # Nil, NEW x \in Chan, x = closing[p],
               NEW j \in DOMAIN qentry[x], j < next[p], NEW v, v = qentry[x][j], v # Nil
        PROVE  tag'[v[1]] # Nil
    <3>1. v \in Entries(x)
      BY <2>1 DEF Entries, Range
    <3>2. v[1] \in Thread
      BY <3>1, EntryIs DEF CInv
    <3>3. tag[v[1]] # Nil
      BY <2>1 DEF RInv, PassedInv
    <3> QED
      BY <1>7, <1>8, <3>2, <3>3
  <2>2. \A p \in Thread : closing[p] \in Chan \cup {Nil}
    BY DEF CInv, TypeOK
  <2> QED
    BY <1>7, <2>1, <2>2 DEF PassedInv
<1> QED
  BY <1>16, <1>17, <1>18, <1>19, <1>20 DEF RInv

(* The call is answered at once.                                           *)
LEMMA AtOnce ==
  ASSUME CInv, RInv, NEW t \in Thread, NEW r \in Request, pc[t] = "idle",
         calls < MaxCalls, alt(t, r), UNCHANGED qentry, NEW res, Return(t, res),
         \A c \in Chan : \A w \in Entries(c) :
           tag[w[1]] = Nil /\ Alt(w).op = "RCV" => buf'[c] = <<>>
  PROVE  RInv' /\ Promise!One(t, res)
<1>1. /\ closing[t] = Nil /\ Outcome(t) = Nil /\ UNCHANGED closevars
      /\ UNCHANGED closing /\ UNCHANGED rendval
  BY CallerIs DEF closevars
<1>2. \A c \in Chan : Entries(c)' = {w \in Entries(c) : w[1] # t}
  <2>1. \A c \in Chan : \A w \in Entries(c) : w[1] # t
    BY IdleIs DEF CInv
  <2> QED
    BY <2>1 DEF Entries
<1>3. RInv'
  BY <1>1, <1>2, EndsRInv
<1>4. \A u \in Thread : u # t => Same(u)
  BY <1>1, <1>2, EndsOthers
<1>5. Call(t)' = Nil /\ WaitsAt(t)' = {} /\ Outcome(t)' = Nil /\ ret' = <<t, res>>
  BY EndsCall
<1> QED
  BY <1>1, <1>3, <1>4, <1>5, OneIs

(* With the buffer                                                         *)
LEMMA BufferedRef ==
  ASSUME CInv, RInv, NEW t \in Thread, NEW r \in Request, pc[t] = "idle",
         calls < MaxCalls, alt(t, r), NEW i \in DOMAIN r.alts, isopenfor(r.alts[i]),
         canexec(r.alts[i]), Blocked(r.alts[i]) = {}, Buffered(t, r, i), UNCHANGED qentry
  PROVE  RInv' /\ Promise!Next
<1> DEFINE e == r.alts[i]
<1>c. PICK c \in Chan : c = e.c
  BY AltIs
<1>e. e \in Entry /\ e.op \in {"SND", "RCV"}
  BY CallerIs DEF Entry
<1>1. Promise!Partners(r.alts[i]) = {}
  BY <1>e, PartnersIs
<1>b. buf \in [Chan -> Seq(Value)]
  BY DEF CInv, TypeOK
<1>2. CASE e.op = "RCV"
  <2> DEFINE res == Result(i, FALSE, Head(buf[c]))
  <2>1. buf' = [buf EXCEPT ![c] = Tail(@)] /\ Return(t, res)
    BY <1>c, <1>2 DEF Buffered
  <2>2. buf[c] # <<>>
    BY <1>1, <1>2, <1>c DEF canexec
  <2>3. \A x \in Chan : \A w \in Entries(x) :
          tag[w[1]] = Nil /\ Alt(w).op = "RCV" => buf'[x] = <<>>
    <3>1. ASSUME NEW x \in Chan, NEW w \in Entries(x), tag[w[1]] = Nil, Alt(w).op = "RCV"
          PROVE  buf'[x] = <<>>
      <4>1. buf[x] = <<>>
        BY <3>1 DEF RInv, BufferInv
      <4> QED
        BY <1>b, <2>1, <2>2, <4>1
    <3> QED
      BY <3>1
  <2> HIDE DEF res
  <2>4. RInv' /\ Promise!One(t, res)
    BY <2>1, <2>3, AtOnce
  <2>5. Promise!Buffer(t, r, i)
    BY <1>1, <1>2, <1>c, <2>1, <2>4 DEF Promise!Buffer, Promise!Result, Result, res
  <2> QED
    BY <2>4, <2>5, AltNext
<1>3. CASE e.op = "SND"
  <2> DEFINE res == Result(i, FALSE, 0)
  <2>1. buf' = [buf EXCEPT ![c] = Append(@, calls + 1)] /\ Return(t, res)
    BY <1>c, <1>3 DEF Buffered
  <2>3. \A x \in Chan : \A w \in Entries(x) :
          tag[w[1]] = Nil /\ Alt(w).op = "RCV" => buf'[x] = <<>>
    <3>1. ASSUME NEW x \in Chan, NEW w \in Entries(x), tag[w[1]] = Nil, Alt(w).op = "RCV"
          PROVE  buf'[x] = <<>>
      <4>1. buf[x] = <<>>
        BY <3>1 DEF RInv, BufferInv
      <4>2. x # c
        BY <1>3, <1>c, <3>1 DEF Blocked
      <4> QED
        BY <1>b, <2>1, <4>1, <4>2
    <3> QED
      BY <3>1
  <2> HIDE DEF res
  <2>4. RInv' /\ Promise!One(t, res)
    BY <2>1, <2>3, AtOnce
  <2>5. Promise!Buffer(t, r, i)
    BY <1>1, <1>3, <1>c, <2>1, <2>4 DEF Promise!Buffer, Promise!Result, Result, res
  <2> QED
    BY <2>4, <2>5, AltNext
<1> QED
  BY <1>e, <1>2, <1>3

(* Nothing can proceed, and the call does not wait.                        *)
LEMMA GivesUpRef ==
  ASSUME CInv, RInv, NEW t \in Thread, NEW r \in Request, pc[t] = "idle",
         calls < MaxCalls, alt(t, r),
         NEW open, open = {i \in DOMAIN r.alts : isopenfor(r.alts[i])},
         \A i \in open : ~canexec(r.alts[i]), Nothing(t, r, open), r.nb \/ open = {}
  PROVE  RInv' /\ Promise!Next
<1> DEFINE unknown == DOMAIN r.alts \ r.known
           res == IF r.nb THEN Result(Len(r.alts) + 1, FALSE, 0)
                  ELSE IF unknown = {} THEN None ELSE Result(Max(unknown), TRUE, 0)
<1>1. Return(t, res) /\ UNCHANGED qentry /\ UNCHANGED buf
  BY DEF Nothing
<1>2. \A x \in Chan : \A w \in Entries(x) :
        tag[w[1]] = Nil /\ Alt(w).op = "RCV" => buf'[x] = <<>>
  BY <1>1 DEF RInv, BufferInv
<1>3. RInv' /\ Promise!One(t, res)
  <2> HIDE DEF res
  <2> QED
    BY <1>1, <1>2, AtOnce
<1>4. {i \in DOMAIN r.alts : Promise!Open(r.alts[i])} = open
  BY CallerIs, CanIs
<1>5. unknown # {} => Max(unknown) \in unknown
  <2>1. unknown \subseteq 0..Len(r.alts) /\ Len(r.alts) \in Nat
    BY RequestIs
  <2> HIDE DEF unknown
  <2> QED
    BY <2>1, MaxIs
<1>6. Promise!Nothing(t, r)
  <2>1. CASE r.nb
    BY <1>1, <1>3, <2>1 DEF Promise!Nothing, Promise!Result, Result
  <2>2. CASE ~r.nb /\ unknown = {}
    <3>1. Promise!One(t, Promise!None)
      BY <1>3, <2>2 DEF Promise!None, Promise!Result, None, Result
    <3> QED
      BY <1>1, <1>4, <2>2, <3>1 DEF Promise!Nothing
  <2>3. CASE ~r.nb /\ unknown # {}
    <3>1. Max(unknown) \in unknown /\ Promise!One(t, Promise!Result(Max(unknown), TRUE, 0))
      BY <1>3, <1>5, <2>3 DEF Promise!Result, Result
    <3> QED
      BY <1>1, <1>4, <2>3, <3>1 DEF Promise!Nothing
  <2> QED
    BY <2>1, <2>2, <2>3
<1> HIDE DEF res, unknown
<1>7. \A i \in DOMAIN r.alts : ~(isopenfor(r.alts[i]) /\ canexec(r.alts[i]))
  OBVIOUS
<1> QED
  BY <1>3, <1>6, <1>7, AltNext

(* Nothing is put on a channel that alt does not name.                     *)
LEMMA PutsNone ==
  ASSUME NEW S, Nil \in S, NEW q \in Seq(S), NEW t, NEW n \in Nat
  PROVE  Puts(q, t, {}, n) = q
<1> DEFINE f == CHOOSE f : PutsRec(q, t, {}, n, f)
<1>1. PutsRec(q, t, {}, n, f)
  BY PutsExists
<1>2. Puts(q, t, {}, n) = f[n]
  BY DEF Puts, PutsRec
<1> HIDE DEF f
<1>3. f[0] = q /\ \A i \in 1..n : f[i] = f[i - 1]
  BY <1>1 DEF PutsRec
<1> DEFINE G == {i \in Nat : i <= n => f[i] = q}
<1>4. 0 \in G
  BY <1>3
<1>5. ASSUME NEW i \in Nat, i \in G PROVE i + 1 \in G
  <2> SUFFICES ASSUME i + 1 <= n PROVE f[i + 1] = q
    OBVIOUS
  <2>1. i + 1 \in 1..n /\ (i + 1) - 1 = i /\ i <= n
    OBVIOUS
  <2> QED
    BY <1>3, <1>5, <2>1
<1>6. n \in G
  <2> HIDE DEF G
  <2> QED
    BY <1>4, <1>5, NatInd
<1> QED
  BY <1>2, <1>6

(* t puts its entries K for one channel on it, and no others.              *)
LEMMA EnqueueIs ==
  ASSUME NEW t \in Thread, NEW n \in Nat, NEW K, K \subseteq 1..n,
         \A x : OneOf(x, t, K) => x \in Slot, NEW q \in Seq(Slot)
  PROVE  \A x : x \in Range(Puts(q, t, K, n)) \ {Nil} <=>
                  x \in Range(q) \ {Nil} \/ OneOf(x, t, K)
<1>1. Nil \in Slot
  BY DEF Slot
<1>2. PICK p : p = Puts(q, t, K, n)
  OBVIOUS
<1>3. \A i \in K : <<t, i>> \in Slot
  BY DEF OneOf
<1>4. /\ p \in Seq(Slot)
      /\ \A x : x # Nil => (On(p, x) <=> On(q, x) \/ OneOf(x, t, K))
  BY <1>1, <1>2, <1>3, PutsIs
<1>5. \A x : x \in Range(p) \ {Nil} <=> On(p, x) /\ x # Nil
  BY DEF Range, On
<1>6. \A x : x \in Range(q) \ {Nil} <=> On(q, x) /\ x # Nil
  BY DEF Range, On
<1>7. \A i \in K : <<t, i>> # Nil
  <2>1. \A i \in K : <<t, i>> \in Thread \X Nat
    OBVIOUS
  <2> QED
    BY <2>1, NilAssumption
<1>8. ASSUME NEW x
      PROVE  x \in Range(p) \ {Nil} <=>
             x \in Range(q) \ {Nil} \/ OneOf(x, t, K)
  <2>1. OneOf(x, t, K) => x # Nil
    BY <1>7 DEF OneOf
  <2>2. x # Nil => (On(p, x) <=> On(q, x) \/ OneOf(x, t, K))
    BY <1>4
  <2>3. /\ x \in Range(p) \ {Nil} <=> On(p, x) /\ x # Nil
        /\ x \in Range(q) \ {Nil} <=> On(q, x) /\ x # Nil
    BY <1>5, <1>6
  <2> QED
    BY <2>1, <2>2, <2>3
<1> QED
  BY <1>2, <1>8

(* t waits.                                                                *)
LEMMA BlocksRef ==
  ASSUME CInv, RInv, NamesOnce, NEW t \in Thread, NEW r \in Request, pc[t] = "idle",
         calls < MaxCalls, alt(t, r),
         NEW open, open = {i \in DOMAIN r.alts : isopenfor(r.alts[i])},
         \A i \in open : ~canexec(r.alts[i]), Nothing(t, r, open), ~r.nb, open # {}
  PROVE  RInv' /\ Promise!Next
<1>2. PICK f \in Frame : f = [call |-> r, val |-> calls + 1] /\ f # Nil
  <2>1. calls + 1 \in Value
    BY AltIs
  <2>2. [call |-> r, val |-> calls + 1] \in Frame
    BY <2>1 DEF Frame
  <2> QED
    BY <2>2, NilAssumption
<1>3. /\ pc' = [pc EXCEPT ![t] = "rendez"] /\ on' = [on EXCEPT ![t] = t]
      /\ req' = [req EXCEPT ![t] = f] /\ ret' = Nil
      /\ UNCHANGED buf /\ UNCHANGED tag /\ UNCHANGED got /\ UNCHANGED a
      /\ enqueue(t, r, open)
  BY <1>2 DEF Nothing, GoMeet, Go
<1>4. /\ UNCHANGED closed /\ UNCHANGED closing /\ UNCHANGED next /\ UNCHANGED rendval
      /\ closing[t] = Nil /\ got[t] = 0 /\ tag[t] = Nil /\ t # Nil
      /\ Outcome(t) = Nil /\ calls' = calls + 1
      /\ \A i \in DOMAIN r.alts : r.alts[i] \in Entry
  BY CallerIs, NilAssumption
<1>5. /\ on'[t] = t /\ req'[t] = f /\ f.call = r /\ pc'[t] = "rendez"
      /\ \A p \in Thread : p # t => pc'[p] = pc[p] /\ on'[p] = on[p] /\ req'[p] = req[p]
  BY <1>2, <1>3 DEF CInv, TypeOK
<1> DEFINE K(c) == {i \in open : r.alts[i].c = c}
<1>6. ASSUME NEW c \in Chan
      PROVE  /\ \A x : x \in Entries(c)' <=> x \in Entries(c) \/ OneOf(x, t, K(c))
             /\ K(c) = {} => qentry'[c] = qentry[c]
  <2>1. PICK k : k = {i \in open : r.alts[i].c = c}
    OBVIOUS
  <2>2. qentry'[c] = Puts(qentry[c], t, k, Len(r.alts)) /\ qentry[c] \in Seq(Slot)
    BY <1>3, <2>1 DEF enqueue, CInv, TypeOK
  <2>3. PICK q, p, n : q = qentry[c] /\ p = qentry'[c] /\ n = Len(r.alts)
    OBVIOUS
  <2>4. /\ \A x : x \in Range(p) \ {Nil} <=>
                    x \in Range(q) \ {Nil} \/ OneOf(x, t, k)
        /\ k = {} => p = q
    <3>1. /\ n \in Nat /\ k \subseteq 1..n /\ q \in Seq(Slot)
      BY <2>1, <2>2, <2>3, RequestIs
    <3>2. \A x : OneOf(x, t, k) => x \in Slot
      <4>1. \A i \in k : <<t, i>> \in Thread \X Index
        BY <2>1, RequestIs
      <4> QED
        BY <4>1 DEF OneOf, Slot
    <3>3. \A x : x \in Range(Puts(q, t, k, n)) \ {Nil} <=>
                   x \in Range(q) \ {Nil} \/ OneOf(x, t, k)
      BY <3>1, <3>2, EnqueueIs
    <3>4. k = {} => Puts(q, t, k, n) = q
      BY <3>1, PutsNone DEF Slot
    <3>5. p = Puts(q, t, k, n)
      BY <2>2, <2>3
    <3> QED
      BY <3>3, <3>4, <3>5
  <2>5. Entries(c) = Range(q) \ {Nil} /\ Entries(c)' = Range(p) \ {Nil}
    BY <2>3 DEF Entries
  <2>6. K(c) = k
    BY <2>1
  <2> HIDE DEF K
  <2> QED
    BY <2>3, <2>4, <2>5, <2>6
<1>7. \A c \in Chan : \A w \in Entries(c) : w[1] # t
  BY IdleIs DEF CInv
<1>8. ASSUME NEW p \in Thread, p # t PROVE Same(p)
  <2>1. ~Failing(t, p) /\ ~Failing(t, p)'
    BY <1>4 DEF Failing
  <2>2. /\ \A q \in Thread : q # t => pc'[q] = pc[q] /\ on'[q] = on[q] /\ closing'[q] = closing[q]
                                      /\ rendval'[q] = rendval[q]
        /\ req'[p] = req[p] /\ tag'[p] = tag[p] /\ got'[p] = got[p] /\ a'[p] = a[p]
    BY <1>3, <1>4, <1>5, <1>8
  <2>3. \A x \in Chan : \A j : <<p, j>> \in Entries(x)' <=> <<p, j>> \in Entries(x)
    <3>1. \A x \in Chan : \A j : ~OneOf(<<p, j>>, t, K(x))
      BY <1>8 DEF OneOf
    <3> QED
      BY <1>6, <3>1
  <2> QED
    BY <1>8, <2>1, <2>2, <2>3, OthersSame
<1>9. Pending(t)' /\ (Alts(t))' = r.alts
  BY <1>3, <1>4, <1>5 DEF Pending, Waits, Alts
<1>10. Call(t)' = f /\ Outcome(t)' = Nil
  BY <1>5, <1>9 DEF Call, Outcome
<1>11. WaitsAt(t)' = open
  <2>1. WaitsAt(t)' = {i \in DOMAIN r.alts : <<t, i>> \in Entries(r.alts[i].c)'}
    BY <1>9 DEF WaitsAt
  <2>2. ASSUME NEW i \in DOMAIN r.alts, NEW c \in Chan, c = r.alts[i].c
        PROVE  <<t, i>> \in Entries(c)' <=> i \in open
    <3>1. OneOf(<<t, i>>, t, K(c)) <=> i \in open
      BY <2>2 DEF OneOf
    <3>2. <<t, i>> \notin Entries(c)
      BY <1>7
    <3> QED
      BY <1>6, <3>1, <3>2
  <2>3. \A i \in DOMAIN r.alts : r.alts[i].c \in Chan
    BY <1>4 DEF Entry
  <2>4. \A i \in DOMAIN r.alts : <<t, i>> \in Entries(r.alts[i].c)' <=> i \in open
    BY <2>2, <2>3
  <2> HIDE DEF K
  <2> QED
    BY <2>1, <2>4
<1>12. Promise!Nothing(t, r)
  <2>1. [u \in Thread |-> WaitsAt(u)]' = [[u \in Thread |-> WaitsAt(u)] EXCEPT ![t] = open]
    BY <1>8, <1>11 DEF Same
  <2>2. [u \in Thread |-> Call(u)]' = [[u \in Thread |-> Call(u)] EXCEPT ![t] = f]
    BY <1>8, <1>10 DEF Same
  <2>3. [u \in Thread |-> Outcome(u)]' = [u \in Thread |-> Outcome(u)]
    BY <1>4, <1>8, <1>10 DEF Same
  <2>4. {i \in DOMAIN r.alts : Promise!Open(r.alts[i])} = open
    BY CallerIs, CanIs
  <2> QED
    BY <1>2, <1>3, <2>1, <2>2, <2>3, <2>4 DEF Promise!Nothing
<1>13. \A i \in DOMAIN r.alts : ~(isopenfor(r.alts[i]) /\ canexec(r.alts[i]))
  OBVIOUS
<1>14. Promise!Next
  BY <1>12, <1>13, AltNext
<1>15. ASSUME NEW c \in Chan, NEW i \in K(c)
       PROVE  r.alts[i].op = "RCV" => buf[c] = <<>> /\ closed[c] = 0
  BY <1>15 DEF canexec, isopenfor
<1>16. BufferInv'
  <2>1. ASSUME NEW x \in Chan, NEW v, v \in Entries(x)', tag[v[1]] = Nil, (Alt(v))'.op = "RCV"
        PROVE  buf[x] = <<>>
    <3>1. CASE v \in Entries(x)
      <4>1. v[1] \in Thread /\ v[1] # t
        BY <1>7, <3>1, EntryIs DEF CInv
      <4>2. Alt(v).op = "RCV"
        BY <1>5, <2>1, <4>1 DEF Alt, Alts
      <4> QED
        BY <2>1, <3>1, <4>2 DEF RInv, BufferInv
    <3>2. ASSUME NEW i \in K(x), v = <<t, i>> PROVE buf[x] = <<>>
      <4>1. v[1] = t /\ v[2] = i
        BY <3>2
      <4>2. r.alts[i].op = "RCV"
        BY <1>9, <2>1, <4>1 DEF Alt
      <4> QED
        BY <1>15, <4>2
    <3>3. OneOf(v, t, K(x)) => buf[x] = <<>>
      BY <3>2 DEF OneOf
    <3> HIDE DEF K
    <3> QED
      BY <1>6, <2>1, <3>1, <3>3
  <2> QED
    BY <1>3, <2>1 DEF BufferInv
<1>17. GotInv'
  BY <1>3, <1>4, <1>5 DEF RInv, GotInv, Pending, Waits
<1>18. OnceInv'
  <2>1. \A j, l \in DOMAIN r.alts : r.alts[j].c = r.alts[l].c => j = l
    BY RequestIs DEF NamesOnce
  <2>2. ASSUME NEW p \in Thread, req'[p] # Nil, NEW x, x = (Alts(p))'
        PROVE  \A j, l \in DOMAIN x : x[j].c = x[l].c => j = l
    <3>1. CASE p = t
      BY <1>9, <2>1, <2>2, <3>1
    <3>2. CASE p # t
      BY <1>5, <2>2, <3>2 DEF Alts, RInv, OnceInv
    <3> QED
      BY <3>1, <3>2
  <2> QED
    BY <2>2 DEF OnceInv
<1>19. PassedInv'
  <2>1. ASSUME NEW p \in Thread, closing[p] # Nil, NEW x \in Chan, x = closing[p]
        PROVE  qentry'[x] = qentry[x]
    <3>1. closed[x] = 1
      BY <2>1 DEF CInv, CloseInv
    <3>2. ASSUME NEW i \in K(x) PROVE FALSE
      <4>1. r.alts[i].op = "RCV" /\ buf[x] # <<>>
        BY <3>1 DEF isopenfor
      <4> QED
        BY <1>15, <4>1
    <3>3. K(x) = {}
      BY <3>2
    <3> HIDE DEF K
    <3> QED
      BY <1>6, <3>3
  <2>2. \A p \in Thread : closing[p] \in Chan \cup {Nil}
    BY DEF CInv, TypeOK
  <2>3. ASSUME NEW p \in Thread, closing[p] # Nil, NEW x \in Chan, x = closing[p],
               NEW j \in DOMAIN qentry'[x], j < next[p]
        PROVE  qentry'[x][j] = Nil \/ tag[qentry'[x][j][1]] # Nil
    BY <2>1, <2>3 DEF RInv, PassedInv
  <2> QED
    BY <1>3, <1>4, <2>2, <2>3 DEF PassedInv
<1> QED
  BY <1>14, <1>16, <1>17, <1>18, <1>19 DEF RInv

(* A call of alt, whichever way it goes                                    *)
LEMMA AltRef ==
  ASSUME CInv, RInv, NamesOnce, NEW t \in Thread, NEW r \in Request, pc[t] = "idle",
         calls < MaxCalls, alt(t, r)
  PROVE  RInv' /\ Promise!Next
<1> DEFINE open == {i \in DOMAIN r.alts : isopenfor(r.alts[i])}
           can == {i \in open : canexec(r.alts[i])}
<1>1. IF can # {} THEN \E i \in can : altexec(t, r, i) ELSE Nothing(t, r, open)
  BY DEF alt
<1>2. ASSUME NEW i \in can, altexec(t, r, i) PROVE RInv' /\ Promise!Next
  <2>1. i \in DOMAIN r.alts /\ canexec(r.alts[i]) /\ isopenfor(r.alts[i])
    OBVIOUS
  <2>2. UNCHANGED qentry
        /\ IF Blocked(r.alts[i]) # {} THEN \E w \in Blocked(r.alts[i]) : Partner(t, r, i, w)
                                      ELSE Buffered(t, r, i)
    BY <1>2 DEF altexec
  <2> QED
    BY <2>1, <2>2, PartnerRef, BufferedRef
<1>3. CASE can = {}
  <2>1. Nothing(t, r, open) /\ \A i \in open : ~canexec(r.alts[i])
    BY <1>1, <1>3
  <2> HIDE DEF can
  <2>2. PICK o : o = open
    OBVIOUS
  <2>3. o = {i \in DOMAIN r.alts : isopenfor(r.alts[i])}
    BY <2>2
  <2> HIDE DEF open
  <2> QED
    BY <2>1, <2>2, <2>3, GivesUpRef, BlocksRef
<1> QED
  BY <1>1, <1>2, <1>3
-----------------------------------------------------------------------------
(* At first nobody has called.                                             *)
LEMMA RInit == Init => RInv /\ Promise!Init
<1> SUFFICES ASSUME Init PROVE RInv /\ Promise!Init
  OBVIOUS
<1>1. \A c \in Chan : Entries(c) = {}
  BY DEF Init, Entries, Range
<1>2. \A t \in Thread : req[t] = Nil /\ got[t] = 0 /\ closing[t] = Nil /\ on[t] = Nil /\ t # Nil
  BY NilAssumption DEF Init
<1>3. RInv
  BY <1>1, <1>2 DEF RInv, BufferInv, GotInv, OnceInv, PassedInv
<1>4. \A t \in Thread : Call(t) = Nil /\ WaitsAt(t) = {} /\ Outcome(t) = Nil
  BY <1>2 DEF Call, WaitsAt, Outcome, Pending, Waits
<1> QED
  BY <1>3, <1>4 DEF Init, Promise!Init

(* Every step is one of ChanSpec's, or one that nobody notices.            *)
LEMMA RStep ==
  ASSUME NamesOnce, CInv, RInv, [Next]_vars
  PROVE  RInv' /\ [Promise!Next]_(Promise!vars)
<1>1. ASSUME NEW t \in Thread, NEW r \in Request, pc[t] = "idle", calls < MaxCalls, alt(t, r)
      PROVE  RInv' /\ Promise!Next
  BY <1>1, AltRef
<1>2. ASSUME NEW t \in Thread, Step(t)
      PROVE  RInv' /\ Promise!Next
  BY <1>2, RendezvousRef, BreakRef, MetRef, WaitEndsRef, ChancloseRef DEF Step
<1>3. ASSUME NEW t \in Thread, threadint(t)
      PROVE  RInv' /\ Promise!Next
  BY <1>3, BreakRef
<1>4. ASSUME NEW t \in Thread, NEW c \in Chan, chanclose(t, c) \/ chanfree(t, c)
      PROVE  RInv' /\ Promise!Next
  BY <1>4, ChancloseRef, ChanfreeRef
<1>5. CASE _threadbreakrendez
  BY <1>5, BreakRef
<1>6. CASE UNCHANGED vars
  <2>1. /\ UNCHANGED buf /\ UNCHANGED closed /\ UNCHANGED qentry /\ UNCHANGED req
        /\ UNCHANGED tag /\ UNCHANGED got /\ UNCHANGED a /\ UNCHANGED on /\ UNCHANGED pc
        /\ UNCHANGED closing /\ UNCHANGED next /\ UNCHANGED calls /\ UNCHANGED rendval
        /\ UNCHANGED ret
    BY <1>6 DEF vars, chanvars, altvars, closevars, rendvars, bounds
  <2>2. RInv'
    BY <2>1 DEF RInv, BufferInv, GotInv, OnceInv, PassedInv, Pending, Waits, Alts, Alt, Entries
  <2>3. \A u \in Thread : Same(u)
    BY <2>1, SameIs DEF Entries, FailedBy
  <2>4. UNCHANGED Promise!vars
    <3>1. /\ [u \in Thread |-> Call(u)]' = [u \in Thread |-> Call(u)]
          /\ [u \in Thread |-> WaitsAt(u)]' = [u \in Thread |-> WaitsAt(u)]
          /\ [u \in Thread |-> Outcome(u)]' = [u \in Thread |-> Outcome(u)]
      BY <2>3 DEF Same
    <3> QED
      BY <2>1, <3>1 DEF Promise!vars
  <2> QED
    BY <2>2, <2>4
<1> QED
  BY <1>1, <1>2, <1>3, <1>4, <1>5, <1>6 DEF Next

(* For arrays that name each channel once, every behaviour of the algorithm *)
(* is one of the channels that thread(2) describes: each call of alt,      *)
(* committed by a partner, by a close or by itself, interrupted or not, is *)
(* one atomic operation, with the result that it returns.  MCChanTwice.cfg *)
(* shows that the condition on arrays is needed.                           *)
THEOREM ChanImplementsSpec == NamesOnce => (Spec => ImplementsChan)
<1> SUFFICES ASSUME NamesOnce PROVE Spec => ImplementsChan
  OBVIOUS
<1>1. CInv /\ RInv /\ [Next]_vars => (CInv /\ RInv)' /\ [Promise!Next]_(Promise!vars)
  BY CStep, RStep
<1>2. Init => CInv /\ RInv /\ Promise!Init
  BY CInit, RInit
<1> QED
  BY <1>1, <1>2, PTL DEF Spec, ImplementsChan, Promise!Spec
=============================================================================
