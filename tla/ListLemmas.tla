---------------------------- MODULE ListLemmas ----------------------------
(***************************************************************************)
(* Facts about the kernel's lists of processes, linked head to tail through *)
(* Proc.qnext, as sequences: what joining at the tail and leaving from the *)
(* head do to who is on the list.                                          *)
(***************************************************************************)
EXTENDS Lists, WellFoundedInduction, TLAPS

On(s, x) == \E i \in DOMAIN s : s[i] = x

Distinct(s) == \A i, j \in DOMAIN s : s[i] = s[j] => i = j

(* Appending an element adds that element and no other.                    *)
LEMMA AppendOn ==
  ASSUME NEW S, NEW s \in Seq(S), NEW x \in S, NEW y
  PROVE  On(Append(s, x), y) <=> On(s, y) \/ y = x
<1>1. /\ DOMAIN s = 1 .. Len(s) /\ Len(s) \in Nat
      /\ DOMAIN Append(s, x) = 1 .. Len(s) + 1
      /\ \A i \in 1 .. Len(s) : Append(s, x)[i] = s[i]
      /\ Append(s, x)[Len(s) + 1] = x
  OBVIOUS
<1>2. ASSUME On(Append(s, x), y) PROVE On(s, y) \/ y = x
  <2>1. PICK i \in 1 .. Len(s) + 1 : Append(s, x)[i] = y
    BY <1>1, <1>2 DEF On
  <2>2. CASE i = Len(s) + 1
    BY <1>1, <2>1, <2>2
  <2>3. CASE i # Len(s) + 1
    BY <1>1, <2>1, <2>3 DEF On
  <2> QED
    BY <2>2, <2>3
<1>3. ASSUME On(s, y) PROVE On(Append(s, x), y)
  BY <1>1, <1>3 DEF On
<1>4. On(Append(s, x), x)
  BY <1>1 DEF On
<1> QED
  BY <1>2, <1>3, <1>4

(* The head of a list is on it.                                            *)
LEMMA HeadOn ==
  ASSUME NEW S, NEW s \in Seq(S), s # <<>>
  PROVE  Head(s) \in S /\ On(s, Head(s))
  BY DEF On

(* Nobody is on the empty list.                                            *)
LEMMA NoneOn ==
  ASSUME NEW x
  PROVE  ~On(<<>>, x)
<1>1. DOMAIN <<>> = {}
  OBVIOUS
<1> QED
  BY <1>1 DEF On

(* Unlinking the head of a list without duplicates removes that element    *)
(* and no other.                                                           *)
LEMMA TailOn ==
  ASSUME NEW S, NEW s \in Seq(S), Distinct(s), s # <<>>, NEW x
  PROVE  On(Tail(s), x) <=> On(s, x) /\ x # Head(s)
<1>1. /\ DOMAIN s = 1 .. Len(s)
      /\ DOMAIN Tail(s) = 1 .. Len(s) - 1
      /\ \A i \in 1 .. Len(s) - 1 : Tail(s)[i] = s[i + 1]
      /\ Head(s) = s[1]
      /\ Len(s) \in Nat \ {0}
  OBVIOUS
<1>2. ASSUME On(Tail(s), x) PROVE On(s, x) /\ x # Head(s)
  <2>1. PICK i \in 1 .. Len(s) - 1 : s[i + 1] = x
    BY <1>1, <1>2 DEF On
  <2>2. i + 1 \in DOMAIN s /\ 1 \in DOMAIN s /\ i + 1 # 1
    BY <1>1, <2>1
  <2> QED
    BY <1>1, <2>1, <2>2 DEF Distinct, On
<1>3. ASSUME On(s, x), x # Head(s) PROVE On(Tail(s), x)
  <2>1. PICK i \in 1 .. Len(s) : s[i] = x
    BY <1>1, <1>3 DEF On
  <2>2. i - 1 \in 1 .. Len(s) - 1 /\ s[(i - 1) + 1] = x
    BY <1>1, <1>3, <2>1
  <2>3. i - 1 \in DOMAIN Tail(s) /\ Tail(s)[i - 1] = x
    BY <1>1, <2>2
  <2> QED
    BY <2>3 DEF On
<1> QED
  BY <1>2, <1>3

(* Putting an element at the head adds that element and no other.          *)
LEMMA ConsOn ==
  ASSUME NEW S, NEW s \in Seq(S), NEW x \in S
  PROVE  /\ <<x>> \o s \in Seq(S) /\ Len(<<x>> \o s) = Len(s) + 1
         /\ \A y : On(<<x>> \o s, y) <=> y = x \/ On(s, y)
         /\ Distinct(s) /\ ~On(s, x) => Distinct(<<x>> \o s)
<1> DEFINE q == <<x>> \o s
           n == Len(s)
<1>1. /\ n \in Nat /\ DOMAIN s = 1..n
      /\ q \in Seq(S) /\ Len(q) = n + 1 /\ DOMAIN q = 1..n + 1
      /\ q[1] = x /\ \A k \in 1..n : q[k + 1] = s[k]
  OBVIOUS
<1> HIDE DEF q, n
<1>2. \A k \in DOMAIN q : k = 1 \/ (k - 1 \in DOMAIN s /\ q[k] = s[k - 1])
  <2> SUFFICES ASSUME NEW k \in 1..n + 1, k # 1 PROVE k - 1 \in 1..n /\ q[k] = s[k - 1]
    BY <1>1
  <2>1. k - 1 \in 1..n /\ (k - 1) + 1 = k
    BY <1>1
  <2> QED
    BY <1>1, <2>1
<1>3. ASSUME NEW y PROVE On(q, y) <=> y = x \/ On(s, y)
  <2>1. ASSUME On(q, y) PROVE y = x \/ On(s, y)
    BY <1>1, <1>2, <2>1 DEF On
  <2>2. On(q, x)
    BY <1>1 DEF On
  <2>3. ASSUME On(s, y) PROVE On(q, y)
    <3>1. PICK k \in 1..n : s[k] = y
      BY <1>1, <2>3 DEF On
    <3>2. k + 1 \in DOMAIN q /\ q[k + 1] = y
      BY <1>1, <3>1
    <3> QED
      BY <3>2 DEF On
  <2> QED
    BY <2>1, <2>2, <2>3
<1>4. ASSUME Distinct(s), ~On(s, x), NEW k \in DOMAIN q, NEW l \in DOMAIN q, q[k] = q[l]
      PROVE  k = l
  <2>1. CASE k = 1 \/ l = 1
    BY <1>1, <1>2, <1>4, <2>1 DEF On
  <2>2. CASE k # 1 /\ l # 1
    <3>1. k - 1 = l - 1
      BY <1>2, <1>4, <2>2 DEF Distinct
    <3> QED
      BY <1>1, <3>1
  <2> QED
    BY <2>1, <2>2
<1>5. Distinct(s) /\ ~On(s, x) => Distinct(q)
  BY <1>4 DEF Distinct
<1> QED
  BY <1>1, <1>3, <1>5 DEF q, n

(* Both operations keep a list free of duplicates.                         *)
LEMMA AppendDistinct ==
  ASSUME NEW S, NEW s \in Seq(S), Distinct(s), NEW x \in S, ~On(s, x)
  PROVE  Distinct(Append(s, x))
  BY DEF Distinct, On

LEMMA TailDistinct ==
  ASSUME NEW S, NEW s \in Seq(S), Distinct(s), s # <<>>
  PROVE  Distinct(Tail(s))
  BY DEF Distinct
-----------------------------------------------------------------------------
(* Induction on the naturals, with a set in the place of a predicate: from *)
(* the well-foundedness of < and the minimum that every set of naturals    *)
(* has.                                                                    *)
Below == OpToRel(<, Nat)

(* < is well-founded on the naturals.                                      *)
LEMMA BelowWF == IsWellFoundedOn(Below, Nat)
  BY NatLessThanWellFounded DEF Below

(* The relation is <.                                                      *)
LEMMA BelowIs == \A m, n \in Nat : <<m, n>> \in Below <=> m < n
  BY DEF Below, OpToRel

(* A set of naturals that is not empty has a least element.                *)
LEMMA LeastNat ==
  ASSUME NEW T, T \subseteq Nat, T # {}
  PROVE  \E x \in T : \A y \in T : x <= y
<1>1. PICK x \in T : \A y \in T : ~(<<y, x>> \in Below)
  BY BelowWF, WFMin
<1>2. ASSUME NEW y \in T PROVE x <= y
  <2>1. x \in Nat /\ y \in Nat
    OBVIOUS
  <2>2. ~(y < x)
    BY <1>1, <2>1, BelowIs
  <2> QED
    BY <2>1, <2>2
<1> QED
  BY <1>2

(* Induction, with a set for the predicate.                                *)
LEMMA NatInd ==
  ASSUME NEW S, 0 \in S, \A n \in Nat : n \in S => n + 1 \in S
  PROVE  \A n \in Nat : n \in S
<1> SUFFICES ASSUME NEW n \in Nat, n \notin S PROVE FALSE
  OBVIOUS
<1>1. PICK x \in Nat \ S : \A y \in Nat \ S : x <= y
  BY LeastNat
<1>2. x # 0 /\ x - 1 \in Nat /\ (x - 1) + 1 = x
  OBVIOUS
<1>3. x - 1 \in S
  BY <1>1, <1>2
<1> QED
  BY <1>2, <1>3

(* A function defined by recursion on an initial segment of the naturals   *)
(* exists: g gives a value from the index and the value before it.         *)
LEMMA Recursion ==
  \A n \in Nat : \A V : \A b \in V : \A g \in [1..n -> [V -> V]] :
    \E f \in [0..n -> V] : f[0] = b /\ \A i \in 1..n : f[i] = g[i][f[i - 1]]
<1> SUFFICES ASSUME NEW n \in Nat, NEW V, NEW b \in V, NEW g \in [1..n -> [V -> V]]
    PROVE  \E f \in [0..n -> V] : f[0] = b /\ \A i \in 1..n : f[i] = g[i][f[i - 1]]
  OBVIOUS
<1> DEFINE IsRec(m, f) == f[0] = b /\ \A i \in 1..m : f[i] = g[i][f[i - 1]]
           S == {m \in Nat : m <= n => \E f \in [0..m -> V] : IsRec(m, f)}
<1>1. 0 \in S
  <2> DEFINE f == [i \in 0..0 |-> b]
  <2>1. f \in [0..0 -> V] /\ f[0] = b /\ 1..0 = {}
    OBVIOUS
  <2> QED
    BY <2>1
<1>2. ASSUME NEW m \in Nat, m \in S PROVE m + 1 \in S
  <2> SUFFICES ASSUME m + 1 <= n PROVE \E f \in [0..m + 1 -> V] : IsRec(m + 1, f)
    OBVIOUS
  <2>1. PICK f \in [0..m -> V] : IsRec(m, f)
    BY <1>2
  <2> DEFINE h == [i \in 0..m + 1 |-> IF i <= m THEN f[i] ELSE g[m + 1][f[m]]]
  <2>2. g[m + 1][f[m]] \in V
    BY <2>1
  <2>3. h \in [0..m + 1 -> V]
    BY <2>1, <2>2
  <2>4. h[0] = b
    BY <2>1
  <2>5. ASSUME NEW i \in 1..m + 1 PROVE h[i] = g[i][h[i - 1]]
    <3>1. CASE i = m + 1
      BY <3>1
    <3>2. CASE i # m + 1
      <4>1. i \in 1..m /\ i - 1 \in 0..m
        BY <3>2
      <4>2. h[i] = f[i] /\ h[i - 1] = f[i - 1]
        BY <4>1
      <4> QED
        BY <2>1, <4>1, <4>2
    <3> QED
      BY <3>1, <3>2
  <2> QED
    BY <2>3, <2>4, <2>5
<1>3. n \in S
  <2> HIDE DEF S
  <2> QED
    BY <1>1, <1>2, NatInd
<1> QED
  BY <1>3

-----------------------------------------------------------------------------
(* q is made of elements of s at positions in I, in their order.           *)
Within(q, s, I) ==
  \E e \in [DOMAIN q -> I] :
     /\ \A k \in DOMAIN q : q[k] = s[e[k]]
     /\ \A k, l \in DOMAIN q : k < l => e[k] < e[l]

(* The equation of the recursive function in Keep.                         *)
KeepRec(s, T, f) ==
  f = [i \in 0..Len(s) |-> IF i = 0 THEN <<>>
        ELSE IF s[i] \in T THEN Append(f[i - 1], s[i]) ELSE f[i - 1]]

(* The equation, value by value.                                           *)
LEMMA KeepRecAt ==
  ASSUME NEW S, NEW s \in Seq(S), NEW T, NEW f, KeepRec(s, T, f)
  PROVE  /\ f = [i \in 0..Len(s) |-> f[i]]
         /\ f[0] = <<>>
         /\ \A i \in 1..Len(s) : f[i] = IF s[i] \in T THEN Append(f[i - 1], s[i])
                                                    ELSE f[i - 1]
<1>1. Len(s) \in Nat
  OBVIOUS
<1>2. \A i \in 0..Len(s) : f[i] = IF i = 0 THEN <<>>
               ELSE IF s[i] \in T THEN Append(f[i - 1], s[i]) ELSE f[i - 1]
  BY DEF KeepRec
<1>3. f = [i \in 0..Len(s) |-> f[i]]
  BY DEF KeepRec
<1>4. f[0] = <<>>
  BY <1>1, <1>2
<1>5. ASSUME NEW i \in 1..Len(s)
      PROVE  f[i] = IF s[i] \in T THEN Append(f[i - 1], s[i]) ELSE f[i - 1]
  <2>1. i \in 0..Len(s) /\ i # 0
    BY <1>1
  <2> QED
    BY <1>2, <2>1
<1> QED
  BY <1>3, <1>4, <1>5

(* Keep is well defined: there is a function that satisfies the equation.  *)
LEMMA KeepIs ==
  ASSUME NEW S, NEW s \in Seq(S), NEW T
  PROVE  \E f \in [0..Len(s) -> Seq(S)] : KeepRec(s, T, f) /\ Keep(s, T) = f[Len(s)]
<1> DEFINE n == Len(s)
           step == [i \in 1..n |-> [q \in Seq(S) |->
                      IF s[i] \in T THEN Append(q, s[i]) ELSE q]]
<1>1. n \in Nat /\ \A i \in 1..n : s[i] \in S
  OBVIOUS
<1>2. step \in [1..n -> [Seq(S) -> Seq(S)]]
  BY <1>1
<1>3. <<>> \in Seq(S)
  OBVIOUS
<1>4. \E f \in [0..n -> Seq(S)] : f[0] = <<>> /\ \A i \in 1..n : f[i] = step[i][f[i - 1]]
  <2> DEFINE V == Seq(S)
             b == <<>>
  <2>1. n \in Nat /\ b \in V /\ step \in [1..n -> [V -> V]]
    BY <1>1, <1>2, <1>3
  <2> HIDE DEF n, step, V, b
  <2>2. \E f \in [0..n -> V] : f[0] = b /\ \A i \in 1..n : f[i] = step[i][f[i - 1]]
    BY <2>1, Recursion, SMTT(30)
  <2> QED
    BY <2>2 DEF V, b
<1>5. PICK f \in [0..n -> Seq(S)] : f[0] = <<>> /\ \A i \in 1..n : f[i] = step[i][f[i - 1]]
  BY <1>4
<1>6. KeepRec(s, T, f)
  <2>1. \A i \in 1..n : f[i] = IF s[i] \in T THEN Append(f[i - 1], s[i]) ELSE f[i - 1]
    <3> TAKE i \in 1..n
    <3>1. i - 1 \in 0..n
      BY <1>1
    <3> QED
      BY <1>5, <3>1
  <2>2. f = [i \in 0..n |-> f[i]]
    BY <1>5
  <2>3. \A i \in 0..n : f[i] = IF i = 0 THEN <<>>
               ELSE IF s[i] \in T THEN Append(f[i - 1], s[i]) ELSE f[i - 1]
    <3> TAKE i \in 0..n
    <3>1. CASE i = 0
      BY <1>5, <3>1
    <3>2. CASE i # 0
      <4>1. i \in 1..n
        BY <1>1, <3>2
      <4> QED
        BY <2>1, <3>2, <4>1
    <3> QED
      BY <3>1, <3>2
  <2> QED
    BY <2>2, <2>3 DEF KeepRec
<1>7. Keep(s, T) = (CHOOSE h : KeepRec(s, T, h))[n]
  BY DEF Keep, KeepRec
<1>8. PICK h : KeepRec(s, T, h) /\ Keep(s, T) = h[n]
  BY <1>6, <1>7
<1>9. h \in [0..n -> Seq(S)]
  <2> DEFINE G == {i \in Nat : i <= n => h[i] \in Seq(S)}
  <2>0. /\ h = [i \in 0..n |-> h[i]]
        /\ h[0] = <<>>
        /\ \A i \in 1..n : h[i] = IF s[i] \in T THEN Append(h[i - 1], s[i]) ELSE h[i - 1]
    BY <1>8, KeepRecAt
  <2>1. 0 \in G
    BY <1>3, <2>0
  <2>2. ASSUME NEW i \in Nat, i \in G PROVE i + 1 \in G
    <3> SUFFICES ASSUME i + 1 <= n PROVE h[i + 1] \in Seq(S)
      OBVIOUS
    <3>1. i + 1 \in 1..n /\ (i + 1) - 1 = i /\ h[i] \in Seq(S) /\ s[i + 1] \in S
      BY <1>1, <2>2
    <3>2. h[i + 1] = IF s[i + 1] \in T THEN Append(h[i], s[i + 1]) ELSE h[i]
      BY <2>0, <3>1
    <3> QED
      BY <3>1, <3>2
  <2>3. \A i \in Nat : i \in G
    <3> HIDE DEF G
    <3> QED
      BY <2>1, <2>2, NatInd
  <2>4. \A i \in 0..n : h[i] \in Seq(S)
    BY <1>1, <2>3
  <2> QED
    BY <2>0, <2>4
<1> QED
  BY <1>8, <1>9

(* q is what is left of the first i elements of s.                         *)
Kept(q, s, T, i) ==
  /\ \E e \in [DOMAIN q -> 1..i] :
       /\ \A k \in DOMAIN q : q[k] = s[e[k]]
       /\ \A k, l \in DOMAIN q : k < l => e[k] < e[l]
  /\ \A k \in DOMAIN q : q[k] \in T
  /\ \A j \in 1..i : s[j] \in T => \E k \in DOMAIN q : q[k] = s[j]

(* One element further: it is left out ...                                 *)
LEMMA KeptSkip ==
  ASSUME NEW q, NEW s, NEW T, NEW i \in Nat, Kept(q, s, T, i), s[i + 1] \notin T
  PROVE  Kept(q, s, T, i + 1)
<1>1. PICK e \in [DOMAIN q -> 1..i] :
         /\ \A k \in DOMAIN q : q[k] = s[e[k]]
         /\ \A k, l \in DOMAIN q : k < l => e[k] < e[l]
  BY DEF Kept
<1>2. e \in [DOMAIN q -> 1..i + 1]
  BY <1>1
<1>3. \A j \in 1..i + 1 : s[j] \in T => j \in 1..i
  OBVIOUS
<1> QED
  BY <1>1, <1>2, <1>3 DEF Kept

(* ... or appended.                                                        *)
LEMMA KeptTake ==
  ASSUME NEW S, NEW q \in Seq(S), NEW s, NEW T, NEW i \in Nat, Kept(q, s, T, i),
         s[i + 1] \in T, s[i + 1] \in S
  PROVE  Kept(Append(q, s[i + 1]), s, T, i + 1)
<1> DEFINE w == Append(q, s[i + 1])
           m == Len(q)
<1>1. PICK e \in [DOMAIN q -> 1..i] :
         /\ \A k \in DOMAIN q : q[k] = s[e[k]]
         /\ \A k, l \in DOMAIN q : k < l => e[k] < e[l]
  BY DEF Kept
<1>2. /\ m \in Nat /\ DOMAIN q = 1..m /\ DOMAIN w = 1..m + 1
      /\ \A k \in 1..m : w[k] = q[k]
      /\ w[m + 1] = s[i + 1]
  OBVIOUS
<1> HIDE DEF w, m
<1> DEFINE d == [k \in 1..m + 1 |-> IF k <= m THEN e[k] ELSE i + 1]
<1>3. /\ \A k \in 1..m : d[k] = e[k] /\ e[k] \in 1..i
      /\ d[m + 1] = i + 1
  BY <1>1, <1>2
<1>4. d \in [DOMAIN w -> 1..i + 1]
  BY <1>1, <1>2
<1> HIDE DEF d
<1>5. \A k \in DOMAIN w : w[k] = s[d[k]]
  BY <1>1, <1>2, <1>3
<1>6. ASSUME NEW k \in DOMAIN w, NEW l \in DOMAIN w, k < l PROVE d[k] < d[l]
  <2>1. k \in 1..m
    BY <1>2, <1>6
  <2>2. CASE l = m + 1
    BY <1>3, <2>1, <2>2
  <2>3. CASE l # m + 1
    <3>1. l \in 1..m
      BY <1>2, <2>3
    <3> QED
      BY <1>1, <1>2, <1>3, <1>6, <2>1, <3>1
  <2> QED
    BY <2>2, <2>3
<1>7. \A k \in DOMAIN w : w[k] \in T
  BY <1>2 DEF Kept
<1>8. ASSUME NEW j \in 1..i + 1, s[j] \in T PROVE \E k \in DOMAIN w : w[k] = s[j]
  <2>1. CASE j = i + 1
    BY <2>1, <1>2
  <2>2. CASE j # i + 1
    <3>1. j \in 1..i
      BY <2>2
    <3>2. PICK k \in DOMAIN q : q[k] = s[j]
      BY <1>8, <3>1 DEF Kept
    <3>3. k \in DOMAIN w /\ w[k] = s[j]
      BY <1>2, <3>2
    <3> QED
      BY <3>3
  <2> QED
    BY <2>1, <2>2
<1>9. Kept(w, s, T, i + 1)
  BY <1>4, <1>5, <1>6, <1>7, <1>8 DEF Kept
<1> QED
  BY <1>9 DEF w

(* Keep(s, T) has the elements of s that are in T, in their order.         *)
LEMMA KeepIsWithin ==
  ASSUME NEW S, NEW s \in Seq(S), NEW T
  PROVE  /\ Keep(s, T) \in Seq(S)
         /\ Within(Keep(s, T), s, DOMAIN s)
         /\ \A x : On(Keep(s, T), x) <=> On(s, x) /\ x \in T
<1>1. PICK f \in [0..Len(s) -> Seq(S)] : KeepRec(s, T, f) /\ Keep(s, T) = f[Len(s)]
  BY KeepIs
<1> DEFINE n == Len(s)
           G == {i \in Nat : i <= n => Kept(f[i], s, T, i)}
<1>2. n \in Nat /\ DOMAIN s = 1..n /\ \A i \in 1..n : s[i] \in S
  OBVIOUS
<1>3. f[0] = <<>> /\ \A i \in 1..n : f[i] = IF s[i] \in T THEN Append(f[i - 1], s[i])
                                                         ELSE f[i - 1]
  BY <1>1, KeepRecAt
<1> HIDE DEF n
<1>4. 0 \in G
  <2>1. DOMAIN f[0] = {} /\ 1..0 = {}
    BY <1>3
  <2>2. [k \in {} |-> k] \in [{} -> {}]
    OBVIOUS
  <2>3. Kept(f[0], s, T, 0)
    BY <2>1, <2>2 DEF Kept
  <2> QED
    BY <2>3
<1>5. ASSUME NEW i \in Nat, i \in G PROVE i + 1 \in G
  <2> SUFFICES ASSUME i + 1 <= n PROVE Kept(f[i + 1], s, T, i + 1)
    OBVIOUS
  <2>1. i \in 0..n /\ i + 1 \in 1..n /\ (i + 1) - 1 = i
    BY <1>2
  <2>2. Kept(f[i], s, T, i)
    BY <1>2, <1>5
  <2>3. f[i] \in Seq(S) /\ s[i + 1] \in S
    BY <1>1, <1>2, <2>1 DEF n
  <2>4. f[i + 1] = IF s[i + 1] \in T THEN Append(f[i], s[i + 1]) ELSE f[i]
    BY <1>3, <2>1
  <2>5. CASE s[i + 1] \in T
    BY <2>2, <2>3, <2>4, <2>5, KeptTake
  <2>6. CASE s[i + 1] \notin T
    BY <2>2, <2>4, <2>6, KeptSkip
  <2> QED
    BY <2>5, <2>6
<1>6. n \in G
  <2> HIDE DEF G
  <2> QED
    BY <1>2, <1>4, <1>5, NatInd
<1> DEFINE q == Keep(s, T)
<1>7. q \in Seq(S) /\ Kept(q, s, T, n)
  BY <1>1, <1>2, <1>6 DEF n
<1> HIDE DEF q
<1>8. Within(q, s, DOMAIN s)
  BY <1>2, <1>7 DEF Within, Kept
<1>9. ASSUME NEW x PROVE On(q, x) <=> On(s, x) /\ x \in T
  <2>1. \A k \in DOMAIN q : \E j \in DOMAIN s : q[k] = s[j]
    BY <1>8 DEF Within
  <2> QED
    BY <1>2, <1>7, <2>1 DEF On, Kept
<1> QED
  BY <1>7, <1>8, <1>9 DEF q
-----------------------------------------------------------------------------
(* What a concatenation has at each position.                              *)
LEMMA ConcatIs ==
  ASSUME NEW S, NEW a \in Seq(S), NEW b \in Seq(S)
  PROVE  /\ a \o b \in Seq(S)
         /\ Len(a \o b) = Len(a) + Len(b)
         /\ DOMAIN (a \o b) = 1..Len(a) + Len(b)
         /\ \A x \in 1..Len(a) : (a \o b)[x] = a[x]
         /\ \A x \in Len(a) + 1..Len(a) + Len(b) : (a \o b)[x] = b[x - Len(a)]
  OBVIOUS

(* Unlinking the element at position i, and no other.                      *)
Cut(s, i) == SubSeq(s, 1, i - 1) \o SubSeq(s, i + 1, Len(s))

LEMMA CutIs ==
  ASSUME NEW S, NEW s \in Seq(S), NEW i \in DOMAIN s
  PROVE  /\ Cut(s, i) \in Seq(S)
         /\ Len(Cut(s, i)) = Len(s) - 1
         /\ DOMAIN Cut(s, i) = 1..Len(s) - 1
         /\ \A k \in 1..Len(s) - 1 : Cut(s, i)[k] = IF k < i THEN s[k] ELSE s[k + 1]
<1> DEFINE a == SubSeq(s, 1, i - 1)
           b == SubSeq(s, i + 1, Len(s))
           n == Len(s)
<1>1. n \in Nat /\ i \in 1..n
  OBVIOUS
<1>2. /\ a \in Seq(S) /\ Len(a) = i - 1 /\ \A x \in 1..i - 1 : a[x] = s[x]
      /\ b \in Seq(S) /\ Len(b) = n - i /\ \A x \in 1..n - i : b[x] = s[x + i]
  OBVIOUS
<1>3. Cut(s, i) = a \o b
  BY DEF Cut
<1> HIDE DEF a, b
<1>4. /\ Cut(s, i) \in Seq(S)
      /\ Len(Cut(s, i)) = (i - 1) + (n - i)
      /\ DOMAIN Cut(s, i) = 1..(i - 1) + (n - i)
      /\ \A x \in 1..i - 1 : Cut(s, i)[x] = a[x]
      /\ \A x \in (i - 1) + 1..(i - 1) + (n - i) : Cut(s, i)[x] = b[x - (i - 1)]
  <2>1. a \in Seq(S) /\ b \in Seq(S) /\ Len(a) = i - 1 /\ Len(b) = n - i
    BY <1>2
  <2> DEFINE c == a \o b
  <2>2. /\ c \in Seq(S)
        /\ Len(c) = Len(a) + Len(b)
        /\ DOMAIN c = 1..Len(a) + Len(b)
        /\ \A x \in 1..Len(a) : c[x] = a[x]
        /\ \A x \in Len(a) + 1..Len(a) + Len(b) : c[x] = b[x - Len(a)]
    BY <2>1, ConcatIs
  <2> HIDE DEF n, c
  <2>3. /\ c \in Seq(S)
        /\ Len(c) = (i - 1) + (n - i)
        /\ DOMAIN c = 1..(i - 1) + (n - i)
        /\ \A x \in 1..i - 1 : c[x] = a[x]
        /\ \A x \in (i - 1) + 1..(i - 1) + (n - i) : c[x] = b[x - (i - 1)]
    BY <2>1, <2>2
  <2> QED
    BY <1>3, <2>3 DEF c
<1> HIDE DEF n
<1>5. ASSUME NEW k \in 1..n - 1
      PROVE  Cut(s, i)[k] = IF k < i THEN s[k] ELSE s[k + 1]
  <2>1. CASE k < i
    <3>1. k \in 1..i - 1
      BY <1>1, <2>1
    <3> QED
      BY <1>2, <1>4, <2>1, <3>1
  <2>2. CASE ~(k < i)
    <3>1. /\ k \in (i - 1) + 1..(i - 1) + (n - i)
          /\ k - (i - 1) \in 1..n - i /\ (k - (i - 1)) + i = k + 1
      BY <1>1, <2>2
    <3> QED
      BY <1>2, <1>4, <2>2, <3>1
  <2> QED
    BY <2>1, <2>2
<1>6. (i - 1) + (n - i) = n - 1
  BY <1>1
<1> QED
  BY <1>4, <1>5, <1>6 DEF n

(* It leaves the others, in their order.                                   *)
LEMMA CutWithin ==
  ASSUME NEW S, NEW s \in Seq(S), NEW i \in DOMAIN s
  PROVE  /\ Cut(s, i) \in Seq(S)
         /\ Within(Cut(s, i), s, DOMAIN s \ {i})
         /\ \A j \in DOMAIN s : j # i => On(Cut(s, i), s[j])
<1> DEFINE q == Cut(s, i)
           n == Len(s)
           e == [k \in 1..n - 1 |-> IF k < i THEN k ELSE k + 1]
<1>1. n \in Nat /\ i \in 1..n /\ DOMAIN s = 1..n
  OBVIOUS
<1>2. /\ q \in Seq(S) /\ DOMAIN q = 1..n - 1
      /\ \A k \in 1..n - 1 : q[k] = IF k < i THEN s[k] ELSE s[k + 1]
  BY CutIs
<1> HIDE DEF q, n
<1>3. e \in [DOMAIN q -> DOMAIN s \ {i}]
  BY <1>1, <1>2
<1>4. \A k \in DOMAIN q : q[k] = s[e[k]]
  BY <1>2
<1>5. \A k, l \in DOMAIN q : k < l => e[k] < e[l]
  BY <1>1, <1>2
<1>6. ASSUME NEW j \in DOMAIN s, j # i PROVE On(q, s[j])
  <2>1. CASE j < i
    <3>1. j \in 1..n - 1 /\ q[j] = s[j]
      BY <1>1, <1>2, <2>1
    <3> QED
      BY <1>2, <3>1 DEF On
  <2>2. CASE j > i
    <3>1. j - 1 \in 1..n - 1 /\ ~(j - 1 < i) /\ (j - 1) + 1 = j
      BY <1>1, <2>2
    <3>2. q[j - 1] = s[j]
      BY <1>2, <3>1
    <3> QED
      BY <1>2, <3>1, <3>2 DEF On
  <2> QED
    BY <1>1, <1>6, <2>1, <2>2
<1>7. Within(q, s, DOMAIN s \ {i})
  <2> HIDE DEF e
  <2> QED
    BY <1>3, <1>4, <1>5 DEF Within
<1> QED
  BY <1>2, <1>6, <1>7 DEF q

(* The rest of a list without its head.                                    *)
LEMMA TailWithin ==
  ASSUME NEW S, NEW s \in Seq(S), s # <<>>
  PROVE  /\ Tail(s) \in Seq(S)
         /\ Within(Tail(s), s, DOMAIN s \ {1})
<1> DEFINE e == [k \in DOMAIN Tail(s) |-> k + 1]
<1>1. /\ DOMAIN s = 1..Len(s) /\ DOMAIN Tail(s) = 1..Len(s) - 1
      /\ \A i \in 1..Len(s) - 1 : Tail(s)[i] = s[i + 1]
      /\ Len(s) \in Nat \ {0}
      /\ Tail(s) \in Seq(S)
  OBVIOUS
<1>2. /\ e \in [DOMAIN Tail(s) -> DOMAIN s \ {1}]
      /\ \A k \in DOMAIN Tail(s) : Tail(s)[k] = s[e[k]]
      /\ \A k, l \in DOMAIN Tail(s) : k < l => e[k] < e[l]
  BY <1>1
<1> QED
  BY <1>1, <1>2 DEF Within

(* Unlinking the element at position i, and those before it that are not   *)
(* in T.                                                                   *)
LEMMA CancelWithin ==
  ASSUME NEW S, NEW s \in Seq(S), NEW i \in DOMAIN s, NEW T
  PROVE  LET q == Keep(SubSeq(s, 1, i - 1), T) \o SubSeq(s, i + 1, Len(s))
         IN /\ q \in Seq(S)
            /\ Within(q, s, {j \in DOMAIN s : j # i /\ (j < i => s[j] \in T)})
<1> DEFINE a == SubSeq(s, 1, i - 1)
           k == Keep(a, T)
           b == SubSeq(s, i + 1, Len(s))
           q == k \o b
           n == Len(s)
           m == Len(k)
           I == {j \in DOMAIN s : j # i /\ (j < i => s[j] \in T)}
<1>1. /\ n \in Nat /\ i \in 1..n /\ DOMAIN s = 1..n
      /\ a \in Seq(S) /\ DOMAIN a = 1..i - 1
      /\ \A x \in 1..i - 1 : a[x] = s[x]
      /\ b \in Seq(S) /\ Len(b) = n - i
      /\ \A x \in 1..n - i : b[x] = s[x + i]
  OBVIOUS
<1>2. /\ k \in Seq(S) /\ m \in Nat /\ DOMAIN k = 1..m
      /\ Within(k, a, DOMAIN a)
      /\ \A x : On(k, x) => x \in T
  <2> HIDE DEF a
  <2> QED
    BY <1>1, KeepIsWithin
<1>3. PICK e \in [1..m -> 1..i - 1] :
        /\ \A x \in 1..m : k[x] = a[e[x]]
        /\ \A x, y \in 1..m : x < y => e[x] < e[y]
  BY <1>1, <1>2 DEF Within
<1>4. \A x \in 1..m : k[x] \in T
  BY <1>2 DEF On
<1>5. /\ q \in Seq(S) /\ DOMAIN q = 1..m + (n - i)
      /\ \A x \in 1..m : q[x] = k[x]
      /\ \A x \in m + 1..m + (n - i) : q[x] = b[x - m]
  <2> HIDE DEF k, b, n
  <2> QED
    BY <1>1, <1>2, ConcatIs
<1> HIDE DEF a, b, k, m, n, q
<1> DEFINE d == [x \in 1..m + (n - i) |-> IF x <= m THEN e[x] ELSE (x - m) + i]
<1>6. ASSUME NEW x \in 1..m + (n - i) PROVE d[x] \in I /\ q[x] = s[d[x]]
  <2>1. CASE x <= m
    <3>1. x \in 1..m /\ d[x] = e[x] /\ e[x] \in 1..i - 1
      BY <1>1, <1>2, <2>1
    <3>2. q[x] = s[e[x]] /\ s[e[x]] \in T
      BY <1>1, <1>3, <1>4, <1>5, <3>1
    <3> QED
      BY <1>1, <3>1, <3>2
  <2>2. CASE x > m
    <3>1. x - m \in 1..n - i /\ d[x] = (x - m) + i /\ x \in m + 1..m + (n - i)
      BY <1>1, <1>2, <2>2
    <3>2. q[x] = s[(x - m) + i]
      BY <1>1, <1>5, <3>1
    <3>3. (x - m) + i \in 1..n /\ (x - m) + i > i
      BY <1>1, <3>1
    <3> QED
      BY <1>1, <3>1, <3>2, <3>3
  <2> QED
    BY <1>1, <1>2, <2>1, <2>2
<1>7. ASSUME NEW x \in DOMAIN q, NEW y \in DOMAIN q, x < y PROVE d[x] < d[y]
  <2>1. x \in 1..m + (n - i) /\ y \in 1..m + (n - i)
    BY <1>5
  <2>2. CASE y <= m
    <3>1. x \in 1..m /\ y \in 1..m
      BY <1>1, <1>2, <1>7, <2>1, <2>2
    <3> QED
      BY <1>3, <1>7, <2>1, <3>1
  <2>3. CASE x <= m /\ y > m
    <3>1. x \in 1..m /\ d[x] = e[x] /\ e[x] \in 1..i - 1 /\ d[y] = (y - m) + i
      BY <1>1, <1>2, <2>1, <2>3
    <3> QED
      BY <1>1, <1>2, <2>1, <2>3, <3>1
  <2>4. CASE x > m
    <3>1. d[x] = (x - m) + i /\ d[y] = (y - m) + i
      BY <1>1, <1>2, <1>7, <2>1, <2>4
    <3> QED
      BY <1>1, <1>2, <1>7, <2>1, <3>1
  <2> QED
    BY <1>1, <1>2, <1>7, <2>1, <2>2, <2>3, <2>4
<1>8. d \in [DOMAIN q -> I] /\ \A x \in DOMAIN q : q[x] = s[d[x]]
  BY <1>5, <1>6
<1> HIDE DEF d, I
<1>9. Within(q, s, I)
  BY <1>7, <1>8 DEF Within
<1> QED
  BY <1>5, <1>9 DEF q, I, k, a, b
=============================================================================
