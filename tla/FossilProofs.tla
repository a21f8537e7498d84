---------------------------- MODULE FossilProofs ----------------------------
(***************************************************************************)
(* Theorems about FossilCache, for any partition, pointers per block,      *)
(* operations and epochs.  The invariant holds until a crash; nothing is   *)
(* assumed of when snapshots are taken or of what is dirty then.           *)
(*                                                                         *)
(* rt names the root of each epoch.  The invariant (Core) is about the     *)
(* trees of all epochs that can still be read, not only the active one:    *)
(* each is a tree, a block is in every tree from its own epoch to the last *)
(* one it is in, and a later tree shares with an earlier one only what it  *)
(* took by copying.  A block dropped from the active tree is claimed by    *)
(* exactly one removed link, on its way through Block.uhead and the unlink *)
(* queue, and is closed with an epoch in whose tree it is not; so nothing  *)
(* is closed that a tree needs, and nothing stays open that none has.      *)
(* Past trees only lose data blocks, through sourceShrinkDepth (Pruned),   *)
(* so what is said of the blocks between two epochs is said of pointer     *)
(* blocks and roots.                                                       *)
(***************************************************************************)
EXTENDS FossilCache, ListLemmas

Kd == [Addr -> [Slot -> Ptr]]

(* In the tree of root r: a holds pointers; x is in it.                    *)
Holds(k, r, a) ==
  a = r \/ \E s \in Slot : k[r][s] # Nil /\ k[r][s].type = "ptr" /\ k[r][s].to = a
Has(k, a, s, x) == k[a][s] # Nil /\ k[a][s].to = x
In(k, r, x) == x = r \/ \E a \in Addr, s \in Slot : Holds(k, r, a) /\ Has(k, a, s, x)

(* It is a tree, of depth 2.                                               *)
Sound(k, r) ==
  /\ \A a \in Addr, s \in Slot : Holds(k, r, a) /\ k[a][s] # Nil =>
       k[a][s].to # r /\ (a # r => k[a][s].type = "data")
  /\ \A a, b \in Addr, s, t \in Slot :
       Holds(k, r, a) /\ Holds(k, r, b) /\ k[a][s] # Nil /\ Has(k, b, t, k[a][s].to) => a = b /\ s = t

(* A pointer                                                               *)
LEMMA PtrIs ==
  ASSUME NEW k \in Kd, NEW a \in Addr, NEW s \in Slot, k[a][s] # Nil
  PROVE  /\ k[a][s] \in Ptr /\ k[a][s].to \in Addr /\ k[a][s].type \in {"data", "ptr"}
         /\ k[a][s].to # Nil
  BY NilAssumption DEF Kd, Ptr, Blk

(* One made here                                                           *)
LEMMA NewPtr ==
  ASSUME NEW a \in Addr, NEW type \in {"data", "ptr"}
  PROVE  [to |-> a, type |-> type] # Nil /\ [to |-> a, type |-> type] \in Ptr
  BY NilAssumption DEF Ptr

(* Whatever holds pointers in a tree is in it.                             *)
LEMMA HoldsIn ==
  ASSUME NEW k \in Kd, NEW r \in Addr, NEW a, Holds(k, r, a)
  PROVE  a \in Addr /\ In(k, r, a)
<1>1. CASE a = r
  BY <1>1 DEF In
<1>2. ASSUME NEW s \in Slot, k[r][s] # Nil, k[r][s].to = a PROVE a \in Addr /\ In(k, r, a)
  <2>1. a \in Addr
    BY <1>2, PtrIs
  <2>2. Holds(k, r, r) /\ Has(k, r, s, a)
    BY <1>2 DEF Holds, Has
  <2> QED
    BY <2>1, <2>2 DEF In
<1> QED
  BY <1>1, <1>2 DEF Holds

(* What is in a tree is a block of the partition.                          *)
LEMMA InAddr ==
  ASSUME NEW k \in Kd, NEW r \in Addr, NEW x, In(k, r, x)
  PROVE  x \in Addr
  BY PtrIs DEF In, Has

(* A tree whose holders are left alone stays what it is.                   *)
LEMMA SameTree ==
  ASSUME NEW k \in Kd, NEW k2 \in Kd, NEW r \in Addr,
         \A a \in Addr : Holds(k, r, a) => k2[a] = k[a]
  PROVE  /\ \A a : Holds(k2, r, a) <=> Holds(k, r, a)
         /\ \A x : In(k2, r, x) <=> In(k, r, x)
         /\ Sound(k, r) => Sound(k2, r)
<1>1. k2[r] = k[r]
  BY DEF Holds
<1>2. \A a : Holds(k2, r, a) <=> Holds(k, r, a)
  BY <1>1 DEF Holds
<1>3. \A x : In(k2, r, x) <=> In(k, r, x)
  BY <1>2 DEF In, Has
<1> QED
  BY <1>2, <1>3 DEF Sound, Has

(* One that loses data blocks is a tree with the same holders.             *)
LEMMA PrunedTree ==
  ASSUME NEW k \in Kd, NEW k2 \in Kd, NEW r \in Addr, k2[r] = k[r],
         \A a \in Addr, s \in Slot : Holds(k, r, a) => k2[a][s] \in {k[a][s], Nil}
  PROVE  /\ \A a : Holds(k2, r, a) <=> Holds(k, r, a)
         /\ \A x : In(k2, r, x) => In(k, r, x)
         /\ \A x : Holds(k, r, x) => In(k2, r, x)
         /\ Sound(k, r) => Sound(k2, r)
<1>2. \A a : Holds(k2, r, a) <=> Holds(k, r, a)
  BY DEF Holds
<1>3. \A x : In(k2, r, x) => In(k, r, x)
  BY <1>2 DEF In, Has
<1>4. \A x : Holds(k, r, x) => In(k2, r, x)
  BY <1>2, HoldsIn
<1>5. ASSUME Sound(k, r) PROVE Sound(k2, r)
  <2>1. ASSUME NEW a \in Addr, NEW s \in Slot, Holds(k2, r, a), k2[a][s] # Nil
        PROVE  k2[a][s] = k[a][s] /\ Holds(k, r, a)
    BY <1>2, <2>1
  <2> QED
    BY <1>5, <2>1 DEF Sound, Has
<1> QED
  BY <1>2, <1>3, <1>4, <1>5

(* Who is reached by one pointer is reached by no other.                   *)
LEMMA HoldsOnce ==
  ASSUME NEW k \in Kd, NEW r \in Addr, Sound(k, r), NEW p \in Addr, NEW s \in Slot,
         Holds(k, r, p), k[p][s] # Nil
  PROVE  /\ k[p][s].to # r /\ k[p][s].to \in Addr
         /\ Holds(k, r, k[p][s].to) <=> p = r /\ k[p][s].type = "ptr"
         /\ p # r => k[p][s].type = "data"
         /\ \A a \in Addr, t \in Slot : Holds(k, r, a) /\ Has(k, a, t, k[p][s].to) => a = p /\ t = s
<1>1. k[p][s].to # r /\ k[p][s].to \in Addr /\ (p # r => k[p][s].type = "data")
  BY PtrIs DEF Sound
<1>2. \A a \in Addr, t \in Slot : Holds(k, r, a) /\ Has(k, a, t, k[p][s].to) => a = p /\ t = s
  BY DEF Sound
<1>3. p = r /\ k[p][s].type = "ptr" => Holds(k, r, k[p][s].to)
  BY DEF Holds
<1>4. ASSUME Holds(k, r, k[p][s].to) PROVE p = r /\ k[p][s].type = "ptr"
  <2>1. PICK t \in Slot : k[r][t] # Nil /\ k[r][t].type = "ptr" /\ k[r][t].to = k[p][s].to
    BY <1>1, <1>4 DEF Holds
  <2>2. Holds(k, r, r) /\ Has(k, r, t, k[p][s].to)
    BY <2>1 DEF Holds, Has
  <2>3. r = p /\ t = s
    BY <1>2, <2>2
  <2> QED
    BY <2>1, <2>3
<1> QED
  BY <1>1, <1>2, <1>3, <1>4

-----------------------------------------------------------------------------
(* A nil pointer is replaced by a new data block.                          *)
NewAt(k, k2, p, s, bb) ==
  \A a \in Addr, t \in Slot :
    k2[a][t] = IF a = bb THEN Nil
               ELSE IF a = p /\ t = s THEN [to |-> bb, type |-> "data"] ELSE k[a][t]

(* Its tree is the old one and the new block.                              *)
LEMMA TreeNew ==
  ASSUME NEW k \in Kd, NEW k2 \in Kd, NEW r \in Addr, Sound(k, r), NEW p \in Addr, NEW s \in Slot,
         Holds(k, r, p), k[p][s] = Nil, NEW bb \in Addr, ~In(k, r, bb), NewAt(k, k2, p, s, bb)
  PROVE  /\ \A a \in Addr : Holds(k2, r, a) <=> Holds(k, r, a)
         /\ \A x \in Addr : In(k2, r, x) <=> x = bb \/ In(k, r, x)
         /\ Sound(k2, r)
<1>0. \A a \in Addr : Holds(k, r, a) => a # bb
  BY HoldsIn
<1>1. r # bb
  BY DEF In
<1>2. k2[p][s] = [to |-> bb, type |-> "data"] /\ k2[p][s] # Nil /\ k2[p][s].to = bb
      /\ k2[p][s].type = "data" /\ p # bb
  <2>1. p # bb
    BY <1>0
  <2>2. k2[p][s] = [to |-> bb, type |-> "data"]
    BY <2>1 DEF NewAt
  <2>3. [to |-> bb, type |-> "data"] # Nil
    BY NewPtr
  <2> QED
    BY <2>1, <2>2, <2>3
<1>3. \A a \in Addr, t \in Slot : a # bb /\ ~(a = p /\ t = s) => k2[a][t] = k[a][t]
  BY DEF NewAt
<1>4. ASSUME NEW a \in Addr PROVE Holds(k2, r, a) <=> Holds(k, r, a)
  <2>1. \A t \in Slot : (k2[r][t] # Nil /\ k2[r][t].type = "ptr") <=> (k[r][t] # Nil /\ k[r][t].type = "ptr")
    BY <1>1, <1>2, <1>3
  <2>2. \A t \in Slot : k2[r][t] # Nil /\ k2[r][t].type = "ptr" => k2[r][t] = k[r][t]
    BY <1>1, <1>2, <1>3
  <2> QED
    BY <2>1, <2>2 DEF Holds
<1>5. ASSUME NEW x \in Addr PROVE In(k2, r, x) <=> x = bb \/ In(k, r, x)
  <2>1. ASSUME In(k2, r, x) PROVE x = bb \/ In(k, r, x)
    BY <1>2, <1>3, <1>4, <1>0, <2>1 DEF In, Has
  <2>2. ASSUME In(k, r, x) PROVE In(k2, r, x)
    BY <1>2, <1>3, <1>4, <1>0, <2>2 DEF In, Has
  <2>3. In(k2, r, bb)
    BY <1>2, <1>4 DEF In, Has
  <2> QED
    BY <2>1, <2>2, <2>3
<1>6. ASSUME NEW a \in Addr, NEW t \in Slot, Holds(k2, r, a), k2[a][t] # Nil
      PROVE  /\ k2[a][t].to # r /\ (a # r => k2[a][t].type = "data")
             /\ ~(a = p /\ t = s) => k2[a][t].to # bb
  BY <1>0, <1>1, <1>2, <1>3, <1>4, <1>6 DEF Sound, In, Has
<1>7. ASSUME NEW a \in Addr, NEW b \in Addr, NEW t \in Slot, NEW u \in Slot, Holds(k2, r, a),
             Holds(k2, r, b), k2[a][t] # Nil, Has(k2, b, u, k2[a][t].to)
      PROVE  a = b /\ t = u
  <2>1. CASE k2[a][t].to = bb
    BY <1>6, <1>7, <2>1 DEF Has
  <2>2. CASE k2[a][t].to # bb
    BY <1>0, <1>2, <1>3, <1>4, <1>7, <2>2 DEF Sound, Has
  <2> QED
    BY <2>1, <2>2
<1> QED
  BY <1>4, <1>5, <1>6, <1>7 DEF Sound

(* A pointer is turned to a new copy of its block.                         *)
CopiedTo(k, k2, p, s, bb) ==
  \A a \in Addr, t \in Slot :
    k2[a][t] = IF a = bb THEN k[k[p][s].to][t]
               ELSE IF a = p /\ t = s THEN [to |-> bb, type |-> k[p][s].type] ELSE k[a][t]

(* A pointer is moved to a copy, which points at what the old block points *)
(* at (blockWalk's copy on write): the copy takes the old block's place.   *)
LEMMA TreeCopy ==
  ASSUME NEW k \in Kd, NEW k2 \in Kd, NEW r \in Addr, Sound(k, r), NEW p \in Addr, NEW s \in Slot,
         Holds(k, r, p), k[p][s] # Nil, NEW bb \in Addr, ~In(k, r, bb),
         CopiedTo(k, k2, p, s, bb),
         ~Holds(k, r, k[p][s].to) => \A t \in Slot : k[k[p][s].to][t] = Nil
  PROVE  /\ \A a \in Addr : Holds(k2, r, a) <=>
              (Holds(k, r, a) /\ a # k[p][s].to) \/ (a = bb /\ Holds(k, r, k[p][s].to))
         /\ \A x \in Addr : In(k2, r, x) <=> x = bb \/ (In(k, r, x) /\ x # k[p][s].to)
         /\ Sound(k2, r)
<1> DEFINE o == k[p][s].to
           ty == k[p][s].type
<1>0. \A a \in Addr : Holds(k, r, a) => a # bb
  BY HoldsIn
<1>1. r # bb /\ p # bb
  BY <1>0 DEF In
<1>2. /\ o \in Addr /\ ty \in {"data", "ptr"} /\ o # r /\ o # p
      /\ Holds(k, r, o) <=> p = r /\ ty = "ptr"
      /\ p # r => ty = "data"
      /\ \A a \in Addr, t \in Slot : Holds(k, r, a) /\ Has(k, a, t, o) => a = p /\ t = s
  <2>1. o # p
    BY HoldsOnce DEF Holds
  <2> QED
    BY <2>1, PtrIs, HoldsOnce
<1>3. k2[p][s] # Nil /\ k2[p][s].to = bb /\ k2[p][s].type = ty
  <2>1. k2[p][s] = [to |-> bb, type |-> ty]
    BY <1>1 DEF CopiedTo
  <2>2. [to |-> bb, type |-> ty] # Nil
    BY <1>2, NewPtr
  <2> QED
    BY <2>1, <2>2
<1>4. \A a \in Addr, t \in Slot : a # bb /\ ~(a = p /\ t = s) => k2[a][t] = k[a][t]
  BY DEF CopiedTo
<1>5. \A t \in Slot : k2[bb][t] = k[o][t]
  BY DEF CopiedTo
<1>6. o # bb /\ In(k, r, o)
  BY <1>2 DEF In, Has
<1> HIDE DEF o, ty
<1>7. ASSUME NEW a \in Addr
      PROVE  Holds(k2, r, a) <=> (Holds(k, r, a) /\ a # o) \/ (a = bb /\ Holds(k, r, o))
  <2>1. ASSUME Holds(k2, r, a), a # r PROVE (Holds(k, r, a) /\ a # o) \/ (a = bb /\ Holds(k, r, o))
    <3>1. PICK t \in Slot : k2[r][t] # Nil /\ k2[r][t].type = "ptr" /\ k2[r][t].to = a
      BY <2>1 DEF Holds
    <3>2. CASE p = r /\ t = s
      BY <3>1, <3>2, <1>2, <1>3
    <3>3. CASE ~(p = r /\ t = s)
      <4>1. k2[r][t] = k[r][t]
        BY <3>3, <1>1, <1>4
      <4>2. a # o
        BY <3>1, <3>3, <4>1, <1>2 DEF Holds, Has
      <4> QED
        BY <3>1, <4>1, <4>2 DEF Holds
    <3> QED
      BY <3>2, <3>3
  <2>2. ASSUME Holds(k, r, a), a # o, a # r PROVE Holds(k2, r, a)
    <3>1. PICK t \in Slot : k[r][t] # Nil /\ k[r][t].type = "ptr" /\ k[r][t].to = a
      BY <2>2 DEF Holds
    <3>2. ~(p = r /\ t = s)
      BY <3>1, <2>2 DEF o
    <3> QED
      BY <3>1, <3>2, <1>1, <1>4 DEF Holds
  <2>3. ASSUME a = bb, Holds(k, r, o) PROVE Holds(k2, r, a)
    BY <2>3, <1>2, <1>3 DEF Holds
  <2>4. a = r => Holds(k2, r, a) /\ Holds(k, r, a) /\ a # o
    BY <1>2 DEF Holds
  <2> QED
    BY <2>1, <2>2, <2>3, <2>4
<1>8. ASSUME NEW x \in Addr PROVE In(k2, r, x) <=> x = bb \/ (In(k, r, x) /\ x # o)
  <2>1. ASSUME In(k2, r, x), x # r, x # bb PROVE In(k, r, x) /\ x # o
    <3>1. PICK a \in Addr, t \in Slot : Holds(k2, r, a) /\ k2[a][t] # Nil /\ k2[a][t].to = x
      BY <2>1 DEF In, Has
    <3>2. ~(a = p /\ t = s)
      BY <3>1, <2>1, <1>3
    <3>3. CASE a = bb
      BY <3>1, <3>3, <1>0, <1>2, <1>5, <1>7 DEF In, Has
    <3>4. CASE a # bb
      BY <3>1, <3>2, <3>4, <1>2, <1>4, <1>7 DEF In, Has
    <3> QED
      BY <3>3, <3>4
  <2>2. ASSUME In(k, r, x), x # o, x # r PROVE In(k2, r, x)
    <3>1. PICK a \in Addr, t \in Slot : Holds(k, r, a) /\ k[a][t] # Nil /\ k[a][t].to = x
      BY <2>2 DEF In, Has
    <3>2. ~(a = p /\ t = s)
      BY <3>1, <2>2 DEF o
    <3>3. CASE a = o
      BY <3>1, <3>3, <1>5, <1>7 DEF In, Has
    <3>4. CASE a # o
      BY <3>1, <3>2, <3>4, <1>0, <1>4, <1>7 DEF In, Has
    <3> QED
      BY <3>3, <3>4
  <2>3. In(k2, r, bb)
    <3>1. Holds(k2, r, p)
      BY <1>2, <1>7
    <3> QED
      BY <3>1, <1>3 DEF In, Has
  <2>4. x = r => In(k2, r, x) /\ In(k, r, x) /\ x # o
    BY <1>2 DEF In
  <2> QED
    BY <2>1, <2>2, <2>3, <2>4
<1>9. ASSUME NEW a \in Addr, NEW t \in Slot, Holds(k2, r, a), k2[a][t] # Nil
      PROVE  /\ k2[a][t].to # r /\ (a # r => k2[a][t].type = "data")
             /\ k2[a][t].to = bb <=> (a = p /\ t = s)
             /\ ~(a = p /\ t = s) =>
                  /\ k2[a][t] = k[IF a = bb THEN o ELSE a][t]
                  /\ Holds(k, r, IF a = bb THEN o ELSE a)
  <2>1. CASE a = p /\ t = s
    BY <2>1, <1>1, <1>2, <1>3
  <2>2. CASE a = bb
    <3>1. Holds(k, r, o) /\ k[o][t] # Nil /\ k2[a][t] = k[o][t]
      BY <2>2, <1>9, <1>0, <1>5, <1>7
    <3>2. k[o][t].to # r /\ k[o][t].type = "data"
      BY <3>1, <1>2 DEF Sound
    <3>3. k[o][t].to # bb
      BY <3>1, <1>2 DEF In, Has
    <3> QED
      BY <2>2, <3>1, <3>2, <3>3, <1>1
  <2>3. CASE a # bb /\ ~(a = p /\ t = s)
    <3>1. Holds(k, r, a) /\ k[a][t] # Nil /\ k2[a][t] = k[a][t]
      BY <2>3, <1>9, <1>4, <1>7
    <3>2. k[a][t].to # r /\ (a # r => k[a][t].type = "data")
      BY <3>1, <1>2 DEF Sound
    <3>3. k[a][t].to # bb
      BY <3>1, <1>2 DEF In, Has
    <3> QED
      BY <2>3, <3>1, <3>2, <3>3, <1>1
  <2> QED
    BY <2>1, <2>2, <2>3, <1>1
<1>10. ASSUME NEW a \in Addr, NEW b \in Addr, NEW t \in Slot, NEW u \in Slot, Holds(k2, r, a),
             Holds(k2, r, b), k2[a][t] # Nil, Has(k2, b, u, k2[a][t].to)
      PROVE  a = b /\ t = u
  <2>0. k2[b][u] # Nil /\ k2[b][u].to = k2[a][t].to
    BY <1>10 DEF Has
  <2>1. CASE k2[a][t].to = bb
    BY <1>9, <1>10, <2>0, <2>1
  <2>2. CASE k2[a][t].to # bb
    <3> DEFINE a0 == IF a = bb THEN o ELSE a
               b0 == IF b = bb THEN o ELSE b
    <3>1. ~(a = p /\ t = s) /\ ~(b = p /\ u = s)
      BY <1>9, <1>10, <2>0, <2>2
    <3>2. k2[a][t] = k[a0][t] /\ Holds(k, r, a0) /\ k2[b][u] = k[b0][u] /\ Holds(k, r, b0)
          /\ a0 \in Addr /\ b0 \in Addr
      BY <1>9, <1>10, <2>0, <3>1, <1>2
    <3>3. a0 = b0 /\ t = u
      <4> HIDE DEF a0, b0
      <4> QED
        BY <3>2, <2>0, <1>10 DEF Sound, Has
    <3>4. a # o /\ b # o
      BY <1>6, <1>7, <1>10
    <3> QED
      BY <3>3, <3>4
  <2> QED
    BY <2>1, <2>2
<1> QED
  BY <1>7, <1>8, <1>9, <1>10 DEF Sound, o
-----------------------------------------------------------------------------
(* What is below pointer s of p, that block included.                      *)
Below2(k, p, s) == {k[p][s].to} \cup
  (IF k[p][s].type = "ptr" THEN {k[k[p][s].to][t].to : t \in {t \in Slot : k[k[p][s].to][t] # Nil}} ELSE {})

(* A pointer is zeroed.                                                    *)
LEMMA TreeRemove ==
  ASSUME NEW k \in Kd, NEW k2 \in Kd, NEW r \in Addr, Sound(k, r), NEW p \in Addr, NEW s \in Slot,
         Holds(k, r, p), k[p][s] # Nil,
         \A a \in Addr, t \in Slot : k2[a][t] = IF a = p /\ t = s THEN Nil ELSE k[a][t]
  PROVE  /\ \A a \in Addr : Holds(k2, r, a) <=> Holds(k, r, a) /\ a # k[p][s].to
         /\ \A x \in Addr : In(k2, r, x) <=> In(k, r, x) /\ x \notin Below2(k, p, s)
         /\ Sound(k2, r)
<1> DEFINE o == k[p][s].to
           ty == k[p][s].type
<1>2. /\ o \in Addr /\ ty \in {"data", "ptr"} /\ o # r /\ o # p
      /\ Holds(k, r, o) <=> p = r /\ ty = "ptr"
      /\ p # r => ty = "data"
      /\ \A a \in Addr, t \in Slot : Holds(k, r, a) /\ Has(k, a, t, o) => a = p /\ t = s
  <2>1. o # p
    BY HoldsOnce DEF Holds
  <2> QED
    BY <2>1, PtrIs, HoldsOnce
<1>3. k2[p][s] = Nil
  OBVIOUS
<1>4. \A a \in Addr, t \in Slot : ~(a = p /\ t = s) => k2[a][t] = k[a][t]
  OBVIOUS
<1>5. \A x : x \in Below2(k, p, s) <=> x = o \/ (Holds(k, r, o) /\ \E t \in Slot : Has(k, o, t, x))
  BY <1>2, <1>2 DEF Below2, Has, Holds
<1> HIDE DEF o, ty
<1>7. ASSUME NEW a \in Addr
      PROVE  Holds(k2, r, a) <=> Holds(k, r, a) /\ a # o
  <2>1. ASSUME Holds(k2, r, a), a # r PROVE Holds(k, r, a) /\ a # o
    <3>1. PICK t \in Slot : k2[r][t] # Nil /\ k2[r][t].type = "ptr" /\ k2[r][t].to = a
      BY <2>1 DEF Holds
    <3>3. ~(p = r /\ t = s)
      BY <3>1, <1>3
    <3>4. k2[r][t] = k[r][t]
      BY <3>3, <1>4
    <3>5. a # o
      BY <3>1, <3>3, <3>4, <1>2 DEF Holds, Has
    <3> QED
      BY <3>1, <3>4, <3>5 DEF Holds
  <2>2. ASSUME Holds(k, r, a), a # o, a # r PROVE Holds(k2, r, a)
    <3>1. PICK t \in Slot : k[r][t] # Nil /\ k[r][t].type = "ptr" /\ k[r][t].to = a
      BY <2>2 DEF Holds
    <3>2. ~(p = r /\ t = s)
      BY <3>1, <2>2 DEF o
    <3> QED
      BY <3>1, <3>2, <1>4 DEF Holds
  <2>4. a = r => Holds(k2, r, a) /\ Holds(k, r, a) /\ a # o
    BY <1>2 DEF Holds
  <2> QED
    BY <2>1, <2>2, <2>4
<1>8. ASSUME NEW x \in Addr PROVE In(k2, r, x) <=> In(k, r, x) /\ x \notin Below2(k, p, s)
  <2>1. ASSUME In(k2, r, x), x # r PROVE In(k, r, x) /\ x \notin Below2(k, p, s)
    <3>1. PICK a \in Addr, t \in Slot : Holds(k2, r, a) /\ k2[a][t] # Nil /\ k2[a][t].to = x
      BY <2>1 DEF In, Has
    <3>2. ~(a = p /\ t = s)
      BY <3>1, <1>3
    <3>3. Holds(k, r, a) /\ a # o /\ k[a][t] # Nil /\ k[a][t].to = x
      BY <3>1, <3>2, <1>4, <1>7
    <3>4. x # o
      BY <3>2, <3>3, <1>2 DEF Has
    <3>5. ASSUME Holds(k, r, o), NEW u \in Slot, Has(k, o, u, x) PROVE FALSE
      BY <3>3, <3>5, <1>2 DEF Sound, Has
    <3> QED
      BY <3>3, <3>4, <3>5, <1>5 DEF In, Has
  <2>2. ASSUME In(k, r, x), x \notin Below2(k, p, s), x # r PROVE In(k2, r, x)
    <3>1. PICK a \in Addr, t \in Slot : Holds(k, r, a) /\ k[a][t] # Nil /\ k[a][t].to = x
      BY <2>2 DEF In, Has
    <3>2. ~(a = p /\ t = s) /\ a # o
      BY <3>1, <2>2, <1>5 DEF o, Has
    <3> QED
      BY <3>1, <3>2, <1>4, <1>7 DEF In, Has
  <2>4. x = r => In(k2, r, x) /\ In(k, r, x) /\ x \notin Below2(k, p, s)
    <3>1. ASSUME x = r, x \in Below2(k, p, s) PROVE FALSE
      BY <3>1, <1>2, <1>5 DEF Sound, Has
    <3> QED
      BY <3>1 DEF In
  <2> QED
    BY <2>1, <2>2, <2>4
<1>9. \A a \in Addr, t \in Slot : Holds(k2, r, a) /\ k2[a][t] # Nil =>
        Holds(k, r, a) /\ k2[a][t] = k[a][t]
  BY <1>3, <1>4, <1>7
<1> QED
  BY <1>7, <1>8, <1>9 DEF Sound, o, Has

(* A pointer block is put between the root and the block a pointer of the  *)
(* root names.                                                             *)
GrownTo(k, k2, r, s, bb) ==
  \A a \in Addr, t \in Slot :
    k2[a][t] = IF a = bb THEN IF t = 0 THEN k[r][s] ELSE Nil
               ELSE IF a = r /\ t = s THEN [to |-> bb, type |-> "ptr"] ELSE k[a][t]

(* A pointer block is put between the root and a data block                *)
(* (sourceGrowDepth).                                                      *)
LEMMA TreeGrow ==
  ASSUME NEW k \in Kd, NEW k2 \in Kd, NEW r \in Addr, Sound(k, r), NEW s \in Slot,
         k[r][s] # Nil => k[r][s].type = "data", NEW bb \in Addr, ~In(k, r, bb),
         GrownTo(k, k2, r, s, bb)
  PROVE  /\ \A a \in Addr : Holds(k2, r, a) <=> Holds(k, r, a) \/ a = bb
         /\ \A x \in Addr : In(k2, r, x) <=> In(k, r, x) \/ x = bb
         /\ Sound(k2, r)
<1>0. \A a \in Addr : Holds(k, r, a) => a # bb
  BY HoldsIn
<1>1. r # bb /\ Holds(k, r, r)
  BY <1>0 DEF Holds, In
<1>3. k2[r][s] # Nil /\ k2[r][s].to = bb /\ k2[r][s].type = "ptr"
  <2>1. k2[r][s] = [to |-> bb, type |-> "ptr"]
    BY <1>1 DEF GrownTo
  <2>2. [to |-> bb, type |-> "ptr"] # Nil
    BY NewPtr
  <2> QED
    BY <2>1, <2>2
<1>4. \A a \in Addr, t \in Slot : a # bb /\ ~(a = r /\ t = s) => k2[a][t] = k[a][t]
  BY DEF GrownTo
<1>5. \A t \in Slot : k2[bb][t] = IF t = 0 THEN k[r][s] ELSE Nil
  BY DEF GrownTo
<1>7. ASSUME NEW a \in Addr PROVE Holds(k2, r, a) <=> Holds(k, r, a) \/ a = bb
  <2>1. ASSUME Holds(k2, r, a), a # r PROVE Holds(k, r, a) \/ a = bb
    <3>1. PICK t \in Slot : k2[r][t] # Nil /\ k2[r][t].type = "ptr" /\ k2[r][t].to = a
      BY <2>1 DEF Holds
    <3> QED
      BY <3>1, <1>1, <1>3, <1>4 DEF Holds
  <2>2. ASSUME Holds(k, r, a), a # r PROVE Holds(k2, r, a)
    <3>1. PICK t \in Slot : k[r][t] # Nil /\ k[r][t].type = "ptr" /\ k[r][t].to = a
      BY <2>2 DEF Holds
    <3>2. t # s
      BY <3>1
    <3> QED
      BY <3>1, <3>2, <1>1, <1>4 DEF Holds
  <2>3. Holds(k2, r, bb) /\ (a = r => Holds(k2, r, a) /\ Holds(k, r, a))
    BY <1>3 DEF Holds
  <2> QED
    BY <2>1, <2>2, <2>3
<1>8. ASSUME NEW x \in Addr PROVE In(k2, r, x) <=> In(k, r, x) \/ x = bb
  <2>1. ASSUME In(k2, r, x), x # r, x # bb PROVE In(k, r, x)
    <3>1. PICK a \in Addr, t \in Slot : Holds(k2, r, a) /\ k2[a][t] # Nil /\ k2[a][t].to = x
      BY <2>1 DEF In, Has
    <3>2. CASE a = bb
      BY <3>1, <3>2, <1>1, <1>5 DEF In, Has
    <3>3. CASE a # bb
      BY <3>1, <3>3, <2>1, <1>3, <1>4, <1>7 DEF In, Has
    <3> QED
      BY <3>2, <3>3
  <2>2. ASSUME In(k, r, x), x # r PROVE In(k2, r, x)
    <3>1. PICK a \in Addr, t \in Slot : Holds(k, r, a) /\ k[a][t] # Nil /\ k[a][t].to = x
      BY <2>2 DEF In, Has
    <3>2. CASE a = r /\ t = s
      <4>1. Holds(k2, r, bb) /\ k2[bb][0] = k[r][s] /\ 0 \in Slot
        BY <1>5, <1>7, SlotAssumption
      <4> QED
        BY <3>1, <3>2, <4>1 DEF In, Has
    <3>3. CASE ~(a = r /\ t = s)
      BY <3>1, <3>3, <1>0, <1>4, <1>7 DEF In, Has
    <3> QED
      BY <3>2, <3>3
  <2>3. In(k2, r, bb) /\ (x = r => In(k2, r, x) /\ In(k, r, x))
    BY <1>3 DEF In, Has, Holds
  <2> QED
    BY <2>1, <2>2, <2>3
<1>9. ASSUME NEW a \in Addr, NEW t \in Slot, Holds(k2, r, a), k2[a][t] # Nil
      PROVE  /\ k2[a][t].to # r /\ (a # r => k2[a][t].type = "data")
             /\ k2[a][t].to = bb <=> (a = r /\ t = s)
             /\ a = bb => t = 0 /\ k2[a][t] = k[r][s] /\ k[r][s] # Nil
             /\ a # bb /\ ~(a = r /\ t = s) => k2[a][t] = k[a][t] /\ Holds(k, r, a)
  <2>1. CASE a = r /\ t = s
    BY <2>1, <1>1, <1>3
  <2>2. CASE a = bb
    <3>1. t = 0 /\ k2[a][t] = k[r][s] /\ k[r][s] # Nil
      BY <2>2, <1>9, <1>5
    <3>2. k[r][s].to # r /\ k[r][s].type = "data"
      BY <3>1, <1>1 DEF Sound
    <3>3. k[r][s].to # bb
      BY <3>1, <1>1 DEF In, Has
    <3> QED
      BY <2>2, <3>1, <3>2, <3>3, <1>1
  <2>3. CASE a # bb /\ ~(a = r /\ t = s)
    <3>1. Holds(k, r, a) /\ k[a][t] # Nil /\ k2[a][t] = k[a][t]
      BY <2>3, <1>9, <1>4, <1>7
    <3>2. k[a][t].to # r /\ (a # r => k[a][t].type = "data")
      BY <3>1 DEF Sound
    <3>3. k[a][t].to # bb
      BY <3>1 DEF In, Has
    <3> QED
      BY <2>3, <3>1, <3>2, <3>3
  <2> QED
    BY <2>1, <2>2, <2>3
<1>10. ASSUME NEW a \in Addr, NEW b \in Addr, NEW t \in Slot, NEW u \in Slot, Holds(k2, r, a),
             Holds(k2, r, b), k2[a][t] # Nil, Has(k2, b, u, k2[a][t].to)
      PROVE  a = b /\ t = u
  <2>0. k2[b][u] # Nil /\ k2[b][u].to = k2[a][t].to
    BY <1>10 DEF Has
  <2>1. CASE k2[a][t].to = bb
    BY <1>9, <1>10, <2>0, <2>1
  <2>2. CASE k2[a][t].to # bb
    <3> DEFINE a0 == IF a = bb THEN r ELSE a
               b0 == IF b = bb THEN r ELSE b
               t0 == IF a = bb THEN s ELSE t
               u0 == IF b = bb THEN s ELSE u
    <3>1. ~(a = r /\ t = s) /\ ~(b = r /\ u = s)
      BY <1>9, <1>10, <2>0, <2>2
    <3>2. k2[a][t] = k[a0][t0] /\ Holds(k, r, a0) /\ k2[b][u] = k[b0][u0] /\ Holds(k, r, b0)
          /\ a0 \in Addr /\ b0 \in Addr /\ t0 \in Slot /\ u0 \in Slot
      BY <1>1, <1>9, <1>10, <2>0, <3>1
    <3>3. a0 = b0 /\ t0 = u0
      <4> HIDE DEF a0, b0, t0, u0
      <4> QED
        BY <3>2, <2>0, <1>10 DEF Sound, Has
    <3>4. (a = bb => t = 0) /\ (b = bb => u = 0)
      BY <1>9, <1>10, <2>0
    <3> QED
      BY <3>1, <3>3, <3>4
  <2> QED
    BY <2>1, <2>2
<1> QED
  BY <1>7, <1>8, <1>9, <1>10 DEF Sound

(* The first data block takes the place of a pointer block.                *)
ShrunkTo(k, k2, r, s) ==
  \A a \in Addr, t \in Slot :
    k2[a][t] = IF a = k[r][s].to /\ t = 0 THEN Nil
               ELSE IF a = r /\ t = s THEN k[k[r][s].to][0] ELSE k[a][t]

(* The root points at the first data block again (sourceShrinkDepth): the  *)
(* pointer block and what else was below it are out of the tree.           *)
LEMMA TreeShrink ==
  ASSUME NEW k \in Kd, NEW k2 \in Kd, NEW r \in Addr, Sound(k, r), NEW s \in Slot,
         k[r][s] # Nil, k[r][s].type = "ptr",
         ShrunkTo(k, k2, r, s)
  PROVE  /\ \A a \in Addr : Holds(k2, r, a) <=> Holds(k, r, a) /\ a # k[r][s].to
         /\ \A x \in Addr : In(k2, r, x) <=>
              In(k, r, x) /\ x # k[r][s].to /\ ~\E t \in Slot : t # 0 /\ Has(k, k[r][s].to, t, x)
         /\ Sound(k2, r)
<1> DEFINE o == k[r][s].to
<1>1. Holds(k, r, r) /\ 0 \in Slot
  BY SlotAssumption DEF Holds
<1>2. /\ o \in Addr /\ o # r /\ Holds(k, r, o)
      /\ \A a \in Addr, t \in Slot : Holds(k, r, a) /\ Has(k, a, t, o) => a = r /\ t = s
      /\ k[o][0] # Nil => k[o][0].type = "data" /\ k[o][0].to # r /\ k[o][0].to # o
  <2>1. o \in Addr /\ o # r /\ Holds(k, r, o)
      /\ \A a \in Addr, t \in Slot : Holds(k, r, a) /\ Has(k, a, t, o) => a = r /\ t = s
    BY <1>1, HoldsOnce
  <2>2. ASSUME k[o][0] # Nil PROVE k[o][0].type = "data" /\ k[o][0].to # r /\ k[o][0].to # o
    <3>1. k[o][0].type = "data" /\ k[o][0].to # r
      BY <2>1, <2>2, <1>1 DEF Sound
    <3>2. k[o][0].to # o
      BY <2>1, <2>2, <1>1 DEF Has
    <3> QED
      BY <3>1, <3>2
  <2> QED
    BY <2>1, <2>2
<1>3. k2[r][s] = k[o][0] /\ k2[o][0] = Nil
  BY <1>1, <1>2 DEF ShrunkTo
<1>4. \A a \in Addr, t \in Slot : ~(a = o /\ t = 0) /\ ~(a = r /\ t = s) => k2[a][t] = k[a][t]
  BY DEF ShrunkTo
<1> HIDE DEF o
<1>7. ASSUME NEW a \in Addr PROVE Holds(k2, r, a) <=> Holds(k, r, a) /\ a # o
  <2>1. ASSUME Holds(k2, r, a), a # r PROVE Holds(k, r, a) /\ a # o
    <3>1. PICK t \in Slot : k2[r][t] # Nil /\ k2[r][t].type = "ptr" /\ k2[r][t].to = a
      BY <2>1 DEF Holds
    <3>2. t # s
      BY <3>1, <1>2, <1>3
    <3>3. k2[r][t] = k[r][t]
      BY <3>2, <1>2, <1>4
    <3>4. a # o
      BY <3>1, <3>2, <3>3, <1>1, <1>2 DEF Has
    <3> QED
      BY <3>1, <3>3, <3>4 DEF Holds
  <2>2. ASSUME Holds(k, r, a), a # o, a # r PROVE Holds(k2, r, a)
    <3>1. PICK t \in Slot : k[r][t] # Nil /\ k[r][t].type = "ptr" /\ k[r][t].to = a
      BY <2>2 DEF Holds
    <3>2. t # s
      BY <3>1, <2>2 DEF o
    <3> QED
      BY <3>1, <3>2, <1>2, <1>4 DEF Holds
  <2>3. a = r => Holds(k2, r, a) /\ Holds(k, r, a) /\ a # o
    BY <1>2 DEF Holds
  <2> QED
    BY <2>1, <2>2, <2>3
<1>9. ASSUME NEW a \in Addr, NEW t \in Slot, Holds(k2, r, a), k2[a][t] # Nil
      PROVE  /\ a = r /\ t = s => k2[a][t] = k[o][0] /\ k[o][0] # Nil
             /\ ~(a = r /\ t = s) => k2[a][t] = k[a][t] /\ Holds(k, r, a) /\ a # o
  BY <1>3, <1>4, <1>7, <1>9
<1>8. ASSUME NEW x \in Addr
      PROVE  In(k2, r, x) <=> In(k, r, x) /\ x # o /\ ~\E t \in Slot : t # 0 /\ Has(k, o, t, x)
  <2>1. ASSUME In(k2, r, x), x # r
        PROVE  In(k, r, x) /\ x # o /\ ~\E t \in Slot : t # 0 /\ Has(k, o, t, x)
    <3>1. PICK a \in Addr, t \in Slot : Holds(k2, r, a) /\ k2[a][t] # Nil /\ k2[a][t].to = x
      BY <2>1 DEF In, Has
    <3>2. CASE a = r /\ t = s
      <4>1. k[o][0] # Nil /\ k[o][0].to = x
        BY <3>1, <3>2, <1>9
      <4>2. x # o
        BY <4>1, <1>2
      <4>3. ASSUME NEW u \in Slot, u # 0, Has(k, o, u, x) PROVE FALSE
        BY <4>1, <4>3, <1>1, <1>2 DEF Sound, Has
      <4> QED
        BY <4>1, <4>2, <4>3, <1>1, <1>2 DEF In, Has
    <3>3. CASE ~(a = r /\ t = s)
      <4>1. k[a][t] # Nil /\ k[a][t].to = x /\ Holds(k, r, a) /\ a # o
        BY <3>1, <3>3, <1>9
      <4>2. x # o
        BY <4>1, <3>3, <1>2 DEF Has
      <4>3. ASSUME NEW u \in Slot, Has(k, o, u, x) PROVE FALSE
        BY <4>1, <4>3, <1>2 DEF Sound, Has
      <4> QED
        BY <4>1, <4>2, <4>3 DEF In, Has
    <3> QED
      BY <3>2, <3>3
  <2>2. ASSUME In(k, r, x), x # r, x # o, ~\E t \in Slot : t # 0 /\ Has(k, o, t, x)
        PROVE  In(k2, r, x)
    <3>1. PICK a \in Addr, t \in Slot : Holds(k, r, a) /\ k[a][t] # Nil /\ k[a][t].to = x
      BY <2>2 DEF In, Has
    <3>2. CASE a = o
      <4>1. t = 0
        BY <3>1, <3>2, <2>2 DEF Has
      <4>2. k2[r][s] # Nil /\ k2[r][s].to = x
        BY <3>1, <3>2, <4>1, <1>3
      <4> QED
        BY <4>2 DEF In, Has, Holds
    <3>3. CASE a # o
      <4>1. ~(a = r /\ t = s)
        BY <3>1, <2>2 DEF o
      <4> QED
        BY <3>1, <3>3, <4>1, <1>4, <1>7 DEF In, Has
    <3> QED
      BY <3>2, <3>3
  <2>3. x = r => In(k2, r, x) /\ In(k, r, x) /\ x # o /\ ~\E t \in Slot : Has(k, o, t, x)
    <3>1. \A t \in Slot : ~Has(k, o, t, r)
      BY <1>2 DEF Sound, Has
    <3> QED
      BY <3>1, <1>2 DEF In
  <2> QED
    BY <2>1, <2>2, <2>3
<1>10. ASSUME NEW a \in Addr, NEW b \in Addr, NEW t \in Slot, NEW u \in Slot, Holds(k2, r, a),
             Holds(k2, r, b), k2[a][t] # Nil, Has(k2, b, u, k2[a][t].to)
      PROVE  a = b /\ t = u
  <2>0. k2[b][u] # Nil /\ k2[b][u].to = k2[a][t].to
    BY <1>10 DEF Has
  <2> DEFINE z(c, v) == c = r /\ v = s
             h(c, v) == IF z(c, v) THEN o ELSE c
             g(c, v) == IF z(c, v) THEN 0 ELSE v
  <2>1. /\ k2[a][t] = k[h(a, t)][g(a, t)] /\ Holds(k, r, h(a, t)) /\ (~z(a, t) => a # o)
        /\ h(a, t) \in Addr /\ g(a, t) \in Slot
    BY <1>1, <1>2, <1>9, <1>10
  <2>2. /\ k2[b][u] = k[h(b, u)][g(b, u)] /\ Holds(k, r, h(b, u)) /\ (~z(b, u) => b # o)
        /\ h(b, u) \in Addr /\ g(b, u) \in Slot
    BY <1>1, <1>2, <1>9, <1>10, <2>0
  <2>3. h(a, t) = h(b, u) /\ g(a, t) = g(b, u)
    <3> HIDE DEF h, g
    <3> QED
      BY <2>1, <2>2, <2>0, <1>10 DEF Sound, Has
  <2> QED
    BY <2>1, <2>2, <2>3
<1>11. ASSUME NEW a \in Addr, NEW t \in Slot, Holds(k2, r, a), k2[a][t] # Nil
      PROVE  k2[a][t].to # r /\ (a # r => k2[a][t].type = "data")
  BY <1>2, <1>9, <1>11 DEF Sound
<1> QED
  BY <1>7, <1>8, <1>10, <1>11 DEF Sound, o

(* A new root holds what the root held.                                    *)
LEMMA TreeRoot ==
  ASSUME NEW k \in Kd, NEW k2 \in Kd, NEW r \in Addr, Sound(k, r), NEW bb \in Addr, ~In(k, r, bb),
         \A a \in Addr, t \in Slot : k2[a][t] = IF a = bb THEN k[r][t] ELSE k[a][t]
  PROVE  /\ \A a \in Addr : Holds(k2, bb, a) <=> (Holds(k, r, a) /\ a # r) \/ a = bb
         /\ \A x \in Addr : In(k2, bb, x) <=> (In(k, r, x) /\ x # r) \/ x = bb
         /\ Sound(k2, bb)
<1>0. \A a \in Addr : Holds(k, r, a) => a # bb
  BY HoldsIn
<1>1. r # bb /\ Holds(k, r, r)
  BY <1>0 DEF Holds, In
<1>2. \A t \in Slot : k2[bb][t] = k[r][t] /\ (k[r][t] # Nil => k[r][t].to # r /\ k[r][t].to # bb)
  BY <1>1 DEF Sound, In, Has
<1>3. \A a \in Addr, t \in Slot : a # bb => k2[a][t] = k[a][t]
  OBVIOUS
<1>7. ASSUME NEW a \in Addr PROVE Holds(k2, bb, a) <=> (Holds(k, r, a) /\ a # r) \/ a = bb
  BY <1>2 DEF Holds
<1>9. ASSUME NEW a \in Addr, NEW t \in Slot, Holds(k2, bb, a), k2[a][t] # Nil
      PROVE  /\ a = bb => k2[a][t] = k[r][t]
             /\ a # bb => k2[a][t] = k[a][t] /\ Holds(k, r, a) /\ a # r
             /\ k2[a][t].to # r /\ k2[a][t].to # bb /\ (a # bb => k2[a][t].type = "data")
  <2>1. CASE a = bb
    BY <2>1, <1>2, <1>9
  <2>2. CASE a # bb
    <3>1. k2[a][t] = k[a][t] /\ Holds(k, r, a) /\ a # r
      BY <2>2, <1>3, <1>7, <1>9
    <3>2. k[a][t].to # r /\ k[a][t].type = "data"
      BY <3>1, <1>9 DEF Sound
    <3>3. k[a][t].to # bb
      BY <3>1, <1>9 DEF In, Has
    <3> QED
      BY <2>2, <3>1, <3>2, <3>3
  <2> QED
    BY <2>1, <2>2
<1>8. ASSUME NEW x \in Addr PROVE In(k2, bb, x) <=> (In(k, r, x) /\ x # r) \/ x = bb
  <2>1. ASSUME In(k2, bb, x), x # bb PROVE In(k, r, x) /\ x # r
    <3>1. PICK a \in Addr, t \in Slot : Holds(k2, bb, a) /\ k2[a][t] # Nil /\ k2[a][t].to = x
      BY <2>1 DEF In, Has
    <3> QED
      BY <3>1, <1>1, <1>9 DEF In, Has
  <2>2. ASSUME In(k, r, x), x # r PROVE In(k2, bb, x)
    <3>1. PICK a \in Addr, t \in Slot : Holds(k, r, a) /\ k[a][t] # Nil /\ k[a][t].to = x
      BY <2>2 DEF In, Has
    <3>2. CASE a = r
      BY <3>1, <3>2, <1>2, <1>7 DEF In, Has
    <3>3. CASE a # r
      BY <3>1, <3>3, <1>0, <1>3, <1>7 DEF In, Has
    <3> QED
      BY <3>2, <3>3
  <2> QED
    BY <2>1, <2>2 DEF In
<1>10. ASSUME NEW a \in Addr, NEW b \in Addr, NEW t \in Slot, NEW u \in Slot, Holds(k2, bb, a),
             Holds(k2, bb, b), k2[a][t] # Nil, Has(k2, b, u, k2[a][t].to)
      PROVE  a = b /\ t = u
  <2>0. k2[b][u] # Nil /\ k2[b][u].to = k2[a][t].to
    BY <1>10 DEF Has
  <2> DEFINE h(c) == IF c = bb THEN r ELSE c
  <2>1. k2[a][t] = k[h(a)][t] /\ Holds(k, r, h(a)) /\ (a # bb => a # r) /\ h(a) \in Addr
    BY <1>1, <1>9, <1>10
  <2>2. k2[b][u] = k[h(b)][u] /\ Holds(k, r, h(b)) /\ (b # bb => b # r) /\ h(b) \in Addr
    BY <1>1, <1>9, <1>10, <2>0
  <2>3. h(a) = h(b) /\ t = u
    <3> HIDE DEF h
    <3> QED
      BY <2>1, <2>2, <2>0, <1>10 DEF Sound, Has
  <2> QED
    BY <2>1, <2>2, <2>3
<1> QED
  BY <1>7, <1>8, <1>9, <1>10 DEF Sound

-----------------------------------------------------------------------------
(* The books: what holds of the trees of all epochs                        *)

(* The epochs that can be read, and their roots                            *)
Eras(m) == m.sup.elo .. m.sup.ehi

Roots(m, rt) ==
  /\ rt \in [Epoch -> Addr]
  /\ m.sup.elo <= m.sup.ehi
  /\ rt[m.sup.ehi] = m.sup.active
  /\ \A e \in Eras(m) : m.lab[rt[e]].type = "root" /\ m.lab[rt[e]].epoch = e
  /\ \A e \in Eras(m) : e > m.sup.elo => m.snap[rt[e]] = [to |-> rt[e-1], epoch |-> e-1]
  /\ m.snap[rt[m.sup.elo]] # Nil => m.snap[rt[m.sup.elo]].epoch < m.sup.elo

(* Pointers have the type of the block, which is not younger than its      *)
(* holder.                                                                 *)
Typed(m, r) ==
  \A a \in Addr, s \in Slot : Holds(m.kid, r, a) /\ m.kid[a][s] # Nil =>
    /\ m.lab[m.kid[a][s].to].type = m.kid[a][s].type
    /\ m.lab[m.kid[a][s].to].epoch <= m.lab[a].epoch

(* Nothing in the tree of epoch e is free for use.                         *)
Alive(m, r, e) ==
  \A x \in Addr : In(m.kid, r, x) =>
    /\ m.lab[x].st # "free" /\ m.lab[x].epoch \in 1..e
    /\ m.lab[x].st = "closed" => m.lab[x].close > e

Trees(m, rt) ==
  \A e \in Eras(m) : Sound(m.kid, rt[e]) /\ Typed(m, rt[e]) /\ Alive(m, rt[e], e)

(* A block is in every tree between its own epoch and the last it is in.   *)
Between(m, rt) ==
  \A e, f \in Eras(m) : \A x \in Addr :
    In(m.kid, rt[e], x) /\ m.lab[x].type # "data" /\ f <= e /\ m.lab[x].epoch <= f
      => In(m.kid, rt[f], x)

(* What a later tree shares with an earlier one it took from a copy.       *)
Copied(m, rt) ==
  \A e, f \in Eras(m) : \A a, x \in Addr, s \in Slot :
     e < f /\ Holds(m.kid, rt[e], a) /\ Has(m.kid, a, s, x)
       /\ In(m.kid, rt[f], x) /\ ~In(m.kid, rt[f], a) => m.lab[a].copied

Leaves(m) == \A a \in Addr : m.lab[a].type = "data" => \A s \in Slot : m.kid[a][s] = Nil
Past(m) ==
  \A a \in Addr : /\ m.lab[a].st # "bad"
                  /\ m.lab[a].st = "closed" => m.lab[a].close <= m.sup.ehi

Book(m, rt) ==
  Roots(m, rt) /\ Trees(m, rt) /\ Between(m, rt) /\ Copied(m, rt) /\ Leaves(m) /\ Past(m)

-----------------------------------------------------------------------------
(* The types of an image's parts.                                          *)
LEMMA ImageIs ==
  ASSUME NEW m \in Image
  PROVE  /\ m.kid \in Kd /\ m.snap \in [Addr -> SnapEntry] /\ m.lab \in [Addr -> Label]
         /\ m.sup \in [active: Addr, ehi: Epoch, elo: Epoch]
         /\ m.sup.active \in Addr /\ m.sup.ehi \in Epoch /\ m.sup.elo \in Epoch
  BY DEF Image, Kd

(* The types of a label's parts.                                           *)
LEMMA LabelIs ==
  ASSUME NEW m \in Image, NEW a \in Addr
  PROVE  /\ m.lab[a] \in Label /\ m.lab[a].epoch \in Nat /\ m.lab[a].close \in Nat
         /\ m.lab[a].st \in {"free", "alloc", "closed", "bad"} /\ m.lab[a].copied \in BOOLEAN
         /\ m.lab[a].epoch \in 0..MaxEpoch /\ m.lab[a].close \in 0..MaxEpoch
<1>1. m.lab[a] \in Label
  BY ImageIs
<1> QED
  BY <1>1, BoundAssumption DEF Label

(* Epochs are positive numbers.                                            *)
LEMMA EpochIs == Epoch \subseteq Nat /\ \A e \in Epoch : e >= 1
  BY BoundAssumption DEF Epoch

(* The epochs that can be read, from the low one to the current one, and   *)
(* their roots.                                                            *)
LEMMA KeptIs ==
  ASSUME NEW m \in Image, NEW rt, Roots(m, rt)
  PROVE  /\ m.sup.ehi \in Eras(m) /\ m.sup.elo \in Eras(m)
         /\ Eras(m) \subseteq Epoch /\ Eras(m) \subseteq Nat
         /\ \A e \in Eras(m) : rt[e] \in Addr /\ e <= m.sup.ehi /\ e >= m.sup.elo
<1>1. m.sup.ehi \in Epoch /\ m.sup.elo \in Epoch /\ m.sup.elo <= m.sup.ehi
  BY ImageIs DEF Roots
<1> QED
  BY <1>1, EpochIs, BoundAssumption DEF Eras, Roots, Epoch

(* No block that cacheAllocBlock may give out is in a tree that is kept.   *)
LEMMA AllocOutside ==
  ASSUME NEW m \in Image, NEW rt, Roots(m, rt), Trees(m, rt), NEW bb \in Addr, Allocatable(m, bb),
         NEW e \in Eras(m)
  PROVE  ~In(m.kid, rt[e], bb) /\ bb # rt[e]
<1>1. SUFFICES ASSUME In(m.kid, rt[e], bb) PROVE FALSE
  BY DEF In
<1>2. /\ m.lab[bb].st # "free" /\ m.lab[bb].epoch \in 1..e
      /\ m.lab[bb].st = "closed" => m.lab[bb].close > e
  BY <1>1 DEF Trees, Alive
<1>3. e >= m.sup.elo /\ e \in Nat /\ m.sup.elo \in Nat /\ m.lab[bb].close \in Nat
  BY KeptIs, LabelIs, ImageIs, EpochIs
<1> QED
  BY <1>2, <1>3 DEF Allocatable, Closed

-----------------------------------------------------------------------------
(* The tree of the current epoch loses the blocks of D, and gains those    *)
(* of N.                                                                   *)
Pruned(m, m2, a) ==
  m.lab[a].type = "ptr" /\ m2.kid[a] = [m.kid[a] EXCEPT ![0] = Nil]

Stepped(m, m2, D, N) ==
  /\ m2.sup = m.sup
  /\ D \subseteq Addr /\ N \subseteq Addr
  /\ \A a \in N : Allocatable(m, a) /\ m2.lab[a].st = "alloc" /\ m2.lab[a].epoch = m.sup.ehi
  /\ \A a \in Addr \ N :
       /\ m2.snap[a] = m.snap[a]
       /\ m2.lab[a].st = m.lab[a].st /\ m2.lab[a].type = m.lab[a].type
       /\ m2.lab[a].epoch = m.lab[a].epoch /\ m2.lab[a].close = m.lab[a].close
       /\ m.lab[a].copied => m2.lab[a].copied
       /\ m2.kid[a] # m.kid[a] => 
            /\ In(m.kid, m.sup.active, a)
            /\ m.lab[a].epoch = m.sup.ehi \/ Pruned(m, m2, a)
  /\ \A a \in D : In(m.kid, m.sup.active, a) /\ a # m.sup.active
  /\ \A x \in Addr : In(m2.kid, m.sup.active, x) <=>
       (In(m.kid, m.sup.active, x) /\ x \notin D) \/ x \in N
  /\ Sound(m2.kid, m.sup.active) /\ Typed(m2, m.sup.active) /\ Leaves(m2)
  /\ \A a \in D : m.lab[a].epoch < m.sup.ehi =>
       m2.lab[a].copied \/ \A s \in Slot, x \in Addr : Has(m2.kid, a, s, x) => x \in D

(* An operation on the current tree leaves the trees of the past epochs    *)
(* alone, but for a data block that sourceShrinkDepth takes out of a       *)
(* shared pointer block.                                                   *)
LEMMA OldTrees ==
  ASSUME NEW m \in Image, NEW m2 \in Image, NEW rt, Book(m, rt), NEW D, NEW N, Stepped(m, m2, D, N),
         NEW e \in Eras(m), e # m.sup.ehi
  PROVE  /\ \A a : Holds(m2.kid, rt[e], a) <=> Holds(m.kid, rt[e], a)
         /\ \A x : In(m2.kid, rt[e], x) => In(m.kid, rt[e], x)
         /\ \A x \in Addr : In(m.kid, rt[e], x) /\ m.lab[x].type # "data" => In(m2.kid, rt[e], x)
         /\ \A x \in Addr : In(m.kid, rt[e], x) => x \notin N /\ (m2.kid[x] = m.kid[x] \/ Pruned(m, m2, x))
         /\ m2.kid[rt[e]] = m.kid[rt[e]]
         /\ Sound(m2.kid, rt[e])
<1>1. rt[e] \in Addr /\ e < m.sup.ehi
  BY KeptIs, ImageIs, EpochIs DEF Book
<1>2. ASSUME NEW x \in Addr, In(m.kid, rt[e], x) PROVE x \notin N /\ (m2.kid[x] = m.kid[x] \/ Pruned(m, m2, x))
  <2>1. x \notin N
    BY <1>2, AllocOutside DEF Book, Stepped
  <2>2. m.lab[x].epoch <= e
    BY <1>2 DEF Book, Trees, Alive
  <2>3. m.lab[x].epoch # m.sup.ehi
    BY <1>1, <2>2, LabelIs, ImageIs, EpochIs, KeptIs DEF Book
  <2> QED
    BY <2>1, <2>3 DEF Stepped
<1>4. m.kid \in Kd /\ m2.kid \in Kd /\ Sound(m.kid, rt[e]) /\ Typed(m, rt[e]) /\ Leaves(m)
  BY ImageIs DEF Book, Trees
<1>3. ASSUME NEW a \in Addr, NEW s \in Slot, Holds(m.kid, rt[e], a)
      PROVE  m2.kid[a][s] \in {m.kid[a][s], Nil}
  <2>1. m2.kid[a] = m.kid[a] \/ Pruned(m, m2, a)
    BY <1>1, <1>2, <1>3, <1>4, HoldsIn
  <2> QED
    BY <2>1, <1>4 DEF Pruned, Kd
<1>5. m2.kid[rt[e]] = m.kid[rt[e]]
  <2>1. m.lab[rt[e]].type = "root" /\ In(m.kid, rt[e], rt[e])
    BY DEF Book, Roots, In
  <2> QED
    BY <2>1, <1>1, <1>2 DEF Pruned
<1>6. /\ \A a : Holds(m2.kid, rt[e], a) <=> Holds(m.kid, rt[e], a)
      /\ \A x : In(m2.kid, rt[e], x) => In(m.kid, rt[e], x)
      /\ \A x : Holds(m.kid, rt[e], x) => In(m2.kid, rt[e], x)
      /\ Sound(m2.kid, rt[e])
  BY <1>1, <1>3, <1>4, <1>5, PrunedTree
<1>7. ASSUME NEW x \in Addr, In(m.kid, rt[e], x), m.lab[x].type # "data" PROVE In(m2.kid, rt[e], x)
  <2>1. Holds(m.kid, rt[e], x)
    <3>1. CASE x = rt[e]
      BY <3>1 DEF Holds
    <3>2. CASE x # rt[e]
      <4>1. PICK a \in Addr, s \in Slot : Holds(m.kid, rt[e], a) /\ m.kid[a][s] # Nil /\ m.kid[a][s].to = x
        BY <3>2, <1>7 DEF In, Has
      <4>2. m.kid[a][s].type # "data"
        BY <4>1, <1>4, <1>7 DEF Typed
      <4>3. a = rt[e] /\ m.kid[a][s].type = "ptr"
        BY <4>1, <4>2, <1>4, PtrIs DEF Sound
      <4> QED
        BY <4>1, <4>3 DEF Holds
    <3> QED
      BY <3>1, <3>2
  <2> QED
    BY <2>1, <1>6
<1> QED
  BY <1>2, <1>5, <1>6, <1>7

(* An operation that drops D from the current tree and puts the new blocks *)
(* N in it keeps the books: this is all that copy on write must ensure of  *)
(* each.                                                                   *)
LEMMA BookStep ==
  ASSUME NEW m \in Image, NEW m2 \in Image, NEW rt, Book(m, rt), NEW D, NEW N, Stepped(m, m2, D, N)
  PROVE  Book(m2, rt)
<1> DEFINE r == m.sup.active
           hi == m.sup.ehi
<1>1. /\ Eras(m2) = Eras(m) /\ hi \in Eras(m) /\ rt[hi] = r /\ r \in Addr /\ hi \in Nat
      /\ \A e \in Eras(m) : rt[e] \in Addr /\ e \in Nat /\ e <= hi
  BY KeptIs, ImageIs, EpochIs DEF Eras, Book, Roots, Stepped
<1>2. \A e \in Eras(m) : rt[e] \notin N
  BY AllocOutside DEF Book, Stepped
<1>3. \A a \in Addr : m2.lab[a].epoch \in Nat
         /\ m.lab[a].epoch \in Nat /\ m.lab[a].close \in Nat
  BY LabelIs
<1>4. Roots(m2, rt)
  <2>1. \A e \in Eras(m) : m2.lab[rt[e]].type = "root" /\ m2.lab[rt[e]].epoch = e /\ m2.snap[rt[e]] = m.snap[rt[e]]
    BY <1>1, <1>2 DEF Book, Roots, Stepped
  <2>2. m.sup.elo \in Eras(m) /\ m2.sup = m.sup
    BY KeptIs DEF Book, Stepped
  <2> QED
    BY <1>1, <2>1, <2>2 DEF Book, Roots
<1>5. ASSUME NEW e \in Eras(m) PROVE Sound(m2.kid, rt[e]) /\ Typed(m2, rt[e]) /\ Alive(m2, rt[e], e)
  <2>1. CASE e = hi
    <3>1. Sound(m2.kid, rt[e]) /\ Typed(m2, rt[e])
      BY <1>1, <2>1 DEF Stepped
    <3>2. ASSUME NEW x \in Addr, In(m2.kid, rt[e], x)
          PROVE  /\ m2.lab[x].st # "free" /\ m2.lab[x].epoch \in 1..e
                 /\ m2.lab[x].st = "closed" => m2.lab[x].close > e
      <4>1. CASE x \in N
        <5>1. hi >= 1
          BY ImageIs, EpochIs
        <5> QED
          BY <4>1, <2>1, <5>1, <1>1 DEF Stepped
      <4>2. CASE x \notin N
        <5>1. In(m.kid, r, x)
          BY <3>2, <4>2, <1>1, <2>1 DEF Stepped
        <5>2. /\ m.lab[x].st # "free" /\ m.lab[x].epoch \in 1..e
              /\ m.lab[x].st = "closed" => m.lab[x].close > e
          BY <5>1, <1>1, <2>1 DEF Book, Trees, Alive
        <5> QED
          BY <5>2, <4>2 DEF Stepped
      <4> QED
        BY <4>1, <4>2
    <3> QED
      BY <3>1, <3>2 DEF Alive
  <2>2. CASE e # hi
    <3>1. /\ \A a : Holds(m2.kid, rt[e], a) <=> Holds(m.kid, rt[e], a)
          /\ \A x : In(m2.kid, rt[e], x) => In(m.kid, rt[e], x)
          /\ \A x \in Addr : In(m.kid, rt[e], x) => x \notin N /\ (m2.kid[x] = m.kid[x] \/ Pruned(m, m2, x))
          /\ Sound(m2.kid, rt[e])
      BY <2>2, OldTrees
    <3>2. ASSUME NEW x \in Addr, In(m2.kid, rt[e], x)
          PROVE  /\ m2.lab[x].st # "free" /\ m2.lab[x].epoch \in 1..e
                 /\ m2.lab[x].st = "closed" => m2.lab[x].close > e
      <4>1. In(m.kid, rt[e], x) /\ x \notin N
        BY <3>1, <3>2
      <4>2. /\ m.lab[x].st # "free" /\ m.lab[x].epoch \in 1..e
            /\ m.lab[x].st = "closed" => m.lab[x].close > e
        BY <4>1 DEF Book, Trees, Alive
      <4> QED
        BY <4>1, <4>2 DEF Stepped
    <3>3. ASSUME NEW a \in Addr, NEW s \in Slot, Holds(m2.kid, rt[e], a), m2.kid[a][s] # Nil
          PROVE  /\ m2.lab[m2.kid[a][s].to].type = m2.kid[a][s].type
                 /\ m2.lab[m2.kid[a][s].to].epoch <= m2.lab[a].epoch
      <4>1. Holds(m.kid, rt[e], a)
        BY <3>1, <3>3
      <4>2. In(m.kid, rt[e], a) /\ a \notin N /\ m2.kid[a][s] = m.kid[a][s]
        <5>1. In(m.kid, rt[e], a) /\ a \notin N /\ (m2.kid[a] = m.kid[a] \/ Pruned(m, m2, a))
          BY <3>1, <4>1, <1>1, HoldsIn, ImageIs
        <5> QED
          BY <5>1, <3>3, ImageIs DEF Pruned, Kd
      <4> DEFINE x == m.kid[a][s].to
      <4>3. x \in Addr /\ In(m.kid, rt[e], x)
        <5>1. x \in Addr
          BY <3>3, <4>2, PtrIs, ImageIs
        <5> QED
          BY <5>1, <4>1, <4>2, <3>3 DEF In, Has
      <4>4. x \notin N
        BY <4>3, <3>1
      <4>5. m.lab[x].type = m.kid[a][s].type /\ m.lab[x].epoch <= m.lab[a].epoch
        BY <4>1, <4>2, <3>3 DEF Book, Trees, Typed
      <4>6. m2.lab[x].type = m.lab[x].type /\ m2.lab[x].epoch = m.lab[x].epoch /\ m2.lab[a].epoch = m.lab[a].epoch
        BY <4>2, <4>3, <4>4 DEF Stepped
      <4> QED
        BY <4>2, <4>5, <4>6
    <3> QED
      BY <3>1, <3>2, <3>3 DEF Alive, Typed
  <2> QED
    BY <2>1, <2>2
<1>6. ASSUME NEW e \in Eras(m), NEW f \in Eras(m), NEW x \in Addr,
             In(m2.kid, rt[e], x), m2.lab[x].type # "data", f <= e, m2.lab[x].epoch <= f
      PROVE  In(m2.kid, rt[f], x)
  <2>1. CASE f = e
    BY <1>6, <2>1
  <2>2. CASE f # e
    <3>1. f < hi /\ f # hi
      BY <1>1, <1>6, <2>2
    <3>2. x \notin N
      BY <1>1, <1>6, <3>1 DEF Stepped
    <3>3. In(m.kid, rt[e], x)
      <4>1. CASE e = hi
        BY <4>1, <1>1, <1>6, <3>2 DEF Stepped
      <4>2. CASE e # hi
        BY <4>2, <1>6, OldTrees
      <4> QED
        BY <4>1, <4>2
    <3>4. In(m.kid, rt[f], x) /\ m.lab[x].type # "data"
      BY <1>6, <3>2, <3>3 DEF Book, Between, Stepped
    <3> QED
      BY <3>1, <3>4, OldTrees
  <2> QED
    BY <2>1, <2>2
<1>7. ASSUME NEW e \in Eras(m), NEW f \in Eras(m), NEW a \in Addr, NEW x \in Addr, NEW s \in Slot,
             e < f, Holds(m2.kid, rt[e], a), Has(m2.kid, a, s, x), In(m2.kid, rt[f], x),
             ~In(m2.kid, rt[f], a)
      PROVE  m2.lab[a].copied
  <2>1. e # hi
    BY <1>1, <1>7
  <2>2. /\ Holds(m.kid, rt[e], a) /\ In(m.kid, rt[e], a) /\ a \notin N
         /\ (m2.kid[a] = m.kid[a] \/ Pruned(m, m2, a))
    <3>1. Holds(m.kid, rt[e], a)
      BY <1>7, <2>1, OldTrees
    <3>2. In(m.kid, rt[e], a)
      BY <3>1, <1>1, HoldsIn, ImageIs
    <3> QED
      BY <3>1, <3>2, <2>1, OldTrees
  <2>3. Has(m.kid, a, s, x) /\ m.lab[a].type # "data"
    <3>1. m2.kid[a][s] # Nil => m2.kid[a][s] = m.kid[a][s]
      BY <2>2, ImageIs DEF Pruned, Kd
    <3>2. Has(m.kid, a, s, x)
      BY <3>1, <1>7 DEF Has
    <3> QED
      BY <3>2 DEF Has, Book, Leaves
  <2>4. In(m.kid, rt[e], x) /\ x \notin N
    <3>1. In(m.kid, rt[e], x)
      BY <2>2, <2>3 DEF In
    <3> QED
      BY <3>1, <2>1, OldTrees
  <2>5. CASE f # hi
    <3>1. In(m.kid, rt[f], x) /\ ~In(m.kid, rt[f], a)
      BY <1>7, <2>2, <2>3, <2>5, OldTrees
    <3>2. m.lab[a].copied
      BY <3>1, <2>2, <2>3, <1>7 DEF Book, Copied
    <3> QED
      BY <3>2, <2>2 DEF Stepped
  <2>6. CASE f = hi
    <3>1. In(m.kid, r, x) /\ x \notin D
      BY <1>1, <1>7, <2>4, <2>6 DEF Stepped
    <3>2. CASE In(m.kid, r, a)
      <4>1. a \in D
        BY <3>2, <1>1, <1>7, <2>6 DEF Stepped
      <4>2. m.lab[a].epoch <= e
        BY <2>2 DEF Book, Trees, Alive
      <4>3. m.lab[a].epoch < hi
        BY <4>2, <1>1, <1>3, <1>7, <2>6
      <4> QED
        BY <4>1, <4>3, <3>1, <1>7 DEF Stepped
    <3>3. CASE ~In(m.kid, r, a)
      <4>1. m.lab[a].copied
        BY <3>1, <3>3, <2>2, <2>3, <1>1, <1>7, <2>6 DEF Book, Copied
      <4> QED
        BY <4>1, <2>2 DEF Stepped
    <3> QED
      BY <3>2, <3>3
  <2> QED
    BY <2>5, <2>6
<1>8. Leaves(m2)
  BY DEF Stepped
<1>9. Past(m2)
  BY DEF Stepped, Past, Book
<1> QED
  BY <1>1, <1>4, <1>5, <1>6, <1>7, <1>8, <1>9 DEF Book, Trees, Between, Copied

-----------------------------------------------------------------------------
(* Links: blocks that left the active tree and are not closed yet          *)

(* The blocks that removing link l will close                              *)
Claims(k, l, x) ==
  x = l.addr \/ (l.recurse /\ l.type = "ptr" /\ \E s \in Slot : Has(k, l.addr, s, x))
End(m, l) == closeEpoch(m, l)

(* It will close them, and none of them is in a tree at that epoch.        *)
Good(m, rt, l) ==
  /\ m.lab[l.addr].type = l.type
  /\ End(m, l) <= m.sup.ehi
  /\ \A x \in Addr : Claims(m.kid, l, x) =>
       /\ m.lab[x].st = "alloc" /\ m.lab[x].epoch <= End(m, l)
       /\ \A e \in Eras(m) : e >= End(m, l) => ~In(m.kid, rt[e], x)

Place == Blk \cup {Nil}     \* Nil is the unlink queue
Queues == [Place -> Seq(Link)]

Pending(k, ls, x) == \E c \in Place : \E i \in DOMAIN ls[c] : Claims(k, ls[c][i], x)
Links(m, rt, ls) ==
  /\ \A c \in Place : \A i \in DOMAIN ls[c] : Good(m, rt, ls[c][i])
  /\ \A c, d \in Place : \A i \in DOMAIN ls[c], j \in DOMAIN ls[d] : \A x \in Addr :
       Claims(m.kid, ls[c][i], x) /\ Claims(m.kid, ls[d][j], x) => c = d /\ i = j

(* What is open and in the tree no more has a link.  The root that a       *)
(* snapshot leaves has none while the super block is forced out.           *)
Open(m, rt, ls, forcing) ==
  \A x \in Addr : m.lab[x].st = "alloc" =>
    In(m.kid, m.sup.active, x) \/ Pending(m.kid, ls, x) \/ (forcing /\ x = rt[m.sup.ehi - 1])
Forced(m, rt, ls, forcing) ==
  forcing => /\ m.sup.elo < m.sup.ehi
             /\ m.lab[rt[m.sup.ehi - 1]].st = "alloc"
             /\ ~Pending(m.kid, ls, rt[m.sup.ehi - 1])

(* The types of a queued link's parts.                                     *)
LEMMA LinkIs ==
  ASSUME NEW ls \in Queues, NEW c \in Place, NEW i \in DOMAIN ls[c]
  PROVE  /\ ls[c] \in Seq(Link) /\ ls[c][i] \in Link /\ ls[c][i].addr \in Addr
         /\ ls[c][i].epoch \in 0..MaxEpoch /\ ls[c][i].epoch \in Nat
<1>1. ls[c] \in Seq(Link)
  BY DEF Queues
<1>2. ls[c][i] \in Link
  BY <1>1
<1> QED
  BY <1>1, <1>2, BoundAssumption DEF Link

(* The epoch a link closes its block with.                                 *)
LEMMA EndIs ==
  ASSUME NEW m \in Image, NEW l \in Link
  PROVE  End(m, l) \in Nat
  BY LabelIs, BoundAssumption DEF End, closeEpoch, Link

(* What has no tree but the one of D is not disturbed by the step.         *)
LEMMA LinksStep ==
  ASSUME NEW m \in Image, NEW m2 \in Image, NEW rt, Book(m, rt), NEW D, NEW N, Stepped(m, m2, D, N),
         NEW ls \in Queues, Links(m, rt, ls)
  PROVE  /\ Links(m2, rt, ls)
         /\ \A x \in Addr : Pending(m2.kid, ls, x) <=> Pending(m.kid, ls, x)
         /\ \A x \in Addr : Pending(m.kid, ls, x) => x \notin N /\ ~In(m.kid, m.sup.active, x)
<1> DEFINE r == m.sup.active
           hi == m.sup.ehi
<1>1. /\ Eras(m2) = Eras(m) /\ hi \in Eras(m) /\ rt[hi] = r /\ hi \in Nat /\ m2.sup = m.sup
      /\ \A e \in Eras(m) : rt[e] \in Addr /\ e \in Nat /\ e <= hi
  BY KeptIs, ImageIs, EpochIs DEF Eras, Book, Roots, Stepped
<1>2. ASSUME NEW c \in Place, NEW i \in DOMAIN ls[c], NEW x \in Addr, Claims(m.kid, ls[c][i], x)
      PROVE  x \notin N /\ ~In(m.kid, r, x)
  <2>1. Good(m, rt, ls[c][i])
    BY DEF Links
  <2>2. End(m, ls[c][i]) <= hi /\ m.lab[x].st = "alloc"
    BY <2>1, <1>2 DEF Good
  <2>3. ~In(m.kid, r, x)
    BY <2>1, <2>2, <1>1, <1>2 DEF Good
  <2>4. x \notin N
    BY <2>2 DEF Stepped, Allocatable, Closed
  <2> QED
    BY <2>3, <2>4
<1>3. ASSUME NEW c \in Place, NEW i \in DOMAIN ls[c]
      PROVE  /\ ls[c][i].addr \in Addr /\ ls[c][i].addr \notin N
             /\ m2.kid[ls[c][i].addr] = m.kid[ls[c][i].addr]
             /\ \A x : Claims(m2.kid, ls[c][i], x) <=> Claims(m.kid, ls[c][i], x)
  <2> DEFINE a == ls[c][i].addr
  <2>1. a \in Addr
    BY LinkIs
  <2>2. a \notin N /\ ~In(m.kid, r, a)
    BY <2>1, <1>2 DEF Claims
  <2>3. m2.kid[a] = m.kid[a]
    BY <2>1, <2>2 DEF Stepped
  <2> QED
    BY <2>1, <2>2, <2>3 DEF Claims, Has
<1>4. ASSUME NEW c \in Place, NEW i \in DOMAIN ls[c]
      PROVE  Good(m2, rt, ls[c][i])
  <2> DEFINE l == ls[c][i]
  <2>1. Good(m, rt, l)
    BY DEF Links
  <2>2. m2.lab[l.addr].type = m.lab[l.addr].type /\ m2.lab[l.addr].epoch = m.lab[l.addr].epoch
    BY <1>3 DEF Stepped
  <2>3. End(m2, l) = End(m, l)
    BY <2>2 DEF End, closeEpoch
  <2>4. ASSUME NEW x \in Addr, Claims(m2.kid, l, x)
        PROVE  /\ m2.lab[x].st = "alloc" /\ m2.lab[x].epoch <= End(m, l)
               /\ \A e \in Eras(m) : e >= End(m, l) => ~In(m2.kid, rt[e], x)
    <3>1. Claims(m.kid, l, x)
      BY <2>4, <1>3
    <3>2. x \notin N /\ ~In(m.kid, r, x)
      BY <3>1, <1>2
    <3>3. m2.lab[x].st = "alloc" /\ m2.lab[x].epoch <= End(m, l)
      BY <2>1, <3>1, <3>2 DEF Good, Stepped
    <3>4. ASSUME NEW e \in Eras(m), e >= End(m, l) PROVE ~In(m2.kid, rt[e], x)
      <4>1. ~In(m.kid, rt[e], x)
        BY <2>1, <3>1, <3>4 DEF Good
      <4>2. CASE e = hi
        BY <4>2, <3>2, <1>1 DEF Stepped
      <4>3. CASE e # hi
        BY <4>1, <4>3, OldTrees
      <4> QED
        BY <4>2, <4>3
    <3> QED
      BY <3>3, <3>4
  <2> QED
    BY <2>1, <2>2, <2>3, <2>4, <1>1 DEF Good
<1>5. ASSUME NEW c \in Place, NEW d \in Place, NEW i \in DOMAIN ls[c], NEW j \in DOMAIN ls[d], NEW x \in Addr,
             Claims(m2.kid, ls[c][i], x), Claims(m2.kid, ls[d][j], x)
      PROVE  c = d /\ i = j
  <2>1. Claims(m.kid, ls[c][i], x) /\ Claims(m.kid, ls[d][j], x)
    BY <1>3, <1>5
  <2> QED
    BY <2>1 DEF Links
<1>6. Links(m2, rt, ls)
  BY <1>4, <1>5 DEF Links
<1>7. \A x \in Addr : Pending(m2.kid, ls, x) <=> Pending(m.kid, ls, x)
  BY <1>3 DEF Pending
<1>8. \A x \in Addr : Pending(m.kid, ls, x) => x \notin N /\ ~In(m.kid, r, x)
  BY <1>2 DEF Pending
<1> QED
  BY <1>6, <1>7, <1>8

(* A link is added to the queue of place p.                                *)
LEMMA LinksAdd ==
  ASSUME NEW m \in Image, NEW rt, NEW ls \in Queues, Links(m, rt, ls), NEW l \in Link, Good(m, rt, l),
         \A x \in Addr : Claims(m.kid, l, x) => ~Pending(m.kid, ls, x), NEW p \in Place,
         NEW ls2 \in Queues, \A c \in Place : ls2[c] = IF c = p THEN Append(ls[p], l) ELSE ls[c]
  PROVE  /\ Links(m, rt, ls2)
         /\ \A x \in Addr : Pending(m.kid, ls2, x) <=> Pending(m.kid, ls, x) \/ Claims(m.kid, l, x)
<1>0. /\ DOMAIN ls[p] = 1..Len(ls[p]) /\ Len(ls[p]) \in Nat
      /\ DOMAIN ls2[p] = 1..Len(ls[p]) + 1
      /\ \A i \in 1..Len(ls[p]) : ls2[p][i] = ls[p][i]
      /\ ls2[p][Len(ls[p]) + 1] = l
  <2>1. ls[p] \in Seq(Link) /\ ls2[p] = Append(ls[p], l)
    BY DEF Queues
  <2> QED
    BY <2>1
<1>1. ASSUME NEW c \in Place, NEW i \in DOMAIN ls2[c]
      PROVE  \/ i \in DOMAIN ls[c] /\ ls2[c][i] = ls[c][i]
             \/ c = p /\ i = Len(ls[p]) + 1 /\ ls2[c][i] = l
  <2>1. CASE c # p
    BY <2>1
  <2>2. CASE c = p
    BY <2>2, <1>0
  <2> QED
    BY <2>1, <2>2
<1>2. ASSUME NEW c \in Place, NEW i \in DOMAIN ls[c]
      PROVE  i \in DOMAIN ls2[c] /\ ls2[c][i] = ls[c][i]
  <2>1. CASE c # p
    BY <2>1
  <2>2. CASE c = p
    BY <2>2, <1>0
  <2> QED
    BY <2>1, <2>2
<1>3. Len(ls[p]) + 1 \in DOMAIN ls2[p] /\ ls2[p][Len(ls[p]) + 1] = l
  BY <1>0
<1>4. ASSUME NEW c \in Place, NEW d \in Place, NEW i \in DOMAIN ls2[c], NEW j \in DOMAIN ls2[d], NEW x \in Addr,
             Claims(m.kid, ls2[c][i], x), Claims(m.kid, ls2[d][j], x)
      PROVE  c = d /\ i = j
  <2>1. CASE i \in DOMAIN ls[c] /\ ls2[c][i] = ls[c][i] /\ j \in DOMAIN ls[d] /\ ls2[d][j] = ls[d][j]
    BY <1>4, <2>1 DEF Links
  <2>2. CASE i \in DOMAIN ls[c] /\ ls2[c][i] = ls[c][i] /\ ls2[d][j] = l
    BY <1>4, <2>2 DEF Pending
  <2>3. CASE j \in DOMAIN ls[d] /\ ls2[d][j] = ls[d][j] /\ ls2[c][i] = l
    BY <1>4, <2>3 DEF Pending
  <2>4. CASE c = p /\ i = Len(ls[p]) + 1 /\ d = p /\ j = Len(ls[p]) + 1
    BY <2>4
  <2> QED
    BY <1>1, <2>1, <2>2, <2>3, <2>4
<1>5. ASSUME NEW c \in Place, NEW i \in DOMAIN ls2[c] PROVE Good(m, rt, ls2[c][i])
  BY <1>1 DEF Links
<1>6. ASSUME NEW x \in Addr PROVE Pending(m.kid, ls2, x) <=> Pending(m.kid, ls, x) \/ Claims(m.kid, l, x)
  BY <1>1, <1>2, <1>3 DEF Pending
<1> QED
  BY <1>4, <1>5, <1>6 DEF Links

(* The links of block b go to the unlink queue.                            *)
LEMMA LinksMove ==
  ASSUME NEW m \in Image, NEW rt, NEW ls \in Queues, Links(m, rt, ls), NEW b \in Blk,
         NEW ls2 \in Queues,
         \A c \in Place : ls2[c] = IF c = Nil THEN ls[Nil] \o ls[b] ELSE IF c = b THEN <<>> ELSE ls[c]
  PROVE  /\ Links(m, rt, ls2)
         /\ \A x \in Addr : Pending(m.kid, ls2, x) <=> Pending(m.kid, ls, x)
<1>0. /\ ls[Nil] \in Seq(Link) /\ ls[b] \in Seq(Link) /\ b # Nil /\ Nil \in Place /\ b \in Place
      /\ Len(ls[Nil]) \in Nat /\ Len(ls[b]) \in Nat
  BY NilAssumption DEF Queues, Place
<1> DEFINE n == Len(ls[Nil])
<1>1. /\ DOMAIN ls2[Nil] = 1..n + Len(ls[b]) /\ ls2[b] = <<>> /\ DOMAIN ls[b] = 1..Len(ls[b])
      /\ DOMAIN ls[Nil] = 1..n
      /\ \A i \in 1..n : ls2[Nil][i] = ls[Nil][i]
      /\ \A i \in n + 1..n + Len(ls[b]) : ls2[Nil][i] = ls[b][i - n]
  <2>1. ls2[Nil] = ls[Nil] \o ls[b] /\ ls2[b] = <<>>
    BY <1>0
  <2>2. /\ DOMAIN (ls[Nil] \o ls[b]) = 1..n + Len(ls[b])
        /\ \A i \in 1..n : (ls[Nil] \o ls[b])[i] = ls[Nil][i]
        /\ \A i \in n + 1..n + Len(ls[b]) : (ls[Nil] \o ls[b])[i] = ls[b][i - n]
    <3>1. \A u, v \in Seq(Link) :
            /\ DOMAIN (u \o v) = 1..Len(u) + Len(v)
            /\ \A i \in 1..Len(u) : (u \o v)[i] = u[i]
            /\ \A i \in Len(u) + 1..Len(u) + Len(v) : (u \o v)[i] = v[i - Len(u)]
      BY ConcatIs
    <3> QED
      BY <1>0, <3>1
  <2>3. DOMAIN ls[b] = 1..Len(ls[b]) /\ DOMAIN ls[Nil] = 1..n
    BY <1>0
  <2> QED
    BY <2>1, <2>2, <2>3
<1>2. n \in Nat /\ Len(ls[b]) \in Nat
  BY <1>0
<1> HIDE DEF n
<1>3. ASSUME NEW c \in Place, NEW i \in DOMAIN ls2[c]
      PROVE  \/ i \in DOMAIN ls[c] /\ ls2[c][i] = ls[c][i] /\ c # b
             \/ c = Nil /\ i - n \in DOMAIN ls[b] /\ ls2[c][i] = ls[b][i - n]
  <2>1. CASE c = Nil
    <3>1. i \in 1..n + Len(ls[b])
      BY <1>1, <2>1
    <3>2. CASE i <= n
      BY <3>1, <3>2, <2>1, <1>0, <1>1, <1>2
    <3>3. CASE i > n
      <4>1. i - n \in 1..Len(ls[b]) /\ i \in n + 1..n + Len(ls[b])
        BY <3>1, <3>3, <1>2
      <4> QED
        BY <4>1, <1>1, <2>1
    <3> QED
      BY <3>1, <3>2, <3>3, <1>2
  <2>2. CASE c # Nil /\ c = b
    BY <2>2, <1>1
  <2>3. CASE c # Nil /\ c # b
    BY <2>3
  <2> QED
    BY <2>1, <2>2, <2>3
<1>4. ASSUME NEW c \in Place, NEW d \in Place, NEW i \in DOMAIN ls2[c], NEW j \in DOMAIN ls2[d], NEW x \in Addr,
             Claims(m.kid, ls2[c][i], x), Claims(m.kid, ls2[d][j], x)
      PROVE  c = d /\ i = j
  <2>0. i \in Int /\ j \in Int
    <3>1. ls2[c] \in Seq(Link) /\ ls2[d] \in Seq(Link)
      BY DEF Queues
    <3> QED
      BY <3>1
  <2>1. CASE i \in DOMAIN ls[c] /\ ls2[c][i] = ls[c][i] /\ c # b /\ j \in DOMAIN ls[d] /\ ls2[d][j] = ls[d][j]
    BY <1>4, <2>1 DEF Links
  <2>2. CASE i \in DOMAIN ls[c] /\ ls2[c][i] = ls[c][i] /\ c # b /\ d = Nil /\ j - n \in DOMAIN ls[b] /\ ls2[d][j] = ls[b][j - n]
    BY <1>0, <1>4, <2>2 DEF Links
  <2>3. CASE j \in DOMAIN ls[d] /\ ls2[d][j] = ls[d][j] /\ d # b /\ c = Nil /\ i - n \in DOMAIN ls[b] /\ ls2[c][i] = ls[b][i - n]
    BY <1>0, <1>4, <2>3 DEF Links
  <2>4. CASE c = Nil /\ d = Nil /\ i - n \in DOMAIN ls[b] /\ ls2[c][i] = ls[b][i - n] /\ j - n \in DOMAIN ls[b] /\ ls2[d][j] = ls[b][j - n]
    <3>1. i - n = j - n
      BY <1>0, <1>4, <2>4 DEF Links
    <3> QED
      BY <3>1, <2>0, <2>4, <1>2
  <2> QED
    BY <1>3, <2>1, <2>2, <2>3, <2>4
<1>5. ASSUME NEW c \in Place, NEW i \in DOMAIN ls2[c] PROVE Good(m, rt, ls2[c][i])
  BY <1>0, <1>3 DEF Links
<1>6. ASSUME NEW x \in Addr, Pending(m.kid, ls2, x) PROVE Pending(m.kid, ls, x)
  BY <1>0, <1>3, <1>6 DEF Pending
<1>7. ASSUME NEW x \in Addr, Pending(m.kid, ls, x) PROVE Pending(m.kid, ls2, x)
  <2>1. PICK c \in Place : \E i \in DOMAIN ls[c] : Claims(m.kid, ls[c][i], x)
    BY <1>7 DEF Pending
  <2>2. PICK i \in DOMAIN ls[c] : Claims(m.kid, ls[c][i], x)
    BY <2>1
  <2>3. CASE c = b
    <3>1. i \in 1..Len(ls[b])
      BY <2>3, <1>1
    <3>2. n + i \in n + 1..n + Len(ls[b]) /\ (n + i) - n = i /\ n + i \in 1..n + Len(ls[b])
      BY <3>1, <1>2
    <3>3. n + i \in DOMAIN ls2[Nil] /\ ls2[Nil][n + i] = ls[b][i]
      BY <3>2, <1>1
    <3> QED
      BY <3>3, <2>2, <2>3, <1>0 DEF Pending
  <2>4. CASE c = Nil
    <3>1. i \in DOMAIN ls2[Nil] /\ ls2[Nil][i] = ls[Nil][i]
      BY <2>4, <1>1, <1>2
    <3> QED
      BY <3>1, <2>2, <2>4, <1>0 DEF Pending
  <2>5. CASE c # b /\ c # Nil
    BY <2>5, <2>2 DEF Pending
  <2> QED
    BY <2>3, <2>4, <2>5
<1> QED
  BY <1>4, <1>5, <1>6, <1>7 DEF Links

(* The first link of the unlink queue is taken.                            *)
LEMMA LinksTail ==
  ASSUME NEW m \in Image, NEW rt, NEW ls \in Queues, Links(m, rt, ls), ls[Nil] # <<>>,
         NEW ls2 \in Queues, \A c \in Place : ls2[c] = IF c = Nil THEN Tail(ls[Nil]) ELSE ls[c]
  PROVE  /\ Links(m, rt, ls2) /\ Head(ls[Nil]) \in Link /\ Good(m, rt, Head(ls[Nil]))
         /\ \A x \in Addr : Pending(m.kid, ls2, x) <=>
              Pending(m.kid, ls, x) /\ ~Claims(m.kid, Head(ls[Nil]), x)
<1>0. ls[Nil] \in Seq(Link) /\ Nil \in Place
  BY DEF Queues, Place
<1>1. /\ DOMAIN ls[Nil] = 1..Len(ls[Nil]) /\ Len(ls[Nil]) \in Nat /\ Len(ls[Nil]) >= 1
      /\ DOMAIN Tail(ls[Nil]) = 1..Len(ls[Nil])-1
      /\ \A i \in 1..Len(ls[Nil])-1 : Tail(ls[Nil])[i] = ls[Nil][i+1]
      /\ Head(ls[Nil]) = ls[Nil][1] /\ 1 \in DOMAIN ls[Nil]
  BY <1>0
<1>2. ASSUME NEW c \in Place, NEW i \in DOMAIN ls2[c]
      PROVE  LET i2 == IF c = Nil THEN i + 1 ELSE i
             IN  i2 \in DOMAIN ls[c] /\ ls2[c][i] = ls[c][i2] /\ ~(c = Nil /\ i2 = 1) /\ i \in Int
  <2>1. CASE c = Nil
    <3>1. ls2[c] = Tail(ls[Nil]) /\ i \in 1..Len(ls[Nil])-1
      BY <2>1, <1>1
    <3>2. i + 1 \in 1..Len(ls[Nil]) /\ i + 1 # 1 /\ i \in Int
      BY <3>1, <1>1
    <3>3. ls2[c][i] = ls[c][i+1] /\ i + 1 \in DOMAIN ls[c]
      BY <3>1, <3>2, <1>1, <2>1
    <3> QED
      BY <2>1, <3>2, <3>3
  <2>2. CASE c # Nil
    <3>1. ls[c] \in Seq(Link)
      BY DEF Queues
    <3> QED
      BY <2>2, <3>1
  <2> QED
    BY <2>1, <2>2
<1>3. ASSUME NEW c \in Place, NEW d \in Place, NEW i \in DOMAIN ls2[c], NEW j \in DOMAIN ls2[d], NEW x \in Addr,
             Claims(m.kid, ls2[c][i], x), Claims(m.kid, ls2[d][j], x)
      PROVE  c = d /\ i = j
  <2> DEFINE i2 == IF c = Nil THEN i + 1 ELSE i
             j2 == IF d = Nil THEN j + 1 ELSE j
  <2>1. i2 \in DOMAIN ls[c] /\ ls2[c][i] = ls[c][i2] /\ j2 \in DOMAIN ls[d] /\ ls2[d][j] = ls[d][j2]
        /\ i \in Int /\ j \in Int
    BY <1>2
  <2>2. c = d /\ i2 = j2
    <3> HIDE DEF i2, j2
    <3> QED
      BY <1>3, <2>1 DEF Links
  <2> QED
    BY <2>1, <2>2
<1>4. ASSUME NEW c \in Place, NEW i \in DOMAIN ls2[c] PROVE Good(m, rt, ls2[c][i])
  BY <1>2 DEF Links
<1>5. Head(ls[Nil]) \in Link /\ Good(m, rt, Head(ls[Nil]))
  BY <1>0, <1>1 DEF Links
<1>6. ASSUME NEW x \in Addr, Pending(m.kid, ls2, x)
      PROVE  Pending(m.kid, ls, x) /\ ~Claims(m.kid, Head(ls[Nil]), x)
  <2>1. PICK c \in Place : \E i \in DOMAIN ls2[c] : Claims(m.kid, ls2[c][i], x)
    BY <1>6 DEF Pending
  <2>2. PICK i \in DOMAIN ls2[c] : Claims(m.kid, ls2[c][i], x)
    BY <2>1
  <2>3. PICK i2 \in DOMAIN ls[c] : ls2[c][i] = ls[c][i2] /\ ~(c = Nil /\ i2 = 1)
    BY <1>2
  <2>4. Claims(m.kid, ls[c][i2], x)
    BY <2>2, <2>3
  <2> QED
    BY <2>3, <2>4, <1>0, <1>1 DEF Pending, Links
<1>7. ASSUME NEW x \in Addr, Pending(m.kid, ls, x), ~Claims(m.kid, Head(ls[Nil]), x)
      PROVE  Pending(m.kid, ls2, x)
  <2>1. PICK c \in Place : \E i \in DOMAIN ls[c] : Claims(m.kid, ls[c][i], x)
    BY <1>7 DEF Pending
  <2>2. PICK i \in DOMAIN ls[c] : Claims(m.kid, ls[c][i], x)
    BY <2>1
  <2>3. CASE c = Nil
    <3>1. i \in 1..Len(ls[Nil]) /\ i # 1
      BY <2>2, <2>3, <1>1, <1>7
    <3>2. i - 1 \in 1..Len(ls[Nil])-1 /\ (i - 1) + 1 = i
      BY <3>1, <1>1
    <3>3. i - 1 \in DOMAIN ls2[Nil] /\ ls2[Nil][i - 1] = ls[Nil][i]
      BY <3>2, <1>0, <1>1
    <3> QED
      BY <3>3, <2>2, <2>3, <1>0 DEF Pending
  <2>4. CASE c # Nil
    BY <2>4, <2>2 DEF Pending
  <2> QED
    BY <2>3, <2>4
<1> QED
  BY <1>3, <1>4, <1>5, <1>6, <1>7 DEF Links

-----------------------------------------------------------------------------
(* Lists of dependencies                                                   *)

(* The positions of the dependencies that blockWrite's walk leaves         *)
Stays(list) == {i \in DOMAIN list :
  /\ list[i].live
  /\ \A j \in 1..i-1 : list[j].live \/ list[j].index # list[i].index}

(* Vetted(list) is list at these positions, in their order.                *)
LEMMA VettedIs ==
  ASSUME NEW list \in Seq(Dep)
  PROVE  /\ Vetted(list) \in Seq(Dep)
         /\ \E e \in [DOMAIN Vetted(list) -> Stays(list)] :
              /\ \A k \in DOMAIN Vetted(list) : Vetted(list)[k] = list[e[k]]
              /\ \A k, l \in DOMAIN Vetted(list) : k < l => e[k] < e[l]
              /\ \A i \in Stays(list) : \E k \in DOMAIN Vetted(list) : e[k] = i
<1> DEFINE ids == [i \in DOMAIN list |-> i]
           left == Keep(ids, Stays(list))
<1>1. ids \in Seq(Nat) /\ DOMAIN ids = DOMAIN list /\ \A i \in DOMAIN list : ids[i] = i
  <2>1. DOMAIN list = 1..Len(list) /\ Len(list) \in Nat
    OBVIOUS
  <2> QED
    BY <2>1
<1>2. /\ left \in Seq(Nat) /\ Within(left, ids, DOMAIN ids)
      /\ \A x : On(left, x) <=> On(ids, x) /\ x \in Stays(list)
  <2> HIDE DEF ids
  <2> QED
    BY <1>1, KeepIsWithin
<1>3. Vetted(list) = [k \in DOMAIN left |-> list[left[k]]]
  BY DEF Vetted, Stays
<1> HIDE DEF left
<1>4. PICK e \in [DOMAIN left -> DOMAIN ids] :
        /\ \A k \in DOMAIN left : left[k] = ids[e[k]]
        /\ \A k, l \in DOMAIN left : k < l => e[k] < e[l]
  BY <1>2 DEF Within
<1> HIDE DEF ids
<1>5. \A k \in DOMAIN left : left[k] \in Stays(list) /\ left[k] = e[k] /\ list[left[k]] \in Dep
  <2> TAKE k \in DOMAIN left
  <2>1. On(left, left[k])
    BY DEF On
  <2>2. left[k] \in Stays(list) /\ left[k] = e[k]
    BY <1>1, <1>2, <1>4, <2>1
  <2>3. left[k] \in DOMAIN list
    BY <2>2 DEF Stays
  <2> QED
    BY <2>2, <2>3
<1>6. \A i \in Stays(list) : \E k \in DOMAIN left : left[k] = i
  BY <1>1, <1>2 DEF On, Stays
<1>7. DOMAIN left = 1..Len(left) /\ Len(left) \in Nat
  BY <1>2
<1>8. Vetted(list) \in Seq(Dep) /\ DOMAIN Vetted(list) = DOMAIN left
  BY <1>3, <1>5, <1>7
<1>9. left \in [DOMAIN Vetted(list) -> Stays(list)]
  BY <1>2, <1>5, <1>7, <1>8
<1>10. \A k \in DOMAIN Vetted(list) : Vetted(list)[k] = list[left[k]]
  BY <1>3, <1>8
<1> QED
  BY <1>4, <1>5, <1>6, <1>8, <1>9, <1>10

(* What is left of b's list names what the list names.                     *)
LEMMA VettedOld ==
  ASSUME NEW list \in Seq(Dep)
  PROVE  /\ \A k \in DOMAIN Vetted(list) : \E i \in DOMAIN list : Vetted(list)[k] = list[i]
         /\ list = <<>> => Vetted(list) = <<>>
<1>1. PICK e \in [DOMAIN Vetted(list) -> Stays(list)] :
              /\ \A k \in DOMAIN Vetted(list) : Vetted(list)[k] = list[e[k]]
  BY VettedIs
<1>2. \A k \in DOMAIN Vetted(list) : \E i \in DOMAIN list : Vetted(list)[k] = list[i]
  BY <1>1 DEF Stays
<1>3. ASSUME list = <<>> PROVE Vetted(list) = <<>>
  <2>1. Vetted(list) \in Seq(Dep)
    BY VettedIs
  <2>0. DOMAIN list = {}
    BY <1>3
  <2>2. DOMAIN Vetted(list) = {}
    BY <1>2, <2>0
  <2> HIDE DEF Vetted
  <2> QED
    BY <2>1, <2>2
<1> QED
  BY <1>2, <1>3

(* Unprior keeps the other dependencies in their order.                    *)
LEMMA UnpriorIs ==
  ASSUME NEW list \in Seq(Dep), NEW a
  PROVE  /\ Unprior(list, a) \in Seq(Dep)
         /\ Within(Unprior(list, a), list, DOMAIN list)
         /\ \A x : On(Unprior(list, a), x) <=> On(list, x) /\ x \in Dep /\ x.on # a
<1> DEFINE T == {x \in Dep : x.on # a}
<1>1. /\ Keep(list, T) \in Seq(Dep) /\ Within(Keep(list, T), list, DOMAIN list)
      /\ \A x : On(Keep(list, T), x) <=> On(list, x) /\ x \in T
  <2> HIDE DEF T
  <2> QED
    BY KeepIsWithin
<1> QED
  BY <1>1 DEF Unprior

(* What it keeps was on the list.                                          *)
LEMMA UnpriorAll ==
  ASSUME NEW list \in Seq(Dep), NEW a
  PROVE  /\ \A k \in DOMAIN Unprior(list, a) : \E i \in DOMAIN list : Unprior(list, a)[k] = list[i]
         /\ list = <<>> => Unprior(list, a) = <<>>
<1>1. /\ Unprior(list, a) \in Seq(Dep)
      /\ \A x : On(Unprior(list, a), x) <=> On(list, x) /\ x \in Dep /\ x.on # a
  BY UnpriorIs
<1> HIDE DEF Unprior
<1>2. \A k \in DOMAIN Unprior(list, a) : \E i \in DOMAIN list : Unprior(list, a)[k] = list[i]
  BY <1>1 DEF On
<1> QED
  BY <1>1, <1>2

-----------------------------------------------------------------------------
(* The images that the operations make                                     *)

(* The fields of an image in which one of them is assigned to              *)
LEMMA AllocIs ==
  ASSUME NEW m \in Image, NEW b \in Addr, NEW type \in {"root", "ptr", "data", "none"}, NEW e \in 0..MaxEpoch
  PROVE  /\ Alloc(m, b, type, e) \in Image
         /\ Alloc(m, b, type, e).sup = m.sup
         /\ \A a \in Addr : /\ Alloc(m, b, type, e).snap[a] = IF a = b THEN Nil ELSE m.snap[a]
                            /\ Alloc(m, b, type, e).kid[a] = IF a = b THEN NoKids ELSE m.kid[a]
                            /\ Alloc(m, b, type, e).lab[a] =
                                 IF a = b THEN [st |-> "alloc", copied |-> FALSE, type |-> type,
                                                epoch |-> e, close |-> 0]
                                 ELSE m.lab[a]
<1> DEFINE L == [st |-> "alloc", copied |-> FALSE, type |-> type, epoch |-> e, close |-> 0]
<1>1. L \in Label
  BY BoundAssumption DEF Label
<1>2. NoKids \in [Slot -> Ptr] /\ Nil \in SnapEntry
  BY DEF NoKids, Ptr, SnapEntry
<1> HIDE DEF L
<1>3. Alloc(m, b, type, e) = [m EXCEPT !.lab[b] = L, !.kid[b] = NoKids, !.snap[b] = Nil]
  BY DEF Alloc, L
<1>4. /\ [m EXCEPT !.lab[b] = L, !.kid[b] = NoKids, !.snap[b] = Nil] \in Image
      /\ [m EXCEPT !.lab[b] = L, !.kid[b] = NoKids, !.snap[b] = Nil].sup = m.sup
      /\ \A a \in Addr :
           /\ [m EXCEPT !.lab[b] = L, !.kid[b] = NoKids, !.snap[b] = Nil].snap[a] = IF a = b THEN Nil ELSE m.snap[a]
           /\ [m EXCEPT !.lab[b] = L, !.kid[b] = NoKids, !.snap[b] = Nil].kid[a] = IF a = b THEN NoKids ELSE m.kid[a]
           /\ [m EXCEPT !.lab[b] = L, !.kid[b] = NoKids, !.snap[b] = Nil].lab[a] = IF a = b THEN L ELSE m.lab[a]
  BY <1>1, <1>2 DEF Image
<1> QED
  BY <1>3, <1>4 DEF L

(* blockCopy, field by field.                                              *)
LEMMA CopyIs ==
  ASSUME NEW m \in Image, NEW b \in Addr, NEW bb \in Addr, b # bb, NEW e \in 0..MaxEpoch
  PROVE  /\ blockCopy(m, b, bb, e) \in Image
         /\ blockCopy(m, b, bb, e).sup = m.sup
         /\ \A a \in Addr : /\ blockCopy(m, b, bb, e).snap[a] = IF a = bb THEN m.snap[b] ELSE m.snap[a]
                            /\ blockCopy(m, b, bb, e).kid[a] = IF a = bb THEN m.kid[b] ELSE m.kid[a]
                            /\ blockCopy(m, b, bb, e).lab[a] =
                                 IF a = bb THEN [st |-> "alloc", copied |-> FALSE, type |-> m.lab[b].type,
                                                 epoch |-> e, close |-> 0]
                                 ELSE IF a = b THEN [m.lab[b] EXCEPT !.copied = TRUE] ELSE m.lab[a]
<1> DEFINE new == Alloc(m, bb, m.lab[b].type, e)
<1>1. /\ m.lab[b].type \in {"root", "ptr", "data", "none"} /\ m.kid[b] \in [Slot -> Ptr] /\ m.snap[b] \in SnapEntry
      /\ m.lab[b] \in Label
  BY LabelIs, ImageIs DEF Kd, Label
<1>2. /\ new \in Image /\ new.sup = m.sup
      /\ \A a \in Addr : /\ new.snap[a] = IF a = bb THEN Nil ELSE m.snap[a]
                         /\ new.kid[a] = IF a = bb THEN NoKids ELSE m.kid[a]
                         /\ new.lab[a] = IF a = bb THEN [st |-> "alloc", copied |-> FALSE, type |-> m.lab[b].type,
                                                        epoch |-> e, close |-> 0]
                                         ELSE m.lab[a]
  <2>1. \A ty \in {"root", "ptr", "data", "none"} :
          /\ Alloc(m, bb, ty, e) \in Image /\ Alloc(m, bb, ty, e).sup = m.sup
          /\ \A a \in Addr : /\ Alloc(m, bb, ty, e).snap[a] = IF a = bb THEN Nil ELSE m.snap[a]
                             /\ Alloc(m, bb, ty, e).kid[a] = IF a = bb THEN NoKids ELSE m.kid[a]
                             /\ Alloc(m, bb, ty, e).lab[a] =
                                  IF a = bb THEN [st |-> "alloc", copied |-> FALSE, type |-> ty,
                                                  epoch |-> e, close |-> 0]
                                  ELSE m.lab[a]
    BY AllocIs
  <2> QED
    BY <1>1, <2>1
<1>3. [m.lab[b] EXCEPT !.copied = TRUE] \in Label
  BY <1>1 DEF Label
<1> HIDE DEF new
<1>4. blockCopy(m, b, bb, e) = [new EXCEPT !.kid[bb] = m.kid[b], !.snap[bb] = m.snap[b], !.lab[b].copied = TRUE]
  BY DEF blockCopy, new
<1>5. [new EXCEPT !.kid[bb] = m.kid[b], !.snap[bb] = m.snap[b], !.lab[b].copied = TRUE]
        = [new EXCEPT !.kid[bb] = m.kid[b], !.snap[bb] = m.snap[b], !.lab[b] = [m.lab[b] EXCEPT !.copied = TRUE]]
  <2>1. new.lab[b] = m.lab[b]
    BY <1>2
  <2> QED
    BY <2>1
<1>6. /\ [new EXCEPT !.kid[bb] = m.kid[b], !.snap[bb] = m.snap[b], !.lab[b] = [m.lab[b] EXCEPT !.copied = TRUE]] \in Image
      /\ [new EXCEPT !.kid[bb] = m.kid[b], !.snap[bb] = m.snap[b], !.lab[b] = [m.lab[b] EXCEPT !.copied = TRUE]].sup = m.sup
      /\ \A a \in Addr :
           /\ [new EXCEPT !.kid[bb] = m.kid[b], !.snap[bb] = m.snap[b], !.lab[b] = [m.lab[b] EXCEPT !.copied = TRUE]].snap[a]
                = IF a = bb THEN m.snap[b] ELSE new.snap[a]
           /\ [new EXCEPT !.kid[bb] = m.kid[b], !.snap[bb] = m.snap[b], !.lab[b] = [m.lab[b] EXCEPT !.copied = TRUE]].kid[a]
                = IF a = bb THEN m.kid[b] ELSE new.kid[a]
           /\ [new EXCEPT !.kid[bb] = m.kid[b], !.snap[bb] = m.snap[b], !.lab[b] = [m.lab[b] EXCEPT !.copied = TRUE]].lab[a]
                = IF a = b THEN [m.lab[b] EXCEPT !.copied = TRUE] ELSE new.lab[a]
  <2> DEFINE L == [m.lab[b] EXCEPT !.copied = TRUE]
  <2>1. L \in Label
    BY <1>3
  <2> HIDE DEF L
  <2>2. /\ [new EXCEPT !.kid[bb] = m.kid[b], !.snap[bb] = m.snap[b], !.lab[b] = L] \in Image
        /\ [new EXCEPT !.kid[bb] = m.kid[b], !.snap[bb] = m.snap[b], !.lab[b] = L].sup = m.sup
        /\ \A a \in Addr :
           /\ [new EXCEPT !.kid[bb] = m.kid[b], !.snap[bb] = m.snap[b], !.lab[b] = L].snap[a]
                = IF a = bb THEN m.snap[b] ELSE new.snap[a]
           /\ [new EXCEPT !.kid[bb] = m.kid[b], !.snap[bb] = m.snap[b], !.lab[b] = L].kid[a]
                = IF a = bb THEN m.kid[b] ELSE new.kid[a]
           /\ [new EXCEPT !.kid[bb] = m.kid[b], !.snap[bb] = m.snap[b], !.lab[b] = L].lab[a]
                = IF a = b THEN L ELSE new.lab[a]
    BY <1>1, <1>2, <2>1 DEF Image
  <2> QED
    BY <2>2 DEF L
<1>7. /\ blockCopy(m, b, bb, e) \in Image /\ blockCopy(m, b, bb, e).sup = m.sup
      /\ \A a \in Addr : /\ blockCopy(m, b, bb, e).snap[a] = IF a = bb THEN m.snap[b] ELSE new.snap[a]
                         /\ blockCopy(m, b, bb, e).kid[a] = IF a = bb THEN m.kid[b] ELSE new.kid[a]
                         /\ blockCopy(m, b, bb, e).lab[a] = IF a = b THEN [m.lab[b] EXCEPT !.copied = TRUE] ELSE new.lab[a]
  BY <1>4, <1>5, <1>6, Zenon
<1> QED
  BY <1>2, <1>7

KidSet(m, m2, p, s, v) ==
  /\ m2 \in Image
  /\ m2.sup = m.sup /\ m2.snap = m.snap /\ m2.lab = m.lab
  /\ \A a \in Addr, t \in Slot : m2.kid[a][t] = IF a = p /\ t = s THEN v ELSE m.kid[a][t]
  /\ \A a \in Addr : a # p => m2.kid[a] = m.kid[a]

(* One pointer of a block changes.                                         *)
LEMMA SetKidIs ==
  ASSUME NEW m \in Image, NEW p \in Addr, NEW s \in Slot, NEW v \in Ptr
  PROVE  KidSet(m, [m EXCEPT !.kid[p][s] = v], p, s, v)
  BY DEF Image, KidSet

(* The image in which the blocks of gone are closed with epoch e            *)
ClosedAs(m, gone, e) ==
  [m EXCEPT !.lab = [a \in Addr |-> IF a \in gone
     THEN [m.lab[a] EXCEPT !.st = "closed", !.close = e] ELSE m.lab[a]]]

(* doRemoveLink, label by label.                                           *)
LEMMA CloseIs ==
  ASSUME NEW m \in Image, NEW gone, NEW e \in 0..MaxEpoch
  PROVE  /\ ClosedAs(m, gone, e) \in Image
         /\ ClosedAs(m, gone, e).sup = m.sup /\ ClosedAs(m, gone, e).snap = m.snap
         /\ ClosedAs(m, gone, e).kid = m.kid
         /\ \A a \in Addr :
              /\ ClosedAs(m, gone, e).lab[a].type = m.lab[a].type
              /\ ClosedAs(m, gone, e).lab[a].epoch = m.lab[a].epoch
              /\ ClosedAs(m, gone, e).lab[a].copied = m.lab[a].copied
              /\ a \in gone => ClosedAs(m, gone, e).lab[a].st = "closed" /\ ClosedAs(m, gone, e).lab[a].close = e
              /\ a \notin gone => ClosedAs(m, gone, e).lab[a] = m.lab[a]
<1> DEFINE m2 == ClosedAs(m, gone, e)
           L == [a \in Addr |-> IF a \in gone THEN [m.lab[a] EXCEPT !.st = "closed", !.close = e] ELSE m.lab[a]]
<1>1. L \in [Addr -> Label]
  <2>1. ASSUME NEW a \in Addr PROVE m.lab[a] \in Label /\ [m.lab[a] EXCEPT !.st = "closed", !.close = e] \in Label
    BY LabelIs DEF Label
  <2> QED
    BY <2>1, Zenon
<1>2. \A a \in Addr : /\ L[a].type = m.lab[a].type /\ L[a].epoch = m.lab[a].epoch
                      /\ L[a].copied = m.lab[a].copied
                      /\ a \in gone => L[a].st = "closed" /\ L[a].close = e
                      /\ a \notin gone => L[a] = m.lab[a]
  <2>1. ASSUME NEW a \in Addr PROVE m.lab[a] \in Label
    BY LabelIs
  <2> QED
    BY <2>1 DEF Label
<1> HIDE DEF L
<1>3. m2 = [m EXCEPT !.lab = L]
  BY DEF L, ClosedAs
<1> HIDE DEF m2
<1>4. [m EXCEPT !.lab = L] \in Image /\ [m EXCEPT !.lab = L].sup = m.sup /\ [m EXCEPT !.lab = L].snap = m.snap
      /\ [m EXCEPT !.lab = L].kid = m.kid /\ [m EXCEPT !.lab = L].lab = L
  BY <1>1 DEF Image
<1>5. m2 \in Image /\ m2.sup = m.sup /\ m2.snap = m.snap /\ m2.kid = m.kid /\ m2.lab = L
  BY <1>3, <1>4
<1> QED
  BY <1>2, <1>5 DEF m2

-----------------------------------------------------------------------------
(* blockWalk                                                               *)

(* The current tree is one of those kept.                                  *)
LEMMA NowIs ==
  ASSUME NEW m \in Image, NEW rt, Book(m, rt)
  PROVE  /\ m.sup.active \in Addr /\ m.sup.ehi \in Nat /\ m.sup.ehi \in 0..MaxEpoch
         /\ m.sup.ehi \in Eras(m) /\ rt[m.sup.ehi] = m.sup.active
         /\ Sound(m.kid, m.sup.active) /\ Typed(m, m.sup.active) /\ Alive(m, m.sup.active, m.sup.ehi)
         /\ m.lab[m.sup.active].type = "root" /\ m.lab[m.sup.active].epoch = m.sup.ehi
         /\ Leaves(m)
<1>1. Roots(m, rt) /\ Trees(m, rt) /\ Leaves(m)
  BY DEF Book
<1>2. m.sup.ehi \in Eras(m) /\ rt[m.sup.ehi] = m.sup.active
  BY <1>1, KeptIs DEF Roots
<1>3. m.sup.active \in Addr /\ m.sup.ehi \in Nat /\ m.sup.ehi \in 0..MaxEpoch
  BY ImageIs, EpochIs, BoundAssumption DEF Epoch
<1> QED
  BY <1>1, <1>2, <1>3 DEF Roots, Trees

(* A block in the current tree: its label                                  *)
LEMMA InNow ==
  ASSUME NEW m \in Image, NEW rt, Book(m, rt), NEW x \in Addr, In(m.kid, m.sup.active, x)
  PROVE  /\ m.lab[x].st = "alloc" /\ m.lab[x].epoch <= m.sup.ehi /\ m.lab[x].epoch >= 1
         /\ ~Allocatable(m, x)
<1>1. /\ m.lab[x].st # "free" /\ m.lab[x].epoch \in 1..m.sup.ehi
      /\ m.lab[x].st = "closed" => m.lab[x].close > m.sup.ehi
  BY NowIs DEF Alive
<1>2. m.lab[x].st # "bad" /\ (m.lab[x].st = "closed" => m.lab[x].close <= m.sup.ehi)
  BY DEF Book, Past
<1>3. m.lab[x].st \in {"free", "alloc", "closed", "bad"} /\ m.lab[x].close \in Nat /\ m.sup.ehi \in Nat
  BY LabelIs, NowIs
<1>4. m.lab[x].st = "alloc"
  BY <1>1, <1>2, <1>3
<1> QED
  BY <1>1, <1>3, <1>4 DEF Allocatable, Closed

(* What holds pointers is no data block.                                   *)
LEMMA HolderType ==
  ASSUME NEW m \in Image, NEW rt, Book(m, rt), NEW a \in Addr, Holds(m.kid, m.sup.active, a)
  PROVE  /\ m.lab[a].type = IF a = m.sup.active THEN "root" ELSE "ptr"
         /\ In(m.kid, m.sup.active, a)
         /\ \A s \in Slot : m.kid[a][s] # Nil =>
              In(m.kid, m.sup.active, m.kid[a][s].to) /\ m.kid[a][s].to \in Addr
<1> DEFINE r == m.sup.active
<1>1. r \in Addr /\ Typed(m, r) /\ m.kid \in Kd /\ Holds(m.kid, r, r)
  BY NowIs, ImageIs DEF Holds
<1>2. In(m.kid, r, a)
  BY <1>1, HoldsIn
<1>3. ASSUME a = r PROVE m.lab[a].type = "root"
  BY <1>3, NowIs
<1>4. ASSUME a # r PROVE m.lab[a].type = "ptr"
  <2>1. PICK s \in Slot : m.kid[r][s] # Nil /\ m.kid[r][s].type = "ptr" /\ m.kid[r][s].to = a
    BY <1>4, Zenon DEF Holds
  <2> QED
    BY <1>1, <2>1 DEF Typed
<1>5. ASSUME NEW s \in Slot, m.kid[a][s] # Nil
      PROVE  In(m.kid, m.sup.active, m.kid[a][s].to) /\ m.kid[a][s].to \in Addr
  BY <1>1, <1>5, PtrIs DEF In, Has
<1>6. m.lab[a].type = IF a = r THEN "root" ELSE "ptr"
  BY <1>3, <1>4
<1> QED
  BY <1>2, <1>5, <1>6

(* No data block holds pointers of the current tree.                       *)
LEMMA NotData ==
  ASSUME NEW m \in Image, NEW rt, Book(m, rt), NEW a \in Addr, Holds(m.kid, m.sup.active, a)
  PROVE  m.lab[a].type # "data"
  BY HolderType

-----------------------------------------------------------------------------
(* What each operation makes of the image                                  *)
NewData(m, p, s, bb) ==
  [Alloc(m, bb, "data", m.sup.ehi) EXCEPT !.kid[p][s] = [to |-> bb, type |-> "data"]]
NewCopy(m, p, s, bb) ==
  [blockCopy(m, m.kid[p][s].to, bb, m.sup.ehi) EXCEPT
     !.kid[p][s] = [to |-> bb, type |-> m.kid[p][s].type]]
Zeroed(m, p, s) == [m EXCEPT !.kid[p][s] = Nil]
Grown(m, s, bb) ==
  [Alloc(m, bb, "ptr", m.sup.ehi) EXCEPT
     !.kid[m.sup.active][s] = [to |-> bb, type |-> "ptr"], !.kid[bb][0] = m.kid[m.sup.active][s]]
Shrunk(m, s) ==
  [m EXCEPT !.kid[m.sup.active][s] = m.kid[m.kid[m.sup.active][s].to][0],
            !.kid[m.kid[m.sup.active][s].to][0] = Nil]

(* blockWalk at a nil pointer: one new data block.                         *)
LEMMA NewDataIs ==
  ASSUME NEW m \in Image, NEW rt, Book(m, rt), NEW p \in Addr, NEW s \in Slot,
         Holds(m.kid, m.sup.active, p), m.lab[p].epoch = m.sup.ehi, m.kid[p][s] = Nil,
         NEW bb \in Addr, Allocatable(m, bb)
  PROVE  /\ NewData(m, p, s, bb) \in Image
         /\ Stepped(m, NewData(m, p, s, bb), {}, {bb})
         /\ \A a \in Addr : NewData(m, p, s, bb).lab[a] =
              IF a = bb THEN [st |-> "alloc", copied |-> FALSE, type |-> "data", epoch |-> m.sup.ehi, close |-> 0]
              ELSE m.lab[a]
         /\ \A a \in Addr : NewData(m, p, s, bb).snap[a] = IF a = bb THEN Nil ELSE m.snap[a]
         /\ \A a \in Addr, t \in Slot : NewData(m, p, s, bb).kid[a][t] =
              IF a = bb THEN Nil ELSE IF a = p /\ t = s THEN [to |-> bb, type |-> "data"] ELSE m.kid[a][t]
<1> DEFINE r == m.sup.active
           m1 == Alloc(m, bb, "data", m.sup.ehi)
           m2 == NewData(m, p, s, bb)
           v == [to |-> bb, type |-> "data"]
<1>0. ~In(m.kid, r, bb) /\ bb # r /\ p # bb
  <2>1. ~In(m.kid, r, bb)
    BY InNow
  <2> QED
    BY <2>1, HolderType DEF In
<1>1. /\ m1 \in Image /\ m1.sup = m.sup
      /\ \A a \in Addr : /\ m1.snap[a] = IF a = bb THEN Nil ELSE m.snap[a]
                         /\ m1.kid[a] = IF a = bb THEN NoKids ELSE m.kid[a]
                         /\ m1.lab[a] = IF a = bb THEN [st |-> "alloc", copied |-> FALSE, type |-> "data",
                                                        epoch |-> m.sup.ehi, close |-> 0]
                                        ELSE m.lab[a]
  <2>1. m.sup.ehi \in 0..MaxEpoch
    BY NowIs
  <2> QED
    BY <2>1, AllocIs
<1>2. v \in Ptr /\ v # Nil /\ v.to = bb /\ v.type = "data"
  BY NewPtr
<1> HIDE DEF m1, v
<1>3. m2 = [m1 EXCEPT !.kid[p][s] = v]
  BY DEF m1, v, NewData
<1> HIDE DEF m2
<1>4. /\ m2 \in Image /\ m2.sup = m.sup
      /\ \A a \in Addr : m2.snap[a] = m1.snap[a] /\ m2.lab[a] = m1.lab[a]
      /\ \A a \in Addr, t \in Slot : m2.kid[a][t] = IF a = p /\ t = s THEN v ELSE m1.kid[a][t]
      /\ \A a \in Addr : a # p => m2.kid[a] = m1.kid[a]
  BY <1>1, <1>2, <1>3, SetKidIs DEF KidSet
<1>5. \A a \in Addr, t \in Slot : m2.kid[a][t] = IF a = bb THEN Nil ELSE IF a = p /\ t = s THEN v ELSE m.kid[a][t]
  BY <1>0, <1>1, <1>4 DEF NoKids
<1>6. /\ \A a \in Addr : Holds(m2.kid, r, a) <=> Holds(m.kid, r, a)
      /\ \A x \in Addr : In(m2.kid, r, x) <=> x = bb \/ In(m.kid, r, x)
      /\ Sound(m2.kid, r)
  <2>1. r \in Addr /\ Sound(m.kid, r) /\ m.kid \in Kd /\ m2.kid \in Kd
    BY <1>4, NowIs, ImageIs
  <2>2. NewAt(m.kid, m2.kid, p, s, bb)
    BY <1>5 DEF v, NewAt
  <2> QED
    BY <2>1, <2>2, <1>0, TreeNew
<1>7. ASSUME NEW a \in Addr, NEW t \in Slot, Holds(m2.kid, r, a), m2.kid[a][t] # Nil
      PROVE  /\ m2.lab[m2.kid[a][t].to].type = m2.kid[a][t].type
             /\ m2.lab[m2.kid[a][t].to].epoch <= m2.lab[a].epoch
  <2>1. Holds(m.kid, r, a) /\ a # bb /\ m2.lab[a] = m.lab[a]
    BY <1>0, <1>1, <1>4, <1>6, <1>7, HolderType
  <2>2. CASE a = p /\ t = s
    <3>1. m2.kid[a][t] = v
      BY <2>1, <2>2, <1>5
    <3>2. m2.lab[bb].type = "data" /\ m2.lab[bb].epoch = m.sup.ehi
      BY <1>1, <1>4
    <3> QED
      BY <2>1, <2>2, <3>1, <3>2, <1>2, NowIs
  <2>3. CASE ~(a = p /\ t = s)
    <3>1. m2.kid[a][t] = m.kid[a][t]
      BY <2>1, <2>3, <1>5
    <3>2. m.kid[a][t].to # bb /\ m.kid[a][t].to \in Addr
      BY <3>1, <2>1, <1>0, <1>7, HolderType
    <3>3. m2.lab[m.kid[a][t].to] = m.lab[m.kid[a][t].to]
      BY <3>2, <1>1, <1>4
    <3>4. m.lab[m.kid[a][t].to].type = m.kid[a][t].type /\ m.lab[m.kid[a][t].to].epoch <= m.lab[a].epoch
      BY <3>1, <2>1, <1>7, NowIs DEF Typed
    <3> QED
      BY <3>1, <3>3, <3>4, <2>1
  <2> QED
    BY <2>2, <2>3
<1>8. Leaves(m2)
  <2> SUFFICES ASSUME NEW a \in Addr, m2.lab[a].type = "data", NEW t \in Slot PROVE m2.kid[a][t] = Nil
    BY DEF Leaves
  <2>1. CASE a = bb
    BY <2>1, <1>5
  <2>2. CASE a # bb
    <3>1. m.lab[a].type = "data"
      BY <2>2, <1>1, <1>4
    <3>2. a # p
      BY <3>1, NotData
    <3>3. m.kid[a][t] = Nil
      BY <3>1, NowIs DEF Leaves
    <3> QED
      BY <2>2, <3>2, <3>3, <1>5
  <2> QED
    BY <2>1, <2>2
<1>9. \A a \in Addr : m2.lab[a] =
              IF a = bb THEN [st |-> "alloc", copied |-> FALSE, type |-> "data", epoch |-> m.sup.ehi, close |-> 0]
              ELSE m.lab[a]
  BY <1>1, <1>4, Zenon
<1>10. Stepped(m, m2, {}, {bb})
  <2>1. ASSUME NEW a \in Addr \ {bb}
        PROVE  /\ m2.snap[a] = m.snap[a] /\ m2.lab[a] = m.lab[a]
               /\ m2.kid[a] # m.kid[a] => In(m.kid, r, a) /\ m.lab[a].epoch = m.sup.ehi
    <3>1. a # p => m2.kid[a] = m.kid[a]
      BY <1>1, <1>4
    <3> QED
      BY <3>1, <1>1, <1>4, HolderType
  <2>2. Allocatable(m, bb) /\ m2.lab[bb].st = "alloc" /\ m2.lab[bb].epoch = m.sup.ehi
    BY <1>9
  <2>3. Typed(m2, r)
    BY <1>7 DEF Typed
  <2> QED
    BY <2>1, <2>2, <2>3, <1>4, <1>6, <1>8 DEF Stepped
<1>11. \A a \in Addr : m2.snap[a] = IF a = bb THEN Nil ELSE m.snap[a]
  BY <1>1, <1>4
<1> QED
  BY <1>4, <1>5, <1>9, <1>10, <1>11 DEF m2, v

(* Entry s of p, which is current, points to o of an earlier epoch.        *)
CanCopy(m, p, s, o) ==
  /\ Holds(m.kid, m.sup.active, p) /\ m.lab[p].epoch = m.sup.ehi
  /\ m.kid[p][s] # Nil /\ m.kid[p][s].to = o /\ m.lab[o].epoch # m.sup.ehi

(* blockWalk at a block of a past epoch: the copy comes, the old block     *)
(* goes.                                                                   *)
LEMMA NewCopyIs ==
  ASSUME NEW m \in Image, NEW rt, Book(m, rt), NEW p \in Addr, NEW s \in Slot,
         NEW o, CanCopy(m, p, s, o), NEW bb \in Addr, Allocatable(m, bb)
  PROVE  /\ NewCopy(m, p, s, bb) \in Image
         /\ Stepped(m, NewCopy(m, p, s, bb), {o}, {bb})
         /\ \A a \in Addr : NewCopy(m, p, s, bb).lab[a] =
              IF a = bb THEN [st |-> "alloc", copied |-> FALSE, type |-> m.lab[o].type,
                              epoch |-> m.sup.ehi, close |-> 0]
              ELSE IF a = o THEN [m.lab[a] EXCEPT !.copied = TRUE] ELSE m.lab[a]
         /\ \A a \in Addr : NewCopy(m, p, s, bb).snap[a] = IF a = bb THEN m.snap[o] ELSE m.snap[a]
         /\ \A a \in Addr, t \in Slot : NewCopy(m, p, s, bb).kid[a][t] =
              IF a = bb THEN m.kid[o][t]
              ELSE IF a = p /\ t = s THEN [to |-> bb, type |-> m.kid[p][s].type] ELSE m.kid[a][t]
<1> DEFINE r == m.sup.active
           m1 == blockCopy(m, o, bb, m.sup.ehi)
           m2 == NewCopy(m, p, s, bb)
           v == [to |-> bb, type |-> m.kid[p][s].type]
<1> HIDE DEF m1, m2, v
<1>a. /\ Holds(m.kid, r, p) /\ m.lab[p].epoch = m.sup.ehi
      /\ m.kid[p][s] # Nil /\ m.kid[p][s].to = o /\ m.lab[o].epoch # m.sup.ehi
  BY DEF CanCopy
<1>0. ~In(m.kid, r, bb) /\ bb # r /\ p # bb /\ o \in Addr /\ In(m.kid, r, o) /\ o # bb
  <2>1. ~In(m.kid, r, bb)
    BY InNow
  <2>2. o \in Addr /\ In(m.kid, r, o)
    BY <1>a, HolderType
  <2>3. In(m.kid, r, p)
    BY <1>a, ImageIs, NowIs, HoldsIn
  <2> QED
    BY <2>1, <2>2, <2>3 DEF In
<1>0a. m.lab[o] \in Label
  BY <1>0, LabelIs
<1> DEFINE Lc == [m.lab[o] EXCEPT !.copied = TRUE]
           Lb == [st |-> "alloc", copied |-> FALSE, type |-> m.lab[o].type,
                  epoch |-> m.sup.ehi, close |-> 0]
<1>0b. [m.lab[o] EXCEPT !.copied = TRUE].type = m.lab[o].type /\ [m.lab[o] EXCEPT !.copied = TRUE].epoch = m.lab[o].epoch
       /\ [m.lab[o] EXCEPT !.copied = TRUE].st = m.lab[o].st /\ [m.lab[o] EXCEPT !.copied = TRUE].close = m.lab[o].close
       /\ [m.lab[o] EXCEPT !.copied = TRUE].copied
  BY <1>0a DEF Label
<1>0c. /\ Lc.type = m.lab[o].type /\ Lc.epoch = m.lab[o].epoch /\ Lc.st = m.lab[o].st
       /\ Lc.close = m.lab[o].close /\ Lc.copied
       /\ Lb.type = m.lab[o].type /\ Lb.epoch = m.sup.ehi /\ Lb.st = "alloc"
  BY <1>0b
<1>1. /\ m1 \in Image /\ m1.sup = m.sup
      /\ \A a \in Addr : /\ m1.snap[a] = IF a = bb THEN m.snap[o] ELSE m.snap[a]
                         /\ m1.kid[a] = IF a = bb THEN m.kid[o] ELSE m.kid[a]
                         /\ m1.lab[a] = IF a = bb THEN Lb ELSE IF a = o THEN Lc ELSE m.lab[a]
  <2>1. m.sup.ehi \in 0..MaxEpoch
    BY NowIs
  <2> QED
    BY <2>1, <1>0, CopyIs DEF m1, Lb, Lc
<1>2. v \in Ptr /\ v # Nil /\ v.to = bb /\ v.type = m.kid[p][s].type
  <2>1. m.kid[p][s].type \in {"data", "ptr"}
    BY <1>a, PtrIs, ImageIs
  <2> QED
    BY <2>1, NewPtr DEF v
<1> HIDE DEF Lb, Lc
<1>3. m2 = [m1 EXCEPT !.kid[p][s] = v]
  BY <1>a DEF m1, m2, v, NewCopy
<1>4. /\ m2 \in Image /\ m2.sup = m.sup
      /\ \A a \in Addr : m2.snap[a] = m1.snap[a] /\ m2.lab[a] = m1.lab[a]
      /\ \A a \in Addr, t \in Slot : m2.kid[a][t] = IF a = p /\ t = s THEN v ELSE m1.kid[a][t]
      /\ \A a \in Addr : a # p => m2.kid[a] = m1.kid[a]
  BY <1>1, <1>2, <1>3, SetKidIs DEF KidSet
<1>5. \A a \in Addr, t \in Slot : m2.kid[a][t] = IF a = bb THEN m.kid[o][t] ELSE IF a = p /\ t = s THEN v ELSE m.kid[a][t]
  BY <1>0, <1>1, <1>4
<1>5a. m.lab[o].type = m.kid[p][s].type /\ m.lab[o].epoch < m.sup.ehi /\ m.sup.ehi \in Nat
  <2>1. m.lab[o].type = m.kid[p][s].type
    BY <1>a, NowIs DEF Typed
  <2>2. m.lab[o].epoch <= m.sup.ehi /\ m.lab[o].epoch \in Nat /\ m.sup.ehi \in Nat
    BY <1>0, InNow, LabelIs, NowIs
  <2> QED
    BY <2>1, <2>2, <1>a
<1>5b. ~Holds(m.kid, r, o) => \A t \in Slot : m.kid[o][t] = Nil
  <2> SUFFICES ASSUME ~Holds(m.kid, r, o) PROVE m.lab[o].type = "data"
    BY <1>0, NowIs DEF Leaves
  <2>1. ~(p = r /\ m.kid[p][s].type = "ptr")
    BY <1>a, Zenon DEF Holds
  <2>2. p # r => m.kid[p][s].type = "data"
    BY <1>a, NowIs DEF Sound
  <2>3. m.kid[p][s].type \in {"data", "ptr"}
    BY <1>a, PtrIs, ImageIs
  <2> QED
    BY <2>1, <2>2, <2>3, <1>5a
<1>6. /\ \A a \in Addr : Holds(m2.kid, r, a) <=> (Holds(m.kid, r, a) /\ a # o) \/ (a = bb /\ Holds(m.kid, r, o))
      /\ \A x \in Addr : In(m2.kid, r, x) <=> x = bb \/ (In(m.kid, r, x) /\ x # o)
      /\ Sound(m2.kid, r)
  <2>1. r \in Addr /\ Sound(m.kid, r) /\ m.kid \in Kd /\ m2.kid \in Kd
    BY <1>4, NowIs, ImageIs
  <2>2. CopiedTo(m.kid, m2.kid, p, s, bb)
    BY <1>5, <1>a DEF v, CopiedTo
  <2> QED
    <3>1. ~Holds(m.kid, r, m.kid[p][s].to) => \A t \in Slot : m.kid[m.kid[p][s].to][t] = Nil
      BY <1>5b, <1>a
    <3>2. /\ \A a \in Addr : Holds(m2.kid, r, a) <=>
                 (Holds(m.kid, r, a) /\ a # m.kid[p][s].to) \/ (a = bb /\ Holds(m.kid, r, m.kid[p][s].to))
          /\ \A x \in Addr : In(m2.kid, r, x) <=> x = bb \/ (In(m.kid, r, x) /\ x # m.kid[p][s].to)
          /\ Sound(m2.kid, r)
      BY <2>1, <2>2, <3>1, <1>0, <1>a, TreeCopy
    <3> QED
      BY <3>2, <1>a
<1>6a. \A a \in Addr : a # bb => m2.lab[a].type = m.lab[a].type /\ m2.lab[a].epoch = m.lab[a].epoch
           /\ m2.lab[a].st = m.lab[a].st /\ m2.lab[a].close = m.lab[a].close
           /\ (m.lab[a].copied => m2.lab[a].copied)
  BY <1>0c, <1>1, <1>4
<1>7. ASSUME NEW a \in Addr, NEW t \in Slot, Holds(m2.kid, r, a), m2.kid[a][t] # Nil
      PROVE  /\ m2.lab[m2.kid[a][t].to].type = m2.kid[a][t].type
             /\ m2.lab[m2.kid[a][t].to].epoch <= m2.lab[a].epoch
  <2>2. CASE a = p /\ t = s
    <3>1. m2.kid[a][t] = v
      BY <2>2, <1>0, <1>5
    <3>2. m2.lab[bb].type = m.lab[o].type /\ m2.lab[bb].epoch = m.sup.ehi /\ m2.lab[p].epoch = m.sup.ehi
      BY <1>0, <1>a, <1>0c, <1>1, <1>4, <1>6a
    <3> QED
      BY <2>2, <3>1, <3>2, <1>2, <1>5a
  <2>3. ASSUME NEW b \in Addr, Holds(m.kid, r, b), m2.kid[a][t] = m.kid[b][t], m.lab[b].epoch <= m2.lab[a].epoch
        PROVE  /\ m2.lab[m2.kid[a][t].to].type = m2.kid[a][t].type
               /\ m2.lab[m2.kid[a][t].to].epoch <= m2.lab[a].epoch
    <3>1. m.kid[b][t].to # bb /\ m.kid[b][t].to \in Addr
      BY <2>3, <1>0, <1>7, HolderType
    <3>2. m.lab[m.kid[b][t].to].type = m.kid[b][t].type /\ m.lab[m.kid[b][t].to].epoch <= m.lab[b].epoch
      BY <2>3, <1>7, NowIs, Zenon DEF Typed
    <3>3. m2.lab[m.kid[b][t].to].type = m.lab[m.kid[b][t].to].type
          /\ m2.lab[m.kid[b][t].to].epoch = m.lab[m.kid[b][t].to].epoch
      BY <3>1, <1>6a
    <3>4. m.lab[m.kid[b][t].to].epoch \in Nat /\ m.lab[b].epoch \in Nat /\ m2.lab[a].epoch \in Nat
      BY <3>1, <1>4, LabelIs
    <3> QED
      BY <2>3, <3>2, <3>3, <3>4
  <2>4. CASE a = bb
    <3>0. ~Holds(m.kid, r, bb)
      BY <1>0, HolderType
    <3>1. Holds(m.kid, r, o) /\ m2.kid[a][t] = m.kid[o][t]
      BY <2>4, <3>0, <1>5, <1>6, <1>7
    <3>2. m2.lab[a].epoch = m.sup.ehi /\ m.lab[o].epoch \in Nat
      BY <2>4, <1>0, <1>0c, <1>1, <1>4, LabelIs
    <3>3. m.lab[o].epoch <= m2.lab[a].epoch
      BY <3>2, <1>5a
    <3> QED
      BY <2>3, <3>1, <3>3, <1>0, Zenon
  <2>5. CASE a # bb /\ ~(a = p /\ t = s)
    <3>1. Holds(m.kid, r, a) /\ m2.kid[a][t] = m.kid[a][t] /\ m2.lab[a].epoch = m.lab[a].epoch
      BY <2>5, <1>5, <1>6, <1>6a, <1>7
    <3>2. m.lab[a].epoch <= m2.lab[a].epoch
      BY <3>1, LabelIs
    <3> QED
      BY <2>3, <3>1, <3>2, Zenon
  <2> QED
    BY <2>2, <2>4, <2>5
<1>8. Leaves(m2)
  <2> SUFFICES ASSUME NEW a \in Addr, m2.lab[a].type = "data", NEW t \in Slot PROVE m2.kid[a][t] = Nil
    BY DEF Leaves
  <2>1. CASE a = bb
    <3>1. m.lab[o].type = "data"
      BY <2>1, <1>0c, <1>1, <1>4
    <3>2. m.kid[o][t] = Nil
      BY <3>1, <1>0, NowIs DEF Leaves
    <3> QED
      BY <2>1, <3>2, <1>5
  <2>2. CASE a # bb
    <3>1. m.lab[a].type = "data"
      BY <2>2, <1>6a
    <3>2. a # p
      BY <3>1, <1>a, NotData
    <3>3. m.kid[a][t] = Nil
      BY <3>1, NowIs DEF Leaves
    <3> QED
      BY <2>2, <3>2, <3>3, <1>5
  <2> QED
    BY <2>1, <2>2
<1>9. \A a \in Addr : m2.lab[a] =
              IF a = bb THEN [st |-> "alloc", copied |-> FALSE, type |-> m.lab[o].type,
                              epoch |-> m.sup.ehi, close |-> 0]
              ELSE IF a = o THEN [m.lab[a] EXCEPT !.copied = TRUE] ELSE m.lab[a]
  <2>1. \A a \in Addr : m2.lab[a] = IF a = bb THEN Lb ELSE IF a = o THEN Lc ELSE m.lab[a]
    BY <1>1, <1>4
  <2> QED
    BY <2>1 DEF Lb, Lc
<1>10. Stepped(m, m2, {o}, {bb})
  <2>1. ASSUME NEW a \in Addr \ {bb}
        PROVE  /\ m2.snap[a] = m.snap[a]
               /\ m2.lab[a].st = m.lab[a].st /\ m2.lab[a].type = m.lab[a].type
               /\ m2.lab[a].epoch = m.lab[a].epoch /\ m2.lab[a].close = m.lab[a].close
               /\ m.lab[a].copied => m2.lab[a].copied
               /\ m2.kid[a] # m.kid[a] => In(m.kid, r, a) /\ m.lab[a].epoch = m.sup.ehi
    <3>1. a # p => m2.kid[a] = m.kid[a]
      BY <1>1, <1>4
    <3> QED
      BY <3>1, <1>a, <1>1, <1>4, <1>6a, HolderType
  <2>2. Allocatable(m, bb) /\ m2.lab[bb].st = "alloc" /\ m2.lab[bb].epoch = m.sup.ehi
    BY <1>0c, <1>1, <1>4
  <2>3. Typed(m2, r)
    BY <1>7, Zenon DEF Typed
  <2>4. o # r /\ m2.lab[o].copied
    <3>1. Sound(m.kid, r)
      BY NowIs
    <3>2. o # r
      BY <3>1, <1>a DEF Sound
    <3>3. m2.lab[o].copied
      BY <1>0, <1>0c, <1>1, <1>4
    <3> QED
      BY <3>2, <3>3
  <2>5. \A x \in Addr : In(m2.kid, r, x) <=> (In(m.kid, r, x) /\ x \notin {o}) \/ x \in {bb}
    BY <1>6
  <2>6. /\ {o} \subseteq Addr /\ {bb} \subseteq Addr
        /\ \A a \in {o} : In(m.kid, r, a) /\ a # r /\ m2.lab[a].copied
        /\ \A a \in {bb} : Allocatable(m, a) /\ m2.lab[a].st = "alloc" /\ m2.lab[a].epoch = m.sup.ehi
    BY <2>2, <2>4, <1>0
  <2>7. Sound(m2.kid, r) /\ m2.sup = m.sup
    BY <1>4, <1>6
  <2> QED
    <3> DEFINE D == {o}
               N == {bb}
    <3>1. /\ D \subseteq Addr /\ N \subseteq Addr
          /\ \A a \in D : In(m.kid, r, a) /\ a # r /\ m2.lab[a].copied
          /\ \A a \in N : Allocatable(m, a) /\ m2.lab[a].st = "alloc" /\ m2.lab[a].epoch = m.sup.ehi
          /\ \A x \in Addr : In(m2.kid, r, x) <=> (In(m.kid, r, x) /\ x \notin D) \/ x \in N
      BY <2>5, <2>6
    <3>2. \A a \in Addr \ N :
               /\ m2.snap[a] = m.snap[a]
               /\ m2.lab[a].st = m.lab[a].st /\ m2.lab[a].type = m.lab[a].type
               /\ m2.lab[a].epoch = m.lab[a].epoch /\ m2.lab[a].close = m.lab[a].close
               /\ m.lab[a].copied => m2.lab[a].copied
               /\ m2.kid[a] # m.kid[a] => In(m.kid, r, a) /\ m.lab[a].epoch = m.sup.ehi
      BY <2>1
    <3> HIDE DEF D, N
    <3>3. Stepped(m, m2, D, N)
      BY <3>1, <3>2, <2>3, <2>7, <1>8 DEF Stepped
    <3> QED
      BY <3>3 DEF D, N
<1>11. \A a \in Addr : m2.snap[a] = IF a = bb THEN m.snap[o] ELSE m.snap[a]
  BY <1>1, <1>4
<1> QED
  BY <1>4, <1>5, <1>9, <1>10, <1>11, Zenon DEF m2, v

-----------------------------------------------------------------------------
(* Removing, growing and shrinking files                                   *)

(* Below a pointer of the current tree                                     *)
LEMMA BelowIn ==
  ASSUME NEW m \in Image, NEW rt, Book(m, rt), NEW p \in Addr, NEW s \in Slot,
         Holds(m.kid, m.sup.active, p), m.kid[p][s] # Nil, NEW x, x \in Below2(m.kid, p, s)
  PROVE  /\ x \in Addr /\ In(m.kid, m.sup.active, x) /\ x # m.sup.active
         /\ x # m.kid[p][s].to => \E t \in Slot : Has(m.kid, m.kid[p][s].to, t, x)
         /\ \A t \in Slot, y \in Addr : Has(m.kid, x, t, y) => y \in Below2(m.kid, p, s)
<1> DEFINE r == m.sup.active
           o == m.kid[p][s].to
           ty == m.kid[p][s].type
<1>1. r \in Addr /\ Sound(m.kid, r) /\ m.kid \in Kd /\ Leaves(m) /\ Typed(m, r)
  BY NowIs, ImageIs
<1>2. /\ o \in Addr /\ In(m.kid, r, o) /\ o # r /\ ty \in {"data", "ptr"}
      /\ ty = "ptr" => Holds(m.kid, r, o) /\ p = r
      /\ m.lab[o].type = ty
  <2>1. p # r => ty = "data"
    BY <1>1 DEF Sound
  <2>2. o \in Addr /\ In(m.kid, r, o) /\ o # r /\ ty \in {"data", "ptr"}
    BY <1>1, HolderType, PtrIs DEF Sound
  <2>3. ASSUME ty = "ptr" PROVE Holds(m.kid, r, o) /\ p = r
    <3>1. p = r
      BY <2>1, <2>3
    <3>2. m.kid[r][s] # Nil /\ m.kid[r][s].to = o /\ m.kid[r][s].type = "ptr"
      BY <2>3, <3>1
    <3> HIDE DEF o
    <3> QED
      BY <3>1, <3>2, Zenon DEF Holds
  <2>4. m.lab[o].type = ty
    BY <1>1 DEF Typed
  <2> QED
    BY <2>2, <2>3, <2>4
<1>3. /\ x = o \/ (ty = "ptr" /\ \E t \in Slot : m.kid[o][t] # Nil /\ m.kid[o][t].to = x)
      /\ \A t \in Slot : ty = "ptr" /\ m.kid[o][t] # Nil => m.kid[o][t].to \in Below2(m.kid, p, s)
  BY Zenon DEF Below2
<1> HIDE DEF o, ty
<1>4. CASE x = o
  <2>1. ASSUME NEW t \in Slot, NEW y \in Addr, Has(m.kid, o, t, y) PROVE y \in Below2(m.kid, p, s)
    <3>1. ty = "ptr"
      BY <2>1, <1>1, <1>2 DEF Leaves, Has
    <3> QED
      BY <3>1, <2>1, <1>3 DEF Has
  <2> QED
    BY <2>1, <1>2, <1>4 DEF o
<1>5. ASSUME ty = "ptr", NEW u \in Slot, m.kid[o][u] # Nil, m.kid[o][u].to = x
      PROVE  /\ x \in Addr /\ In(m.kid, r, x) /\ x # r
             /\ \E t \in Slot : Has(m.kid, o, t, x)
             /\ \A t \in Slot, y \in Addr : ~Has(m.kid, x, t, y)
  <2>1. Holds(m.kid, r, o) /\ p = r
    BY <1>2, <1>5
  <2>2. x \in Addr /\ In(m.kid, r, x)
    BY <2>1, <1>2, <1>5, HolderType
  <2>3. x # r /\ m.kid[o][u].type = "data"
    BY <2>1, <1>1, <1>2, <1>5 DEF Sound
  <2>4. m.lab[x].type = "data"
    BY <2>1, <2>3, <1>1, <1>2, <1>5 DEF Typed
  <2>5. \A t \in Slot : m.kid[x][t] = Nil
    BY <2>2, <2>4, <1>1 DEF Leaves
  <2> QED
    BY <2>2, <2>3, <2>5, <1>5 DEF Has
<1> QED
  BY <1>3, <1>4, <1>5, Zenon DEF o

(* sourceKill, or sourceShrinkSize at one pointer: the block and all below *)
(* it go.                                                                  *)
LEMMA CutIs2 ==
  ASSUME NEW m \in Image, NEW rt, Book(m, rt), NEW p \in Addr, NEW s \in Slot,
         Holds(m.kid, m.sup.active, p), m.lab[p].epoch = m.sup.ehi, m.kid[p][s] # Nil
  PROVE  /\ Zeroed(m, p, s) \in Image /\ Zeroed(m, p, s).lab = m.lab /\ Zeroed(m, p, s).snap = m.snap
         /\ Stepped(m, Zeroed(m, p, s), Below2(m.kid, p, s), {})
         /\ \A a \in Addr, t \in Slot : Zeroed(m, p, s).kid[a][t] = IF a = p /\ t = s THEN Nil ELSE m.kid[a][t]
<1> DEFINE r == m.sup.active
           m2 == Zeroed(m, p, s)
           D == Below2(m.kid, p, s)
<1>1. /\ m2 \in Image /\ m2.sup = m.sup /\ m2.snap = m.snap /\ m2.lab = m.lab
      /\ \A a \in Addr, t \in Slot : m2.kid[a][t] = IF a = p /\ t = s THEN Nil ELSE m.kid[a][t]
      /\ \A a \in Addr : a # p => m2.kid[a] = m.kid[a]
  <2>1. Nil \in Ptr
    BY DEF Ptr
  <2> QED
    BY <2>1, SetKidIs DEF Zeroed, KidSet
<1> HIDE DEF m2
<1>2. r \in Addr /\ Sound(m.kid, r) /\ m.kid \in Kd /\ m2.kid \in Kd /\ Leaves(m) /\ Typed(m, r)
  BY <1>1, NowIs, ImageIs
<1>3. /\ \A a \in Addr : Holds(m2.kid, r, a) <=> Holds(m.kid, r, a) /\ a # m.kid[p][s].to
      /\ \A x \in Addr : In(m2.kid, r, x) <=> In(m.kid, r, x) /\ x \notin D
      /\ Sound(m2.kid, r)
  <2> HIDE DEF r
  <2>1. Holds(m.kid, r, p)
    BY DEF r
  <2> QED
    BY <2>1, <1>1, <1>2, TreeRemove
<1> HIDE DEF D
<1>4. Typed(m2, r)
  <2> SUFFICES ASSUME NEW a \in Addr, NEW t \in Slot, Holds(m2.kid, r, a), m2.kid[a][t] # Nil
               PROVE  /\ m2.lab[m2.kid[a][t].to].type = m2.kid[a][t].type
                      /\ m2.lab[m2.kid[a][t].to].epoch <= m2.lab[a].epoch
    BY DEF Typed
  <2>1. Holds(m.kid, r, a) /\ m2.kid[a][t] = m.kid[a][t] /\ m.kid[a][t] # Nil
    BY <1>1, <1>3
  <2> QED
    BY <2>1, <1>1, <1>2 DEF Typed
<1>5. Leaves(m2)
  BY <1>1, <1>2 DEF Leaves
<1>6. \A x \in D : x \in Addr /\ In(m.kid, r, x) /\ x # r /\ \A t \in Slot, y \in Addr : Has(m2.kid, x, t, y) => y \in D
  <2>1. \A x \in Addr, t \in Slot, y \in Addr : Has(m2.kid, x, t, y) => Has(m.kid, x, t, y)
    BY <1>1 DEF Has
  <2>2. \A x \in D : x \in Addr /\ In(m.kid, r, x) /\ x # r /\ \A t \in Slot, y \in Addr : Has(m.kid, x, t, y) => y \in D
    BY BelowIn DEF D
  <2> QED
    BY <2>1, <2>2
<1>7. \A a \in Addr : m2.kid[a] # m.kid[a] => In(m.kid, r, a) /\ m.lab[a].epoch = m.sup.ehi
  BY <1>1, HolderType
<1>8. Stepped(m, m2, D, {})
  BY <1>1, <1>3, <1>4, <1>5, <1>6, <1>7 DEF Stepped
<1> QED
  BY <1>1, <1>8 DEF m2, D

(* sourceGrowDepth: the new pointer block comes, nothing goes.             *)
LEMMA GrownIs ==
  ASSUME NEW m \in Image, NEW rt, Book(m, rt), NEW s \in Slot,
         m.kid[m.sup.active][s] # Nil => m.kid[m.sup.active][s].type = "data",
         NEW bb \in Addr, Allocatable(m, bb)
  PROVE  /\ Grown(m, s, bb) \in Image
         /\ Stepped(m, Grown(m, s, bb), {}, {bb})
         /\ \A a \in Addr : Grown(m, s, bb).lab[a] =
              IF a = bb THEN [st |-> "alloc", copied |-> FALSE, type |-> "ptr", epoch |-> m.sup.ehi, close |-> 0]
              ELSE m.lab[a]
         /\ \A a \in Addr : Grown(m, s, bb).snap[a] = IF a = bb THEN Nil ELSE m.snap[a]
         /\ \A a \in Addr, t \in Slot : Grown(m, s, bb).kid[a][t] =
              IF a = bb THEN IF t = 0 THEN m.kid[m.sup.active][s] ELSE Nil
              ELSE IF a = m.sup.active /\ t = s THEN [to |-> bb, type |-> "ptr"] ELSE m.kid[a][t]
<1> DEFINE r == m.sup.active
           e == m.kid[r][s]
           m1 == Alloc(m, bb, "ptr", m.sup.ehi)
           m2 == Grown(m, s, bb)
           v == [to |-> bb, type |-> "ptr"]
           Lb == [st |-> "alloc", copied |-> FALSE, type |-> "ptr", epoch |-> m.sup.ehi, close |-> 0]
<1>0. /\ ~In(m.kid, r, bb) /\ bb # r /\ r \in Addr /\ Holds(m.kid, r, r) /\ e \in Ptr /\ 0 \in Slot
      /\ Leaves(m) /\ Typed(m, r) /\ m.lab[r].epoch = m.sup.ehi /\ In(m.kid, r, r) /\ m.sup.ehi \in Nat
  <2>1. ~In(m.kid, r, bb)
    BY InNow
  <2>2. e \in Ptr
    BY NowIs, ImageIs DEF Kd
  <2> QED
    BY <2>1, <2>2, NowIs, SlotAssumption, Zenon DEF In, Holds
<1>1. /\ m1 \in Image /\ m1.sup = m.sup
      /\ \A a \in Addr : /\ m1.snap[a] = IF a = bb THEN Nil ELSE m.snap[a]
                         /\ m1.kid[a] = IF a = bb THEN NoKids ELSE m.kid[a]
                         /\ m1.lab[a] = IF a = bb THEN Lb ELSE m.lab[a]
  <2>1. m.sup.ehi \in 0..MaxEpoch
    BY NowIs
  <2> QED
    BY <2>1, AllocIs
<1>2. v \in Ptr /\ v # Nil /\ v.to = bb /\ v.type = "ptr"
  BY NewPtr
<1>3. Lb.type = "ptr" /\ Lb.epoch = m.sup.ehi /\ Lb.st = "alloc"
  OBVIOUS
<1>4. m2 = [[m1 EXCEPT !.kid[r][s] = v] EXCEPT !.kid[bb][0] = e]
  BY DEF Grown
<1> HIDE DEF m1, v, Lb, m2, e
<1>5. /\ m2 \in Image /\ m2.sup = m.sup
      /\ \A a \in Addr : m2.snap[a] = m1.snap[a] /\ m2.lab[a] = m1.lab[a]
      /\ \A a \in Addr, t \in Slot : m2.kid[a][t] = IF a = bb /\ t = 0 THEN e ELSE IF a = r /\ t = s THEN v ELSE m1.kid[a][t]
      /\ \A a \in Addr : a # r /\ a # bb => m2.kid[a] = m1.kid[a]
  <2> DEFINE mm == [m1 EXCEPT !.kid[r][s] = v]
  <2>1. KidSet(m1, mm, r, s, v)
    BY <1>0, <1>1, <1>2, SetKidIs
  <2>2. m2 = [mm EXCEPT !.kid[bb][0] = e]
    BY <1>4
  <2> HIDE DEF mm
  <2>3. mm \in Image
    BY <2>1 DEF KidSet
  <2>4. KidSet(mm, m2, bb, 0, e)
    BY <1>0, <2>2, <2>3, SetKidIs
  <2> QED
    BY <2>1, <2>4, <1>1 DEF KidSet
<1>6. \A a \in Addr, t \in Slot : m2.kid[a][t] = IF a = bb THEN IF t = 0 THEN e ELSE Nil
                                                 ELSE IF a = r /\ t = s THEN v ELSE m.kid[a][t]
  BY <1>0, <1>1, <1>5 DEF NoKids
<1>7. /\ \A a \in Addr : Holds(m2.kid, r, a) <=> Holds(m.kid, r, a) \/ a = bb
      /\ \A x \in Addr : In(m2.kid, r, x) <=> In(m.kid, r, x) \/ x = bb
      /\ Sound(m2.kid, r)
  <2>1. Sound(m.kid, r) /\ m.kid \in Kd /\ m2.kid \in Kd
    BY <1>5, NowIs, ImageIs
  <2>2. GrownTo(m.kid, m2.kid, r, s, bb)
    BY <1>6 DEF v, e, GrownTo
  <2> QED
    BY <2>1, <2>2, <1>0, TreeGrow
<1>8. ASSUME NEW a \in Addr, NEW t \in Slot, Holds(m2.kid, r, a), m2.kid[a][t] # Nil
      PROVE  /\ m2.lab[m2.kid[a][t].to].type = m2.kid[a][t].type
             /\ m2.lab[m2.kid[a][t].to].epoch <= m2.lab[a].epoch
  <2>1. CASE a = r /\ t = s
    <3>1. m2.kid[a][t] = v /\ m2.lab[bb] = Lb /\ m2.lab[a] = m.lab[r]
      BY <2>1, <1>0, <1>1, <1>5, <1>6
    <3> QED
      BY <2>1, <3>1, <1>0, <1>2, <1>3
  <2>2. ASSUME NEW b \in Addr, NEW u \in Slot, Holds(m.kid, r, b), m2.kid[a][t] = m.kid[b][u], m2.lab[a].epoch = m.lab[b].epoch
        PROVE  /\ m2.lab[m2.kid[a][t].to].type = m2.kid[a][t].type
               /\ m2.lab[m2.kid[a][t].to].epoch <= m2.lab[a].epoch
    <3>1. m.kid[b][u].to # bb /\ m.kid[b][u].to \in Addr
      BY <2>2, <1>0, <1>8, HolderType
    <3>2. m.lab[m.kid[b][u].to].type = m.kid[b][u].type /\ m.lab[m.kid[b][u].to].epoch <= m.lab[b].epoch
      BY <2>2, <1>0, <1>8 DEF Typed
    <3>3. m2.lab[m.kid[b][u].to] = m.lab[m.kid[b][u].to]
      BY <3>1, <1>1, <1>5
    <3> QED
      BY <2>2, <3>2, <3>3
  <2>3. CASE a = bb
    <3>1. m2.kid[a][t] = m.kid[r][s]
      BY <2>3, <1>6, <1>8 DEF e
    <3>2. m2.lab[a].epoch = m.lab[r].epoch
      BY <2>3, <1>0, <1>1, <1>3, <1>5
    <3> QED
      BY <2>2, <3>1, <3>2, <1>0, Zenon
  <2>4. CASE a # bb /\ ~(a = r /\ t = s)
    <3>1. Holds(m.kid, r, a) /\ m2.kid[a][t] = m.kid[a][t] /\ m2.lab[a].epoch = m.lab[a].epoch
      BY <2>4, <1>1, <1>5, <1>6, <1>7, <1>8
    <3> QED
      BY <2>2, <3>1
  <2> QED
    BY <2>1, <2>3, <2>4
<1>9. Leaves(m2)
  <2> SUFFICES ASSUME NEW a \in Addr, m2.lab[a].type = "data", NEW t \in Slot PROVE m2.kid[a][t] = Nil
    BY DEF Leaves
  <2>1. a # bb /\ m.lab[a].type = "data"
    BY <1>1, <1>3, <1>5
  <2>2. a # r
    BY <2>1, NowIs
  <2>3. m.kid[a][t] = Nil
    BY <2>1, <1>0 DEF Leaves
  <2> QED
    BY <2>1, <2>2, <2>3, <1>6
<1>10. Stepped(m, m2, {}, {bb})
  <2>1. ASSUME NEW a \in Addr \ {bb}
        PROVE  /\ m2.snap[a] = m.snap[a] /\ m2.lab[a] = m.lab[a]
               /\ m2.kid[a] # m.kid[a] => In(m.kid, r, a) /\ m.lab[a].epoch = m.sup.ehi
    <3>1. a # r => m2.kid[a] = m.kid[a]
      BY <1>1, <1>5
    <3> QED
      BY <3>1, <1>0, <1>1, <1>5
  <2>2. Allocatable(m, bb) /\ m2.lab[bb].st = "alloc" /\ m2.lab[bb].epoch = m.sup.ehi
    BY <1>1, <1>3, <1>5
  <2>3. Typed(m2, r)
    BY <1>8 DEF Typed
  <2> QED
    BY <2>1, <2>2, <2>3, <1>5, <1>7, <1>9 DEF Stepped
<1>11. /\ \A a \in Addr : m2.snap[a] = IF a = bb THEN Nil ELSE m.snap[a]
       /\ \A a \in Addr : m2.lab[a] = IF a = bb THEN Lb ELSE m.lab[a]
  BY <1>1, <1>5
<1> QED
  BY <1>5, <1>6, <1>10, <1>11 DEF m2, v, e, Lb

(* Entry s of the active root is the pointer block o, of any epoch.        *)
CanShrink(m, s, o) ==
  /\ m.kid[m.sup.active][s] # Nil /\ m.kid[m.sup.active][s].type = "ptr"
  /\ m.kid[m.sup.active][s].to = o

(* What the tree loses with o: all that is below it but its first block.   *)
Shed(m, o) == {o} \cup {x \in Addr : \E t \in Slot : t # 0 /\ Has(m.kid, o, t, x)}

(* sourceShrinkDepth: the pointer block goes with all but its first data   *)
(* block.                                                                  *)
LEMMA ShrunkIs ==
  ASSUME NEW m \in Image, NEW rt, Book(m, rt), NEW s \in Slot, NEW o, CanShrink(m, s, o)
  PROVE  /\ Shrunk(m, s) \in Image /\ Shrunk(m, s).lab = m.lab /\ Shrunk(m, s).snap = m.snap
         /\ Stepped(m, Shrunk(m, s), Shed(m, o), {})
         /\ \A a \in Addr, t \in Slot : Shrunk(m, s).kid[a][t] =
              IF a = o /\ t = 0 THEN Nil ELSE IF a = m.sup.active /\ t = s THEN m.kid[o][0] ELSE m.kid[a][t]
<1> DEFINE r == m.sup.active
           v == m.kid[o][0]
           m2 == Shrunk(m, s)
           D == Shed(m, o)
<1>0. /\ r \in Addr /\ Sound(m.kid, r) /\ m.kid \in Kd /\ Leaves(m) /\ Typed(m, r) /\ Holds(m.kid, r, r)
      /\ m.lab[r].epoch = m.sup.ehi /\ 0 \in Slot /\ m.sup.ehi \in Nat
  BY NowIs, ImageIs, SlotAssumption DEF Holds
<1> HIDE DEF m2, v, D
<1>a. m.kid[r][s] # Nil /\ m.kid[r][s].type = "ptr" /\ m.kid[r][s].to = o
  BY DEF CanShrink
<1>b. Has(m.kid, r, s, o)
  BY <1>a DEF Has
<1>1. o \in Addr /\ Holds(m.kid, r, o) /\ o # r /\ In(m.kid, r, o) /\ m.lab[o].epoch <= m.lab[r].epoch /\ m.lab[o].type = "ptr"
  <2>1. o \in Addr
    BY <1>0, <1>a, PtrIs
  <2>2. o # r
    BY <1>0, <1>a DEF Sound
  <2>3. Holds(m.kid, r, o)
    BY <1>a DEF Holds
  <2>4. In(m.kid, r, o)
    BY <1>0, <1>b DEF In
  <2>5. m.lab[o].type = "ptr" /\ m.lab[o].epoch <= m.lab[r].epoch
    BY <1>0, <1>a DEF Typed
  <2> QED
    BY <2>1, <2>2, <2>3, <2>4, <2>5, <1>a
<1>2. v \in Ptr /\ Nil \in Ptr
  BY <1>0, <1>1 DEF Kd, Ptr, v
<1>3. m2 = [[m EXCEPT !.kid[r][s] = v] EXCEPT !.kid[o][0] = Nil]
  BY <1>a DEF Shrunk, m2, v
<1>4. /\ m2 \in Image /\ m2.sup = m.sup /\ m2.snap = m.snap /\ m2.lab = m.lab
      /\ \A a \in Addr, t \in Slot : m2.kid[a][t] = IF a = o /\ t = 0 THEN Nil ELSE IF a = r /\ t = s THEN v ELSE m.kid[a][t]
      /\ \A a \in Addr : a # r /\ a # o => m2.kid[a] = m.kid[a]
  <2> DEFINE mm == [m EXCEPT !.kid[r][s] = v]
  <2>1. KidSet(m, mm, r, s, v)
    BY <1>0, <1>2, SetKidIs
  <2>2. m2 = [mm EXCEPT !.kid[o][0] = Nil]
    BY <1>3
  <2> HIDE DEF mm
  <2>3. mm \in Image
    BY <2>1 DEF KidSet
  <2>4. KidSet(mm, m2, o, 0, Nil)
    BY <1>0, <1>1, <1>2, <2>2, <2>3, SetKidIs
  <2> QED
    BY <2>1, <2>4 DEF KidSet
<1>5. /\ \A a \in Addr : Holds(m2.kid, r, a) <=> Holds(m.kid, r, a) /\ a # o
      /\ \A x \in Addr : In(m2.kid, r, x) <=>
           In(m.kid, r, x) /\ x # o /\ ~\E t \in Slot : t # 0 /\ Has(m.kid, o, t, x)
      /\ Sound(m2.kid, r)
  <2>1. m2.kid \in Kd
    BY <1>4, ImageIs
  <2>2. ShrunkTo(m.kid, m2.kid, r, s)
    BY <1>4, <1>a DEF v, ShrunkTo
  <2>3. /\ \A a \in Addr : Holds(m2.kid, r, a) <=> Holds(m.kid, r, a) /\ a # m.kid[r][s].to
        /\ \A x \in Addr : In(m2.kid, r, x) <=>
              In(m.kid, r, x) /\ x # m.kid[r][s].to /\ ~\E t \in Slot : t # 0 /\ Has(m.kid, m.kid[r][s].to, t, x)
        /\ Sound(m2.kid, r)
    BY <2>1, <2>2, <1>0, <1>a, TreeShrink
  <2> QED
    BY <2>3, <1>a
<1>6. ASSUME NEW a \in Addr, NEW t \in Slot, Holds(m2.kid, r, a), m2.kid[a][t] # Nil
      PROVE  /\ m2.lab[m2.kid[a][t].to].type = m2.kid[a][t].type
             /\ m2.lab[m2.kid[a][t].to].epoch <= m2.lab[a].epoch
  <2>1. CASE a = r /\ t = s
    <3>1. m2.kid[a][t] = m.kid[o][0] /\ m.kid[o][0] # Nil
      BY <2>1, <1>1, <1>4, <1>6 DEF v
    <3>2. /\ m.lab[m.kid[o][0].to].type = m.kid[o][0].type
          /\ m.lab[m.kid[o][0].to].epoch <= m.lab[o].epoch
      BY <3>1, <1>0, <1>1 DEF Typed
    <3>3. /\ m.lab[a].epoch >= m.lab[o].epoch /\ m.lab[a].epoch \in Nat /\ m.lab[o].epoch \in Nat
          /\ m.kid[o][0].to \in Addr
      BY <2>1, <3>1, <1>0, <1>1, LabelIs, PtrIs
    <3>4. m.lab[m.kid[o][0].to].epoch \in Nat
      BY <3>3, LabelIs
    <3> HIDE DEF m2, r
    <3> QED
      BY <3>1, <3>2, <3>3, <3>4, <1>4
  <2>2. CASE ~(a = r /\ t = s)
    <3>1. m2.kid[a][t] = m.kid[a][t] /\ Holds(m.kid, r, a) /\ m.kid[a][t] # Nil
      BY <2>2, <1>4, <1>5, <1>6
    <3>2. /\ m.lab[m.kid[a][t].to].type = m.kid[a][t].type
          /\ m.lab[m.kid[a][t].to].epoch <= m.lab[a].epoch
      BY <3>1, <1>0 DEF Typed
    <3> QED
      BY <3>1, <3>2, <1>4
  <2> QED
    BY <2>1, <2>2
<1>7. Leaves(m2)
  <2> SUFFICES ASSUME NEW a \in Addr, m2.lab[a].type = "data", NEW t \in Slot PROVE m2.kid[a][t] = Nil
    BY DEF Leaves
  <2>1. m.lab[a].type = "data" /\ a # r
    BY <1>4, NowIs
  <2>2. m.kid[a][t] = Nil
    BY <2>1, <1>0 DEF Leaves
  <2> QED
    BY <2>1, <2>2, <1>4
<1>8. \A x \in D : x \in Addr /\ In(m.kid, r, x) /\ x # r
  <2>1. ASSUME NEW x \in Addr, NEW t \in Slot, Has(m.kid, o, t, x) PROVE In(m.kid, r, x) /\ x # r
    BY <2>1, <1>0, <1>1 DEF In, Sound, Has
  <2> QED
    BY <2>1, <1>1 DEF D, Shed
<1>9. \A x \in D : m.lab[x].epoch < m.sup.ehi => \A t \in Slot, y \in Addr : Has(m2.kid, x, t, y) => y \in D
  <2>1. ASSUME NEW x \in Addr, NEW u \in Slot, Has(m.kid, o, u, x) PROVE \A t \in Slot : m.kid[x][t] = Nil
    <3>1. m.kid[o][u].type = "data"
      BY <2>1, <1>0, <1>1 DEF Sound, Has
    <3>2. m.lab[x].type = "data"
      BY <2>1, <3>1, <1>0, <1>1 DEF Typed, Has
    <3> QED
      BY <3>2, <1>0 DEF Leaves
  <2>2. \A t \in Slot, y \in Addr : Has(m2.kid, o, t, y) => y \in D
    <3>1. \A t \in Slot, y \in Addr : Has(m2.kid, o, t, y) => t # 0 /\ Has(m.kid, o, t, y)
      BY <1>1, <1>4 DEF Has
    <3> QED
      BY <3>1 DEF D, Shed
  <2>3. ASSUME NEW x \in D, x # o PROVE \A t \in Slot, y \in Addr : ~Has(m2.kid, x, t, y)
    <3>1. PICK u \in Slot : Has(m.kid, o, u, x)
      BY <2>3 DEF D, Shed
    <3>2. \A t \in Slot : m.kid[x][t] = Nil
      BY <2>1, <2>3, <3>1, <1>8
    <3>3. x # r
      BY <1>8
    <3> QED
      BY <2>3, <3>2, <3>3, <1>4, <1>8 DEF Has
  <2> QED
    BY <2>2, <2>3
<1>10. \A x \in Addr : In(m2.kid, r, x) <=> (In(m.kid, r, x) /\ x \notin D) \/ x \in {}
  BY <1>5 DEF D, Shed
<1>11. \A a \in Addr : m2.kid[a] # m.kid[a] =>
          In(m.kid, r, a) /\ (m.lab[a].epoch = m.sup.ehi \/ Pruned(m, m2, a))
  <2>1. m2.kid[o] = [m.kid[o] EXCEPT ![0] = Nil]
    <3>1. m2.kid[o] \in [Slot -> Ptr] /\ m.kid[o] \in [Slot -> Ptr]
      BY <1>1, <1>4, ImageIs DEF Kd
    <3>2. \A t \in Slot : m2.kid[o][t] = IF t = 0 THEN Nil ELSE m.kid[o][t]
      BY <1>1, <1>4
    <3> QED
      BY <3>1, <3>2
  <2>2. Pruned(m, m2, o)
    BY <2>1, <1>1 DEF Pruned
  <2> QED
    BY <2>2, <1>0, <1>1, <1>4 DEF In
<1>12. Typed(m2, r)
  BY <1>6 DEF Typed
<1>13. Stepped(m, m2, D, {})
  <2>1. D \subseteq Addr /\ {} \subseteq Addr
    BY <1>8
  <2> QED
    BY <2>1, <1>4, <1>5, <1>7, <1>8, <1>9, <1>10, <1>11, <1>12 DEF Stepped
<1> QED
  BY <1>4, <1>13, Zenon DEF m2, D, v

-----------------------------------------------------------------------------
(* bumpEpoch                                                               *)

(* bumpEpoch's image                                                       *)
Bumped(m, bb) ==
  [blockCopy(m, m.sup.active, bb, m.sup.ehi + 1) EXCEPT
     !.snap[bb] = [to |-> m.sup.active, epoch |-> m.lab[m.sup.active].epoch],
     !.sup.active = bb, !.sup.ehi = m.sup.ehi + 1]

BumpTo(m, m2, bb) ==
  /\ m2.sup.active = bb /\ m2.sup.ehi = m.sup.ehi + 1 /\ m2.sup.elo = m.sup.elo
  /\ \A a \in Addr : m2.snap[a] = IF a = bb THEN [to |-> m.sup.active, epoch |-> m.sup.ehi] ELSE m.snap[a]
  /\ \A a \in Addr : m2.kid[a] = IF a = bb THEN m.kid[m.sup.active] ELSE m.kid[a]
  /\ m2.lab[bb] = [st |-> "alloc", copied |-> FALSE, type |-> "root", epoch |-> m.sup.ehi + 1, close |-> 0]
  /\ m2.lab[m.sup.active].copied
  /\ \A a \in Addr : a # bb =>
       /\ m2.lab[a].st = m.lab[a].st /\ m2.lab[a].type = m.lab[a].type
       /\ m2.lab[a].epoch = m.lab[a].epoch /\ m2.lab[a].close = m.lab[a].close
       /\ m.lab[a].copied => m2.lab[a].copied

(* bumpEpoch: a new root that shares all of the old one's tree.            *)
LEMMA BumpedIs ==
  ASSUME NEW m \in Image, NEW rt, Book(m, rt), NEW bb \in Addr, Allocatable(m, bb), m.sup.ehi < MaxEpoch
  PROVE  Bumped(m, bb) \in Image /\ BumpTo(m, Bumped(m, bb), bb) /\ bb # m.sup.active
<1> DEFINE r == m.sup.active
           m1 == blockCopy(m, r, bb, m.sup.ehi + 1)
           v == [to |-> r, epoch |-> m.lab[r].epoch]
           m2 == Bumped(m, bb)
           Lb == [st |-> "alloc", copied |-> FALSE, type |-> m.lab[r].type, epoch |-> m.sup.ehi + 1, close |-> 0]
           Lc == [m.lab[r] EXCEPT !.copied = TRUE]
<1>1. /\ r \in Addr /\ bb # r /\ m.sup.ehi + 1 \in 0..MaxEpoch /\ m.sup.ehi + 1 \in Epoch
      /\ m.lab[r].type = "root" /\ m.lab[r].epoch = m.sup.ehi /\ m.sup.ehi \in Epoch
  <2>1. m.sup.ehi \in Epoch
    BY ImageIs
  <2>2. r \in Addr /\ In(m.kid, r, r) /\ m.lab[r].type = "root" /\ m.lab[r].epoch = m.sup.ehi
    BY NowIs DEF In
  <2>3. bb # r
    BY <2>2, InNow
  <2> QED
    BY <2>1, <2>2, <2>3, BoundAssumption DEF Epoch
<1>2. /\ m1 \in Image /\ m1.sup = m.sup
      /\ \A a \in Addr : /\ m1.snap[a] = IF a = bb THEN m.snap[r] ELSE m.snap[a]
                         /\ m1.kid[a] = IF a = bb THEN m.kid[r] ELSE m.kid[a]
                         /\ m1.lab[a] = IF a = bb THEN Lb ELSE IF a = r THEN Lc ELSE m.lab[a]
  BY <1>1, CopyIs
<1>3. v \in SnapEntry /\ v = [to |-> r, epoch |-> m.sup.ehi]
  BY <1>1 DEF SnapEntry
<1>4. /\ Lc.copied /\ Lc.st = m.lab[r].st /\ Lc.type = m.lab[r].type
      /\ Lc.epoch = m.lab[r].epoch /\ Lc.close = m.lab[r].close
  BY <1>1, LabelIs DEF Label
<1>5. Lb = [st |-> "alloc", copied |-> FALSE, type |-> "root", epoch |-> m.sup.ehi + 1, close |-> 0]
  BY <1>1
<1>6. m2 = [m1 EXCEPT !.snap[bb] = v, !.sup.active = bb, !.sup.ehi = m.sup.ehi + 1]
  BY DEF Bumped
<1> HIDE DEF m1, v, m2, Lb, Lc
<1>7. /\ m2 \in Image
      /\ m2.sup.active = bb /\ m2.sup.ehi = m.sup.ehi + 1 /\ m2.sup.elo = m.sup.elo
      /\ \A a \in Addr : m2.snap[a] = IF a = bb THEN v ELSE m1.snap[a]
      /\ m2.kid = m1.kid /\ m2.lab = m1.lab
  <2>1. m1.sup \in [active: Addr, ehi: Epoch, elo: Epoch] /\ m1.snap \in [Addr -> SnapEntry]
    BY <1>2, ImageIs
  <2>2. m1 \in [kid: [Addr -> [Slot -> Ptr]], snap: [Addr -> SnapEntry], lab: [Addr -> Label],
                sup: [active: Addr, ehi: Epoch, elo: Epoch]]
    BY <1>2 DEF Image
  <2> QED
    BY <2>1, <2>2, <1>1, <1>2, <1>3, <1>6 DEF Image
<1>8. BumpTo(m, m2, bb)
  <2>1. \A a \in Addr : m2.snap[a] = IF a = bb THEN [to |-> r, epoch |-> m.sup.ehi] ELSE m.snap[a]
    BY <1>2, <1>3, <1>7
  <2>2. m2.lab[bb] = [st |-> "alloc", copied |-> FALSE, type |-> "root", epoch |-> m.sup.ehi + 1, close |-> 0]
    BY <1>2, <1>5, <1>7
  <2>3. ASSUME NEW a \in Addr, a # bb
        PROVE  /\ m2.lab[a].st = m.lab[a].st /\ m2.lab[a].type = m.lab[a].type
               /\ m2.lab[a].epoch = m.lab[a].epoch /\ m2.lab[a].close = m.lab[a].close
               /\ m.lab[a].copied => m2.lab[a].copied
    BY <2>3, <1>1, <1>2, <1>4, <1>7
  <2>4. m2.lab[r].copied
    BY <1>1, <1>2, <1>4, <1>7
  <2>5. \A a \in Addr : m2.kid[a] = IF a = bb THEN m.kid[r] ELSE m.kid[a]
    BY <1>2, <1>7
  <2> QED
    BY <2>1, <2>2, <2>3, <2>4, <2>5, <1>7 DEF BumpTo
<1> QED
  BY <1>1, <1>7, <1>8 DEF m2

(* Its bookkeeping                                                         *)
LEMMA BookBump ==
  ASSUME NEW m \in Image, NEW m2 \in Image, NEW rt, Book(m, rt), NEW bb \in Addr, Allocatable(m, bb),
         m.sup.ehi < MaxEpoch, BumpTo(m, m2, bb)
  PROVE  Book(m2, [rt EXCEPT ![m.sup.ehi + 1] = bb])
<1> DEFINE r == m.sup.active
           hi == m.sup.ehi
           rt2 == [rt EXCEPT ![m.sup.ehi + 1] = bb]
<1>1. /\ r \in Addr /\ hi \in Nat /\ hi + 1 \in Epoch /\ hi \in Eras(m) /\ rt[hi] = r
      /\ rt \in [Epoch -> Addr] /\ m.sup.elo \in Nat /\ m.sup.elo <= hi
      /\ Eras(m) \subseteq Epoch /\ m.kid \in Kd /\ m2.kid \in Kd
      /\ Sound(m.kid, r) /\ Typed(m, r) /\ Leaves(m)
  <2>1. hi \in Epoch /\ m.sup.elo \in Epoch
    BY ImageIs
  <2>2. hi \in Nat /\ hi + 1 \in Epoch /\ m.sup.elo \in Nat
    BY <2>1, BoundAssumption DEF Epoch
  <2>3. rt \in [Epoch -> Addr] /\ m.sup.elo <= hi
    BY DEF Book, Roots
  <2>4. Eras(m) \subseteq Epoch
    BY KeptIs DEF Book
  <2> QED
    BY <2>2, <2>3, <2>4, NowIs, ImageIs
<1>2. /\ m2.sup.active = bb /\ m2.sup.ehi = hi + 1 /\ m2.sup.elo = m.sup.elo
      /\ rt2 \in [Epoch -> Addr] /\ rt2[hi + 1] = bb
      /\ \A e \in Eras(m) : rt2[e] = rt[e] /\ rt[e] \in Addr /\ e \in Nat /\ e <= hi /\ e # hi + 1 /\ m.sup.elo <= e
  BY <1>1 DEF BumpTo, Eras
<1>3. \A e : e \in Eras(m2) <=> e \in Eras(m) \/ e = hi + 1
  BY <1>1, <1>2 DEF Eras
<1> HIDE DEF rt2
<1>4. \A e \in Eras(m) : ~In(m.kid, rt[e], bb) /\ bb # rt[e]
  BY AllocOutside DEF Book
<1>5. ASSUME NEW e \in Eras(m)
      PROVE  /\ \A a : Holds(m2.kid, rt2[e], a) <=> Holds(m.kid, rt[e], a)
             /\ \A x : In(m2.kid, rt2[e], x) <=> In(m.kid, rt[e], x)
             /\ \A x : In(m.kid, rt[e], x) => x # bb /\ x \in Addr
             /\ Sound(m2.kid, rt2[e])
  <2>1. \A a \in Addr : Holds(m.kid, rt[e], a) => m2.kid[a] = m.kid[a]
    BY <1>1, <1>2, <1>4, HoldsIn DEF BumpTo
  <2>2. Sound(m.kid, rt[e])
    BY DEF Book, Trees
  <2> QED
    BY <2>1, <2>2, <1>1, <1>2, <1>4, SameTree, InAddr
<1>6. /\ \A a \in Addr : Holds(m2.kid, bb, a) <=> (Holds(m.kid, r, a) /\ a # r) \/ a = bb
      /\ \A x \in Addr : In(m2.kid, bb, x) <=> (In(m.kid, r, x) /\ x # r) \/ x = bb
      /\ Sound(m2.kid, bb)
  <2>1. \A a \in Addr, t \in Slot : m2.kid[a][t] = IF a = bb THEN m.kid[r][t] ELSE m.kid[a][t]
    BY DEF BumpTo
  <2> QED
    BY <2>1, <1>1, <1>4, TreeRoot
<1>7. /\ m2.lab[bb].st = "alloc" /\ m2.lab[bb].type = "root" /\ m2.lab[bb].epoch = hi + 1
      /\ m2.lab[r].copied
      /\ \A a \in Addr : a # bb =>
           /\ m2.kid[a] = m.kid[a]
           /\ m2.lab[a].st = m.lab[a].st /\ m2.lab[a].type = m.lab[a].type
           /\ m2.lab[a].epoch = m.lab[a].epoch /\ m2.lab[a].close = m.lab[a].close
           /\ m.lab[a].copied => m2.lab[a].copied
  BY DEF BumpTo
<1>8. Roots(m2, rt2)
  <2>1. ASSUME NEW e \in Eras(m2)
        PROVE  /\ m2.lab[rt2[e]].type = "root" /\ m2.lab[rt2[e]].epoch = e
               /\ e > m2.sup.elo => m2.snap[rt2[e]] = [to |-> rt2[e-1], epoch |-> e-1]
    <3>1. CASE e = hi + 1
      <4>1. rt2[e - 1] = r /\ e - 1 = hi
        BY <3>1, <1>1, <1>2
      <4>2. m2.snap[bb] = [to |-> r, epoch |-> hi]
        BY DEF BumpTo
      <4> QED
        BY <4>1, <4>2, <3>1, <1>2, <1>7
    <3>2. CASE e \in Eras(m)
      <4>1. m.lab[rt[e]].type = "root" /\ m.lab[rt[e]].epoch = e
        BY <3>2 DEF Book, Roots
      <4>2. ASSUME e > m2.sup.elo PROVE m2.snap[rt2[e]] = [to |-> rt2[e-1], epoch |-> e-1]
        <5>1. m.snap[rt[e]] = [to |-> rt[e-1], epoch |-> e-1]
          BY <3>2, <4>2, <1>2 DEF Book, Roots
        <5>2. e - 1 \in Eras(m)
          BY <3>2, <4>2, <1>1, <1>2 DEF Eras
        <5>3. m2.snap[rt[e]] = m.snap[rt[e]]
          BY <3>2, <1>2, <1>4 DEF BumpTo
        <5> QED
          BY <3>2, <5>1, <5>2, <5>3, <1>2
      <4> QED
        BY <3>2, <4>1, <4>2, <1>2, <1>4, <1>7
    <3> QED
      BY <3>1, <3>2, <1>3
  <2>2. m.sup.elo \in Eras(m)
    BY <1>1 DEF Eras
  <2>3. m2.snap[rt2[m2.sup.elo]] = m.snap[rt[m.sup.elo]]
    BY <2>2, <1>2, <1>4 DEF BumpTo
  <2>4. m.snap[rt[m.sup.elo]] # Nil => m.snap[rt[m.sup.elo]].epoch < m.sup.elo
    BY DEF Book, Roots
  <2>5. m2.sup.elo <= m2.sup.ehi
    BY <1>1, <1>2
  <2> QED
    BY <2>1, <2>3, <2>4, <2>5, <1>2 DEF Roots
<1>9. Trees(m2, rt2)
  <2>1. ASSUME NEW e \in Eras(m) PROVE Sound(m2.kid, rt2[e]) /\ Typed(m2, rt2[e]) /\ Alive(m2, rt2[e], e)
    <3>0. Typed(m, rt[e]) /\ Alive(m, rt[e], e)
      BY DEF Book, Trees
    <3>1. Alive(m2, rt2[e], e)
      <4> SUFFICES ASSUME NEW x \in Addr, In(m2.kid, rt2[e], x)
                   PROVE  /\ m2.lab[x].st # "free" /\ m2.lab[x].epoch \in 1..e
                          /\ m2.lab[x].st = "closed" => m2.lab[x].close > e
        BY DEF Alive
      <4>1. In(m.kid, rt[e], x) /\ x # bb
        BY <1>5
      <4> QED
        BY <4>1, <3>0, <1>7, Zenon DEF Alive
    <3>2. ASSUME NEW a \in Addr, NEW s \in Slot, Holds(m2.kid, rt2[e], a), m2.kid[a][s] # Nil
          PROVE  /\ m2.lab[m2.kid[a][s].to].type = m2.kid[a][s].type
                 /\ m2.lab[m2.kid[a][s].to].epoch <= m2.lab[a].epoch
      <4>1. Holds(m.kid, rt[e], a) /\ a # bb /\ m2.kid[a][s] = m.kid[a][s]
        <5>1. Holds(m.kid, rt[e], a) /\ rt[e] \in Addr
          BY <3>2, <1>2, <1>5
        <5>2. a # bb
          BY <5>1, <1>1, <1>5, HoldsIn
        <5> QED
          BY <5>1, <5>2, <1>7
      <4>2. In(m.kid, rt[e], m.kid[a][s].to)
        BY <4>1, <3>2 DEF In, Has
      <4>3. m.kid[a][s].to # bb /\ m.kid[a][s].to \in Addr
        BY <4>2, <1>5
      <4>4. m.lab[m.kid[a][s].to].type = m.kid[a][s].type /\ m.lab[m.kid[a][s].to].epoch <= m.lab[a].epoch
        BY <4>1, <3>0, <3>2 DEF Typed
      <4> QED
        BY <4>1, <4>3, <4>4, <1>7
    <3> QED
      BY <3>1, <3>2, <1>5 DEF Typed
  <2>2. Alive(m2, bb, hi + 1)
    <3> SUFFICES ASSUME NEW x \in Addr, In(m2.kid, bb, x)
                 PROVE  m2.lab[x].st = "alloc" /\ m2.lab[x].epoch \in 1..hi + 1
      BY DEF Alive
    <3>1. CASE x = bb
      BY <3>1, <1>1, <1>7
    <3>2. CASE x # bb
      <4>1. m.lab[x].st = "alloc" /\ m.lab[x].epoch <= hi /\ m.lab[x].epoch >= 1
        BY <3>2, <1>6, InNow
      <4> QED
        BY <4>1, <3>2, <1>1, <1>7, LabelIs
    <3> QED
      BY <3>1, <3>2
  <2>3. ASSUME NEW a \in Addr, NEW s \in Slot, Holds(m2.kid, bb, a), m2.kid[a][s] # Nil
        PROVE  /\ m2.lab[m2.kid[a][s].to].type = m2.kid[a][s].type
               /\ m2.lab[m2.kid[a][s].to].epoch <= m2.lab[a].epoch
    <3> DEFINE b == IF a = bb THEN r ELSE a
    <3>1. Holds(m.kid, r, b) /\ m2.kid[a][s] = m.kid[b][s] /\ b \in Addr
      <4>1. CASE a = bb
        <5>1. Holds(m.kid, r, r)
          BY DEF Holds
        <5>2. m2.kid[bb][s] = m.kid[r][s]
          BY DEF BumpTo
        <5> QED
          BY <4>1, <5>1, <5>2, <1>1
      <4>2. CASE a # bb
        <5>1. Holds(m.kid, r, a)
          BY <2>3, <4>2, <1>6
        <5>2. m2.kid[a] = m.kid[a]
          BY <4>2, <1>7
        <5> QED
          BY <4>2, <5>1, <5>2
      <4> QED
        BY <4>1, <4>2
    <3>2. m.lab[b].epoch <= m2.lab[a].epoch /\ m.lab[b].epoch \in Nat /\ m2.lab[a].epoch \in Nat
      <4>1. m.lab[r].epoch = hi
        BY NowIs
      <4> QED
        BY <4>1, <1>1, <1>7, <3>1, LabelIs
    <3> HIDE DEF b
    <3>3. In(m.kid, r, m.kid[b][s].to) /\ m.kid[b][s].to \in Addr
      BY <2>3, <3>1, HolderType
    <3>4. m.kid[b][s].to # bb
      BY <3>3, <1>1, <1>4
    <3>5. m.lab[m.kid[b][s].to].type = m.kid[b][s].type /\ m.lab[m.kid[b][s].to].epoch <= m.lab[b].epoch
      BY <2>3, <3>1, <1>1 DEF Typed
    <3>6. m.lab[m.kid[b][s].to].epoch \in Nat
      BY <3>3, LabelIs
    <3>7. m2.lab[m.kid[b][s].to].type = m.kid[b][s].type /\ m2.lab[m.kid[b][s].to].epoch = m.lab[m.kid[b][s].to].epoch
      BY <3>3, <3>4, <3>5, <1>7
    <3> QED
      BY <3>1, <3>2, <3>5, <3>6, <3>7
  <2> QED
    BY <2>1, <2>2, <2>3, <1>2, <1>3, <1>6 DEF Trees, Typed
<1>10. Between(m2, rt2)
  <2> SUFFICES ASSUME NEW e \in Eras(m2), NEW f \in Eras(m2), NEW x \in Addr,
                      In(m2.kid, rt2[e], x), m2.lab[x].type # "data", f <= e, m2.lab[x].epoch <= f
               PROVE  In(m2.kid, rt2[f], x)
    BY DEF Between
  <2>1. CASE f = hi + 1
    <3>1. e \in Eras(m) => e \in Nat /\ e <= hi
      BY <1>2
    <3>2. e = hi + 1
      <4>1. ~(hi + 1 <= e /\ e \in Nat /\ e <= hi)
        BY <1>1
      <4> QED
        BY <2>1, <3>1, <4>1, <1>3
    <3> QED
      BY <2>1, <3>2
  <2>2. CASE f \in Eras(m) /\ e \in Eras(m)
    <3>1. In(m.kid, rt[e], x) /\ x # bb
      BY <2>2, <1>5, AllocOutside DEF Book
    <3>2. In(m.kid, rt[f], x)
      BY <3>1, <2>2, <1>7 DEF Book, Between
    <3> QED
      BY <3>2, <2>2, <1>5
  <2>3. CASE f \in Eras(m) /\ e = hi + 1
    <3>1. x # bb
      BY <2>3, <1>1, <1>2, <1>7
    <3>2. In(m.kid, rt[hi], x) /\ m.lab[x].epoch <= f /\ m.lab[x].type # "data"
      BY <3>1, <2>3, <1>1, <1>2, <1>6, <1>7
    <3>3. In(m.kid, rt[f], x)
      BY <3>2, <2>3, <1>1, <1>2 DEF Book, Between
    <3> QED
      BY <3>3, <2>3, <1>5
  <2> QED
    BY <2>1, <2>2, <2>3, <1>3
<1>11. Copied(m2, rt2)
  <2> SUFFICES ASSUME NEW e \in Eras(m2), NEW f \in Eras(m2), NEW a \in Addr, NEW x \in Addr, NEW s \in Slot,
                      e < f, Holds(m2.kid, rt2[e], a), Has(m2.kid, a, s, x), In(m2.kid, rt2[f], x),
                      ~In(m2.kid, rt2[f], a)
               PROVE  m2.lab[a].copied
    BY DEF Copied
  <2>1. e \in Eras(m)
    BY <1>1, <1>2, <1>3
  <2>2. Holds(m.kid, rt[e], a) /\ a # bb /\ Has(m.kid, a, s, x) /\ In(m.kid, rt[e], x) /\ x # bb
    <3>1. Holds(m.kid, rt[e], a) /\ a # bb
      BY <2>1, <1>1, <1>2, <1>5, HoldsIn
    <3>2. Has(m.kid, a, s, x)
      BY <3>1, <1>7 DEF Has
    <3>3. In(m.kid, rt[e], x)
      BY <3>1, <3>2 DEF In
    <3> QED
      BY <3>1, <3>2, <3>3, <2>1, <1>5
  <2>3. CASE f \in Eras(m)
    BY <2>1, <2>2, <2>3, <1>5, <1>7 DEF Book, Copied
  <2>4. CASE f = hi + 1
    <3>1. In(m.kid, rt[hi], x)
      BY <2>2, <2>4, <1>1, <1>2, <1>6
    <3>2. a = r \/ ~In(m.kid, rt[hi], a)
      BY <2>4, <1>1, <1>2, <1>6
    <3>3. CASE a = r
      BY <3>3, <1>7
    <3>4. CASE ~In(m.kid, rt[hi], a)
      <4>1. e # hi
        BY <3>4, <2>2, <1>1, HoldsIn
      <4>2. e < hi
        BY <4>1, <2>1, <1>1, <1>2
      <4> QED
        BY <4>2, <3>1, <3>4, <2>1, <2>2, <1>1, <1>7 DEF Book, Copied
    <3> QED
      BY <3>2, <3>3, <3>4
  <2> QED
    BY <2>3, <2>4, <1>3
<1>12. Leaves(m2)
  BY <1>1, <1>7 DEF Leaves
<1>13. Past(m2)
  <2>0. \A a \in Addr : m2.lab[a].st # "bad"
    BY <1>7 DEF Book, Past
  <2> SUFFICES ASSUME NEW a \in Addr, m2.lab[a].st = "closed" PROVE m2.lab[a].close <= hi + 1
    BY <1>2, <2>0 DEF Past
  <2>1. a # bb /\ m.lab[a].st = "closed"
    BY <1>7
  <2>2. m.lab[a].close <= hi /\ m.lab[a].close \in Nat
    BY <2>1, LabelIs DEF Book, Past
  <2> QED
    BY <2>1, <2>2, <1>1, <1>7
<1> QED
  BY <1>8, <1>9, <1>10, <1>11, <1>12, <1>13 DEF Book, rt2

(* and its links: none of them claims a block of the new tree              *)
LEMMA LinksBump ==
  ASSUME NEW m \in Image, NEW m2 \in Image, NEW rt, Book(m, rt), NEW bb \in Addr, Allocatable(m, bb),
         m.sup.ehi < MaxEpoch, BumpTo(m, m2, bb), NEW ls \in Queues, Links(m, rt, ls), Open(m, rt, ls, FALSE)
  PROVE  /\ Links(m2, [rt EXCEPT ![m.sup.ehi + 1] = bb], ls)
         /\ Open(m2, [rt EXCEPT ![m.sup.ehi + 1] = bb], ls, TRUE)
         /\ Forced(m2, [rt EXCEPT ![m.sup.ehi + 1] = bb], ls, TRUE)
<1> DEFINE r == m.sup.active
           hi == m.sup.ehi
           rt2 == [rt EXCEPT ![m.sup.ehi + 1] = bb]
<1>1. /\ r \in Addr /\ hi \in Nat /\ hi + 1 \in Epoch /\ hi \in Eras(m) /\ rt[hi] = r
      /\ rt \in [Epoch -> Addr] /\ m.sup.elo \in Nat /\ m.sup.elo <= hi
      /\ Eras(m) \subseteq Epoch /\ m.kid \in Kd /\ m2.kid \in Kd /\ In(m.kid, r, r) /\ Sound(m.kid, r)
  <2>1. hi \in Epoch /\ m.sup.elo \in Epoch
    BY ImageIs
  <2>2. hi \in Nat /\ hi + 1 \in Epoch /\ m.sup.elo \in Nat
    BY <2>1, BoundAssumption DEF Epoch
  <2>3. rt \in [Epoch -> Addr] /\ m.sup.elo <= hi
    BY DEF Book, Roots
  <2>4. Eras(m) \subseteq Epoch
    BY KeptIs DEF Book
  <2> QED
    BY <2>2, <2>3, <2>4, NowIs, ImageIs DEF In
<1>2. /\ m2.sup.active = bb /\ m2.sup.ehi = hi + 1 /\ m2.sup.elo = m.sup.elo
      /\ rt2[hi + 1] = bb /\ rt2[hi] = r
      /\ \A e \in Eras(m) : rt2[e] = rt[e] /\ rt[e] \in Addr /\ e \in Nat /\ e <= hi
  BY <1>1 DEF BumpTo, Eras
<1>3. \A e : e \in Eras(m2) <=> e \in Eras(m) \/ e = hi + 1
  BY <1>1, <1>2 DEF Eras
<1> HIDE DEF rt2
<1>4. \A e \in Eras(m) : ~In(m.kid, rt[e], bb)
  BY AllocOutside DEF Book
<1>5. ASSUME NEW e \in Eras(m)
      PROVE  \A x : In(m2.kid, rt2[e], x) <=> In(m.kid, rt[e], x)
  <2>1. \A a \in Addr : Holds(m.kid, rt[e], a) => m2.kid[a] = m.kid[a]
    BY <1>1, <1>2, <1>4, HoldsIn DEF BumpTo
  <2> QED
    BY <2>1, <1>1, <1>2, SameTree
<1>6. \A x \in Addr : In(m2.kid, bb, x) <=> (In(m.kid, r, x) /\ x # r) \/ x = bb
  <2>1. \A a \in Addr, t \in Slot : m2.kid[a][t] = IF a = bb THEN m.kid[r][t] ELSE m.kid[a][t]
    BY DEF BumpTo
  <2> QED
    BY <2>1, <1>1, <1>4, TreeRoot
<1>7. /\ \A a \in Addr : a # bb =>
           /\ m2.kid[a] = m.kid[a]
           /\ m2.lab[a].st = m.lab[a].st /\ m2.lab[a].type = m.lab[a].type
           /\ m2.lab[a].epoch = m.lab[a].epoch /\ m2.lab[a].close = m.lab[a].close
      /\ m2.lab[bb].st = "alloc"
  BY DEF BumpTo
<1>8. m.lab[bb].st # "alloc"
  BY DEF Allocatable, Closed
<1>9. ASSUME NEW c \in Place, NEW i \in DOMAIN ls[c]
      PROVE  /\ ls[c][i].addr # bb
             /\ \A x \in Addr : Claims(m2.kid, ls[c][i], x) <=> Claims(m.kid, ls[c][i], x)
             /\ \A x \in Addr : Claims(m.kid, ls[c][i], x) => x # bb /\ ~In(m.kid, r, x)
             /\ Good(m2, rt2, ls[c][i])
  <2> DEFINE l == ls[c][i]
  <2>0. Good(m, rt, l) /\ l \in Link /\ l.addr \in Addr /\ Claims(m.kid, l, l.addr) /\ End(m, l) \in Nat
    BY LinkIs, EndIs DEF Links, Claims
  <2> HIDE DEF l
  <2>1. l.addr # bb
    BY <2>0, <1>8 DEF Good
  <2>2. m2.kid[l.addr] = m.kid[l.addr]
    BY <2>0, <2>1, <1>7
  <2>3. \A x \in Addr : Claims(m2.kid, l, x) <=> Claims(m.kid, l, x)
    BY <2>2 DEF Claims, Has
  <2>4. End(m2, l) = End(m, l)
    BY <2>0, <2>1, <1>7 DEF End, closeEpoch
  <2>5. ASSUME NEW x \in Addr, Claims(m.kid, l, x)
        PROVE  /\ x # bb /\ ~In(m.kid, r, x)
               /\ m2.lab[x].st = "alloc" /\ m2.lab[x].epoch <= End(m, l)
               /\ \A e \in Eras(m2) : e >= End(m, l) => ~In(m2.kid, rt2[e], x)
    <3>1. /\ m.lab[x].st = "alloc" /\ m.lab[x].epoch <= End(m, l) /\ End(m, l) <= hi
          /\ \A e \in Eras(m) : e >= End(m, l) => ~In(m.kid, rt[e], x)
      BY <2>0, <2>5 DEF Good
    <3>2. x # bb
      BY <3>1, <1>8
    <3>3. ~In(m.kid, r, x)
      BY <3>1, <1>1, <2>0
    <3>4. ~In(m2.kid, bb, x)
      BY <3>2, <3>3, <1>6
    <3> QED
      BY <3>1, <3>2, <3>3, <3>4, <1>2, <1>3, <1>5, <1>7
  <2>6. m2.lab[l.addr].type = l.type /\ End(m2, l) <= m2.sup.ehi
    <3>1. m.lab[l.addr].type = l.type /\ End(m, l) <= hi
      BY <2>0 DEF Good
    <3> QED
      BY <3>1, <2>0, <2>1, <2>4, <1>1, <1>2, <1>7
  <2>7. Good(m2, rt2, l)
    BY <2>3, <2>4, <2>5, <2>6 DEF Good
  <2> QED
    BY <2>1, <2>3, <2>5, <2>7 DEF l
<1>10. Links(m2, rt2, ls)
  BY <1>9 DEF Links
<1>11. \A x \in Addr : Pending(m2.kid, ls, x) <=> Pending(m.kid, ls, x)
  BY <1>9 DEF Pending
<1>12. Open(m2, rt2, ls, TRUE)
  <2> SUFFICES ASSUME NEW x \in Addr, m2.lab[x].st = "alloc", ~Pending(m.kid, ls, x), x # r
               PROVE  In(m2.kid, bb, x)
    <3>1. rt2[m2.sup.ehi - 1] = r
      BY <1>1, <1>2
    <3> QED
      BY <3>1, <1>2, <1>11 DEF Open
  <2>1. CASE x = bb
    BY <2>1, <1>6
  <2>2. CASE x # bb
    BY <2>2, <1>6, <1>7 DEF Open
  <2> QED
    BY <2>1, <2>2
<1>13. Forced(m2, rt2, ls, TRUE)
  <2>1. rt2[m2.sup.ehi - 1] = r
    BY <1>1, <1>2
  <2>2. ~Pending(m.kid, ls, r)
    BY <1>1, <1>9 DEF Pending
  <2>3. r # bb /\ m.lab[r].st = "alloc"
    BY <1>1, <1>4, InNow
  <2> QED
    BY <2>1, <2>2, <2>3, <1>1, <1>2, <1>7, <1>11 DEF Forced
<1> QED
  BY <1>10, <1>12, <1>13 DEF rt2

-----------------------------------------------------------------------------
(* doRemoveLink and fsEpochLow                                             *)

(* The image after a link is removed: what it claims is closed.            *)
ClosedTo(m, m2, l) ==
  /\ m2.sup = m.sup /\ m2.snap = m.snap /\ m2.kid = m.kid
  /\ \A a \in Addr :
       /\ m2.lab[a].type = m.lab[a].type /\ m2.lab[a].epoch = m.lab[a].epoch
       /\ m2.lab[a].copied = m.lab[a].copied
       /\ Claims(m.kid, l, a) => m2.lab[a].st = "closed" /\ m2.lab[a].close = End(m, l)
       /\ ~Claims(m.kid, l, a) => m2.lab[a] = m.lab[a]

(* doRemoveLink of a good link closes what it claims and changes no label  *)
(* else.                                                                   *)
LEMMA RemoveIs ==
  ASSUME NEW m \in Image, NEW rt, Book(m, rt), NEW l \in Link, Good(m, rt, l)
  PROVE  /\ doRemoveLink(m, l) \in Image
         /\ ClosedTo(m, doRemoveLink(m, l), l)
<1> DEFINE e == closeEpoch(m, l)
           kids == IF l.recurse /\ l.type = "ptr"
                   THEN {a \in Blocks(Kids(m, l.addr)) : ~Closed(m, a)} ELSE {}
           gone == {a \in {l.addr} \cup kids : m.lab[a].epoch <= e}
<1>1. l.addr \in Addr /\ e = End(m, l) /\ e \in Nat /\ e <= m.sup.ehi /\ m.lab[l.addr].type = l.type
  BY EndIs DEF End, Good, Link
<1>2. e \in 0..MaxEpoch
  <2>1. m.sup.ehi \in 1..MaxEpoch
    BY ImageIs DEF Epoch
  <2> QED
    BY <2>1, <1>1, BoundAssumption
<1>3. \A x \in Addr : Claims(m.kid, l, x) =>
         m.lab[x].st = "alloc" /\ m.lab[x].epoch <= e
  BY <1>1 DEF Good
<1>4. \A x \in Addr : x \in gone <=> Claims(m.kid, l, x)
  <2>1. \A x : x \in Blocks(Kids(m, l.addr)) <=> \E s \in Slot : Has(m.kid, l.addr, s, x)
    BY DEF Blocks, Kids, Has
  <2>2. \A x : x \in {l.addr} \cup kids <=>
           x = l.addr \/ (l.recurse /\ l.type = "ptr" /\ (\E s \in Slot : Has(m.kid, l.addr, s, x)) /\ ~Closed(m, x))
    BY <2>1
  <2> HIDE DEF kids, e
  <2>3. \A x \in Addr : Claims(m.kid, l, x) => ~Closed(m, x)
    BY <1>3 DEF Closed
  <2>4. \A x \in Addr : x \in {l.addr} \cup kids <=> Claims(m.kid, l, x)
    BY <2>2, <2>3, <1>1 DEF Claims
  <2> QED
    BY <2>4, <1>3
<1>5. ~(m.lab[l.addr].type # l.type \/ m.lab[l.addr].epoch > e)
  <2>1. m.lab[l.addr].epoch <= e /\ m.lab[l.addr].epoch \in Nat
    BY <1>1, <1>3, LabelIs DEF Claims
  <2> QED
    BY <2>1, <1>1
<1> DEFINE new(a) == [m.lab[a] EXCEPT !.st = IF @ = "free" THEN "bad" ELSE "closed", !.close = e]
<1>6. doRemoveLink(m, l) = [m EXCEPT !.lab = [a \in Addr |-> IF a \in gone
             THEN [m.lab[a] EXCEPT !.st = "closed", !.close = e]
             ELSE m.lab[a]]]
  <2>1. doRemoveLink(m, l) = [m EXCEPT !.lab = [a \in Addr |-> IF a \in gone THEN new(a) ELSE m.lab[a]]]
    BY <1>5, Zenon DEF doRemoveLink
  <2>2. ASSUME NEW a \in Addr, a \in gone PROVE new(a) = [m.lab[a] EXCEPT !.st = "closed", !.close = e]
    <3>1. m.lab[a].st = "alloc" /\ m.lab[a] \in Label
      BY <1>3, <1>4, <2>2, LabelIs
    <3> HIDE DEF e, kids, gone
    <3> QED
      BY <3>1 DEF Label
  <2> HIDE DEF e, kids, gone, new
  <2>3. [a \in Addr |-> IF a \in gone THEN new(a) ELSE m.lab[a]] =
        [a \in Addr |-> IF a \in gone THEN [m.lab[a] EXCEPT !.st = "closed", !.close = e] ELSE m.lab[a]]
    BY <2>2
  <2> QED
    BY <2>1, <2>3, Zenon
<1> HIDE DEF e, kids, gone
<1> DEFINE m2 == doRemoveLink(m, l)
<1>9. m2 = ClosedAs(m, gone, e)
  BY <1>6, Zenon DEF ClosedAs
<1> HIDE DEF m2
<1>7. /\ m2 \in Image
      /\ m2.sup = m.sup /\ m2.snap = m.snap /\ m2.kid = m.kid
      /\ \A a \in Addr : /\ m2.lab[a].type = m.lab[a].type /\ m2.lab[a].epoch = m.lab[a].epoch
                         /\ m2.lab[a].copied = m.lab[a].copied
                         /\ a \in gone => m2.lab[a].st = "closed" /\ m2.lab[a].close = e
                         /\ a \notin gone => m2.lab[a] = m.lab[a]
  BY <1>2, <1>9, CloseIs
<1>8. ClosedTo(m, m2, l)
  BY <1>1, <1>4, <1>7 DEF ClosedTo
<1> QED
  BY <1>7, <1>8 DEF m2

(* Closing the blocks of a good link keeps the books: they are in no tree  *)
(* of the epoch they are closed with, or of a later one.                   *)
LEMMA BookClose ==
  ASSUME NEW m \in Image, NEW m2 \in Image, NEW rt, Book(m, rt), NEW l \in Link, Good(m, rt, l),
         ClosedTo(m, m2, l)
  PROVE  Book(m2, rt)
<1>1. /\ m2.sup = m.sup /\ m2.snap = m.snap /\ m2.kid = m.kid /\ Eras(m2) = Eras(m)
      /\ \A a \in Addr : /\ m2.lab[a].type = m.lab[a].type /\ m2.lab[a].epoch = m.lab[a].epoch
                         /\ m2.lab[a].copied = m.lab[a].copied
  BY DEF ClosedTo, Eras
<1>2. /\ Roots(m, rt) /\ Trees(m, rt) /\ Between(m, rt) /\ Copied(m, rt) /\ Leaves(m) /\ Past(m)
      /\ m.kid \in Kd
      /\ \A e \in Eras(m) : rt[e] \in Addr /\ e \in Nat
  <2>1. Roots(m, rt) /\ Trees(m, rt) /\ Between(m, rt) /\ Copied(m, rt) /\ Leaves(m) /\ Past(m)
    BY DEF Book
  <2> QED
    BY <2>1, KeptIs, ImageIs
<1>3. Roots(m2, rt)
  <2>1. \A e \in Eras(m) : m2.lab[rt[e]].type = "root" /\ m2.lab[rt[e]].epoch = e
    BY <1>1, <1>2 DEF Roots
  <2> QED
    BY <2>1, <1>1, <1>2 DEF Roots
<1>4. ASSUME NEW e \in Eras(m) PROVE Sound(m2.kid, rt[e]) /\ Typed(m2, rt[e]) /\ Alive(m2, rt[e], e)
  <2>1. Sound(m.kid, rt[e]) /\ Typed(m, rt[e]) /\ Alive(m, rt[e], e)
    BY <1>2 DEF Trees
  <2>2. ASSUME NEW a \in Addr, NEW s \in Slot, Holds(m.kid, rt[e], a), m.kid[a][s] # Nil
        PROVE  /\ m2.lab[m.kid[a][s].to].type = m.kid[a][s].type
               /\ m2.lab[m.kid[a][s].to].epoch <= m2.lab[a].epoch
    <3>1. m.kid[a][s].to \in Addr
      BY <2>2, <1>2, PtrIs
    <3> QED
      BY <2>1, <2>2, <3>1, <1>1 DEF Typed
  <2>3. ASSUME NEW x \in Addr, In(m.kid, rt[e], x)
        PROVE  /\ m2.lab[x].st # "free" /\ m2.lab[x].epoch \in 1..e
               /\ m2.lab[x].st = "closed" => m2.lab[x].close > e
    <3>1. /\ m.lab[x].st # "free" /\ m.lab[x].epoch \in 1..e
          /\ m.lab[x].st = "closed" => m.lab[x].close > e
      BY <2>1, <2>3 DEF Alive
    <3>2. CASE Claims(m.kid, l, x)
      <4>1. End(m, l) \in Nat /\ ~(e >= End(m, l)) /\ e \in Nat
        BY <2>3, <3>2, <1>2, EndIs DEF Good
      <4> QED
        BY <3>1, <3>2, <4>1 DEF ClosedTo
    <3>3. CASE ~Claims(m.kid, l, x)
      BY <3>1, <3>3 DEF ClosedTo
    <3> QED
      BY <3>2, <3>3
  <2> QED
    BY <2>1, <2>2, <2>3, <1>1 DEF Typed, Alive
<1>5. Trees(m2, rt)
  BY <1>1, <1>4 DEF Trees
<1>6. Between(m2, rt) /\ Copied(m2, rt) /\ Leaves(m2)
  <2>1. Between(m2, rt)
    BY <1>1, <1>2 DEF Between
  <2>2. Copied(m2, rt)
    BY <1>1, <1>2 DEF Copied
  <2> QED
    BY <2>1, <2>2, <1>1, <1>2 DEF Leaves
<1>7. Past(m2)
  <2> SUFFICES ASSUME NEW a \in Addr
               PROVE  m2.lab[a].st # "bad" /\ (m2.lab[a].st = "closed" => m2.lab[a].close <= m.sup.ehi)
    BY <1>1 DEF Past
  <2>1. CASE Claims(m.kid, l, a)
    BY <2>1 DEF ClosedTo, Good
  <2>2. CASE ~Claims(m.kid, l, a)
    BY <2>2, <1>2 DEF ClosedTo, Past
  <2> QED
    BY <2>1, <2>2
<1> QED
  BY <1>3, <1>5, <1>6, <1>7 DEF Book

(* The other links stay good.                                              *)
LEMMA LinksClose ==
  ASSUME NEW m \in Image, NEW m2 \in Image, NEW rt, NEW l \in Link, ClosedTo(m, m2, l),
         NEW ls \in Queues, Links(m, rt, ls),
         \A x \in Addr : Claims(m.kid, l, x) => ~Pending(m.kid, ls, x)
  PROVE  /\ Links(m2, rt, ls)
         /\ \A x \in Addr : m2.lab[x].st = "alloc" <=> m.lab[x].st = "alloc" /\ ~Claims(m.kid, l, x)
<1>1. /\ m2.sup = m.sup /\ m2.kid = m.kid /\ Eras(m2) = Eras(m)
      /\ \A a \in Addr : /\ m2.lab[a].type = m.lab[a].type /\ m2.lab[a].epoch = m.lab[a].epoch
                         /\ Claims(m.kid, l, a) => m2.lab[a].st = "closed"
                         /\ ~Claims(m.kid, l, a) => m2.lab[a] = m.lab[a]
  BY DEF ClosedTo, Eras
<1>2. ASSUME NEW c \in Place, NEW i \in DOMAIN ls[c] PROVE Good(m2, rt, ls[c][i])
  <2> DEFINE k == ls[c][i]
  <2>1. Good(m, rt, k) /\ k.addr \in Addr
    BY LinkIs DEF Links
  <2>2. \A x \in Addr : Claims(m.kid, k, x) => ~Claims(m.kid, l, x)
    BY DEF Pending
  <2> HIDE DEF k
  <2>3. End(m2, k) = End(m, k)
    BY <2>1, <1>1 DEF End, closeEpoch
  <2>4. Good(m2, rt, k)
    BY <2>1, <2>2, <2>3, <1>1 DEF Good
  <2> QED
    BY <2>4 DEF k
<1>3. Links(m2, rt, ls)
  BY <1>1, <1>2 DEF Links
<1> QED
  BY <1>1, <1>3

-----------------------------------------------------------------------------
(* The low epoch is raised.                                                *)
LEMMA BookLow ==
  ASSUME NEW m \in Image, NEW m2 \in Image, NEW rt, Book(m, rt), NEW low \in Epoch,
         low > m.sup.elo, low <= m.sup.ehi,
         m2.kid = m.kid, m2.lab = m.lab, m2.snap = m.snap, m2.sup = [m.sup EXCEPT !.elo = low]
  PROVE  /\ Book(m2, rt)
         /\ Eras(m2) \subseteq Eras(m)
         /\ \A ls \in Queues : Links(m, rt, ls) => Links(m2, rt, ls)
<1>1. /\ m2.sup.elo = low /\ m2.sup.ehi = m.sup.ehi /\ m2.sup.active = m.sup.active
      /\ low \in Nat /\ m.sup.ehi \in Nat /\ m.sup.elo \in Nat
  BY ImageIs, EpochIs
<1>2. Eras(m2) \subseteq Eras(m) /\ low \in Eras(m) /\ \A e \in Eras(m2) : e \in Nat /\ e >= low
  BY <1>1 DEF Eras
<1>3. Roots(m, rt) /\ Trees(m, rt) /\ Between(m, rt) /\ Copied(m, rt) /\ Leaves(m) /\ Past(m)
  BY DEF Book
<1>4. Roots(m2, rt)
  <2>1. m.snap[rt[low]] = [to |-> rt[low-1], epoch |-> low-1]
    BY <1>2, <1>3 DEF Roots
  <2>2. m2.snap[rt[low]].epoch < low
    BY <2>1, <1>1
  <2>3. ASSUME NEW e \in Eras(m2)
        PROVE  /\ m2.lab[rt[e]].type = "root" /\ m2.lab[rt[e]].epoch = e
               /\ e > low => m2.snap[rt[e]] = [to |-> rt[e-1], epoch |-> e-1]
    <3>1. e \in Eras(m) /\ (e > low => e > m.sup.elo)
      BY <1>1, <1>2
    <3> QED
      BY <3>1, <1>3 DEF Roots
  <2>4. rt \in [Epoch -> Addr] /\ rt[m.sup.ehi] = m.sup.active
    BY <1>3 DEF Roots
  <2> QED
    BY <2>2, <2>3, <2>4, <1>1 DEF Roots
<1>5. Trees(m2, rt)
  BY <1>2, <1>3 DEF Trees, Typed, Alive
<1>6. Between(m2, rt) /\ Copied(m2, rt) /\ Leaves(m2) /\ Past(m2)
  BY <1>1, <1>2, <1>3 DEF Between, Copied, Leaves, Past
<1>7. ASSUME NEW l, Good(m, rt, l) PROVE Good(m2, rt, l)
  <2>1. End(m2, l) = End(m, l)
    BY DEF End, closeEpoch
  <2> QED
    BY <2>1, <1>1, <1>2, <1>7 DEF Good
<1>8. ASSUME NEW ls \in Queues, Links(m, rt, ls) PROVE Links(m2, rt, ls)
  BY <1>7, <1>8 DEF Links
<1> QED
  BY <1>2, <1>4, <1>5, <1>6, <1>8 DEF Book

-----------------------------------------------------------------------------
(* What the snapshots hold                                                 *)

(* The trees of past epochs are those that were saved, but for what        *)
(* sourceShrinkDepth zeroed.                                               *)
StillIn(m, x, r) ==
  \/ x \in Contents(m, r)
  \/ m.lab[x[1]].type = "ptr" /\ FirstZeroed(x) \in Contents(m, r)
Saved(m, sv, rt) == \A e \in Eras(m) : e < m.sup.ehi => \A x \in sv[e] : StillIn(m, x, rt[e])

(* What of a tree's contents is left when its blocks keep their pointers,  *)
(* or lose the first.                                                      *)
LEMMA ContentsAre ==
  ASSUME NEW m, NEW r \in Addr, m.kid \in Kd
  PROVE  Contents(m, r) = {<<b, m.kid[b]>> : b \in {b \in Addr : Holds(m.kid, r, b)}}
<1> DEFINE H(b) == b \in {r} \cup {p.to : p \in {p \in {m.kid[r][s] : s \in Slot} \ {Nil} : p.type = "ptr"}}
<1>1. \A b : H(b) <=> Holds(m.kid, r, b)
  BY DEF Holds
<1>2. \A b : Holds(m.kid, r, b) => b \in Addr
  BY HoldsIn
<1> QED
  BY <1>1, <1>2 DEF Contents, Blocks, Kids

(* Contents only looks at the holders of a tree.                           *)
LEMMA ContentsIs ==
  ASSUME NEW m, NEW m2, NEW r \in Addr,
         \A b \in Addr : Holds(m.kid, r, b) => m2.kid[b] = m.kid[b], m.kid \in Kd, m2.kid \in Kd
  PROVE  Contents(m2, r) = Contents(m, r)
<1>3. \A b : Holds(m2.kid, r, b) <=> Holds(m.kid, r, b)
  BY SameTree
<1>4. Contents(m, r) = {<<b, m.kid[b]>> : b \in {b \in Addr : Holds(m.kid, r, b)}}
  BY ContentsAre
<1>5. Contents(m2, r) = {<<b, m2.kid[b]>> : b \in {b \in Addr : Holds(m2.kid, r, b)}}
  BY ContentsAre
<1> QED
  BY <1>3, <1>4, <1>5

(* An operation leaves in the snapshots what was saved, but for the first  *)
(* pointer of a pointer block.                                             *)
LEMMA SavedStep ==
  ASSUME NEW m \in Image, NEW m2 \in Image, NEW rt, Book(m, rt), NEW D, NEW N, Stepped(m, m2, D, N),
         NEW sv, Saved(m, sv, rt)
  PROVE  Saved(m2, sv, rt)
<1> SUFFICES ASSUME NEW e \in Eras(m2), e < m2.sup.ehi, NEW x \in sv[e] PROVE StillIn(m2, x, rt[e])
  BY DEF Saved
<1>1. m2.sup = m.sup /\ e \in Eras(m) /\ e < m.sup.ehi /\ e # m.sup.ehi /\ rt[e] \in Addr
  <2>1. m2.sup = m.sup
    BY DEF Stepped
  <2>2. e \in Eras(m) /\ e < m.sup.ehi
    BY <2>1 DEF Eras
  <2>3. rt[e] \in Addr /\ e \in Nat
    BY <2>2, KeptIs DEF Book
  <2> QED
    BY <2>1, <2>2, <2>3
<1>2. \A b \in Addr : Holds(m.kid, rt[e], b) =>
        /\ b \notin N /\ m2.lab[b].type = m.lab[b].type /\ Holds(m2.kid, rt[e], b)
        /\ m2.kid[b] = m.kid[b] \/ Pruned(m, m2, b)
  <2>1. \A b \in Addr : Holds(m.kid, rt[e], b) =>
          b \notin N /\ Holds(m2.kid, rt[e], b) /\ (m2.kid[b] = m.kid[b] \/ Pruned(m, m2, b))
    <3>1. /\ \A a : Holds(m2.kid, rt[e], a) <=> Holds(m.kid, rt[e], a)
          /\ \A x1 \in Addr : In(m.kid, rt[e], x1) => x1 \notin N /\ (m2.kid[x1] = m.kid[x1] \/ Pruned(m, m2, x1))
      BY <1>1, OldTrees
    <3>2. \A b \in Addr : Holds(m.kid, rt[e], b) => In(m.kid, rt[e], b)
      BY <1>1, HoldsIn, ImageIs
    <3> QED
      BY <3>1, <3>2
  <2> QED
    BY <2>1 DEF Stepped
<1>3. /\ m.kid \in Kd /\ m2.kid \in Kd /\ 0 \in Slot
      /\ \A b \in Addr : m.kid[b] \in [Slot -> Ptr]
  BY ImageIs, SlotAssumption DEF Kd
<1>4. /\ Contents(m, rt[e]) = {<<b, m.kid[b]>> : b \in {b \in Addr : Holds(m.kid, rt[e], b)}}
      /\ Contents(m2, rt[e]) = {<<b, m2.kid[b]>> : b \in {b \in Addr : Holds(m2.kid, rt[e], b)}}
  BY <1>1, <1>3, ContentsAre
<1>5. StillIn(m, x, rt[e])
  BY <1>1 DEF Saved
<1>6. CASE x \in Contents(m, rt[e])
  <2>1. PICK b \in Addr : Holds(m.kid, rt[e], b) /\ x = <<b, m.kid[b]>>
    BY <1>4, <1>6
  <2>2. <<b, m2.kid[b]>> \in Contents(m2, rt[e])
    BY <2>1, <1>2, <1>4
  <2>3. ASSUME Pruned(m, m2, b) PROVE m2.lab[x[1]].type = "ptr" /\ FirstZeroed(x) = <<b, m2.kid[b]>>
    BY <2>1, <2>3, <1>2 DEF Pruned, FirstZeroed
  <2> QED
    BY <2>1, <2>2, <2>3, <1>2 DEF StillIn
<1>7. CASE m.lab[x[1]].type = "ptr" /\ FirstZeroed(x) \in Contents(m, rt[e])
  <2>1. PICK b \in Addr : Holds(m.kid, rt[e], b) /\ FirstZeroed(x) = <<b, m.kid[b]>>
    BY <1>4, <1>7
  <2>2. x[1] = b /\ m.kid[b] = [x[2] EXCEPT ![0] = Nil]
    BY <2>1 DEF FirstZeroed
  <2>3. [m.kid[b] EXCEPT ![0] = Nil] = m.kid[b]
    BY <2>2
  <2>4. m2.kid[b] = m.kid[b]
    BY <2>1, <2>3, <1>2 DEF Pruned
  <2>5. FirstZeroed(x) \in Contents(m2, rt[e]) /\ m2.lab[x[1]].type = "ptr"
    BY <2>1, <2>2, <2>4, <1>2, <1>4, <1>7
  <2> QED
    BY <2>5 DEF StillIn
<1> QED
  BY <1>5, <1>6, <1>7 DEF StillIn

(* So does a step that changes no pointer.                                 *)
LEMMA SavedSame ==
  ASSUME NEW m, NEW m2, m2.kid = m.kid, Eras(m2) \subseteq Eras(m), m2.sup.ehi = m.sup.ehi,
         NEW rt, NEW sv, Saved(m, sv, rt), \A a \in Addr : m2.lab[a].type = m.lab[a].type,
         m \in Image, rt \in [Epoch -> Addr], Eras(m) \subseteq Epoch
  PROVE  Saved(m2, sv, rt)
<1>1. \A r : Contents(m2, r) = Contents(m, r)
  BY DEF Contents, Kids
<1>2. ASSUME NEW e \in Eras(m2), NEW x \in sv[e], StillIn(m, x, rt[e]) PROVE StillIn(m2, x, rt[e])
  <2>1. CASE x \in Contents(m, rt[e])
    BY <2>1, <1>1 DEF StillIn
  <2>2. CASE m.lab[x[1]].type = "ptr" /\ FirstZeroed(x) \in Contents(m, rt[e])
    <3>1. rt[e] \in Addr /\ m.kid \in Kd
      BY ImageIs
    <3>2. PICK b \in Addr : FirstZeroed(x) = <<b, m.kid[b]>>
      BY <2>2, <3>1, ContentsAre
    <3>3. x[1] \in Addr
      BY <3>2 DEF FirstZeroed
    <3> QED
      BY <2>2, <3>3, <1>1 DEF StillIn
  <2> QED
    BY <1>2, <2>1, <2>2 DEF StillIn
<1> QED
  BY <1>2 DEF Saved

(* bumpEpoch saves what the new snapshot holds.                            *)
LEMMA SavedBump ==
  ASSUME NEW m \in Image, NEW m2 \in Image, NEW rt, Book(m, rt), NEW bb \in Addr, Allocatable(m, bb),
         m.sup.ehi < MaxEpoch, BumpTo(m, m2, bb), NEW sv \in [Epoch -> SUBSET (Addr \X [Slot -> Ptr])],
         Saved(m, sv, rt)
  PROVE  Saved(m2, [sv EXCEPT ![m.lab[m.sup.active].epoch] = Contents(m, m.sup.active)],
               [rt EXCEPT ![m.sup.ehi + 1] = bb])
<1> DEFINE r == m.sup.active
           hi == m.sup.ehi
           rt2 == [rt EXCEPT ![m.sup.ehi + 1] = bb]
           sv2 == [sv EXCEPT ![m.lab[m.sup.active].epoch] = Contents(m, m.sup.active)]
<1>1. /\ r \in Addr /\ hi \in Nat /\ hi \in Epoch /\ hi \in Eras(m) /\ rt[hi] = r
      /\ rt \in [Epoch -> Addr] /\ m.lab[r].epoch = hi /\ Eras(m) \subseteq Epoch
      /\ \A e \in Eras(m) : rt[e] \in Addr /\ e \in Nat /\ e <= hi
  BY NowIs, ImageIs, KeptIs DEF Book, Roots
<1>2. /\ m2.sup.ehi = hi + 1 /\ m2.sup.elo = m.sup.elo
      /\ \A e \in Eras(m) : rt2[e] = rt[e]
      /\ \A e : e \in Eras(m2) /\ e < hi + 1 => e \in Eras(m)
      /\ sv2[hi] = Contents(m, r) /\ \A e \in Epoch : e # hi => sv2[e] = sv[e]
  <2>1. m.sup.elo \in Nat
    BY ImageIs, EpochIs
  <2>2. m2.sup.ehi = hi + 1 /\ m2.sup.elo = m.sup.elo
    BY DEF BumpTo
  <2>3. \A e : e \in Eras(m2) /\ e < hi + 1 => e \in Eras(m)
    BY <2>1, <2>2, <1>1 DEF Eras
  <2>4. \A e \in Eras(m) : rt2[e] = rt[e]
    <3>1. \A e \in Eras(m) : e # hi + 1 /\ e \in Epoch
      BY <1>1
    <3> QED
      BY <3>1, <1>1
  <2>5. sv2[hi] = Contents(m, r) /\ \A e \in Epoch : e # hi => sv2[e] = sv[e]
    BY <1>1
  <2> QED
    BY <2>2, <2>3, <2>4, <2>5
<1> HIDE DEF rt2, sv2
<1>3. ASSUME NEW e \in Eras(m) PROVE Contents(m2, rt[e]) = Contents(m, rt[e])
  <2>1. ~In(m.kid, rt[e], bb)
    BY AllocOutside DEF Book
  <2>2. \A b \in Addr : Holds(m.kid, rt[e], b) => m2.kid[b] = m.kid[b]
    BY <2>1, <1>1, HoldsIn, ImageIs DEF BumpTo
  <2> QED
    BY <2>2, <1>1, ContentsIs, ImageIs
<1>5. ASSUME NEW e \in Eras(m), NEW x, StillIn(m, x, rt[e]) PROVE StillIn(m2, x, rt[e])
  <2>1. CASE x \in Contents(m, rt[e])
    BY <2>1, <1>3 DEF StillIn
  <2>2. CASE m.lab[x[1]].type = "ptr" /\ FirstZeroed(x) \in Contents(m, rt[e])
    <3>1. rt[e] \in Addr /\ m.kid \in Kd
      BY <1>1, ImageIs
    <3>2. PICK b \in Addr : Holds(m.kid, rt[e], b) /\ FirstZeroed(x) = <<b, m.kid[b]>>
      BY <2>2, <3>1, ContentsAre
    <3>3. x[1] = b /\ b # bb
      BY <3>1, <3>2, AllocOutside, HoldsIn DEF FirstZeroed, Book
    <3>4. m2.lab[b].type = m.lab[b].type
      BY <3>3 DEF BumpTo
    <3> QED
      BY <2>2, <3>3, <3>4, <1>3 DEF StillIn
  <2> QED
    BY <1>5, <2>1, <2>2 DEF StillIn
<1>4. ASSUME NEW e \in Eras(m2), e < m2.sup.ehi, NEW x \in sv2[e] PROVE StillIn(m2, x, rt2[e])
  <2>1. e \in Eras(m) /\ e \in Nat /\ e <= hi /\ e \in Epoch
    BY <1>4, <1>1, <1>2
  <2>2. CASE e = hi
    BY <2>1, <2>2, <1>1, <1>2, <1>3, <1>4 DEF StillIn
  <2>3. CASE e # hi
    <3>1. e < hi
      BY <2>1, <2>3, <1>1
    <3>2. StillIn(m, x, rt[e])
      BY <2>1, <2>3, <3>1, <1>2, <1>4 DEF Saved
    <3> QED
      BY <2>1, <3>2, <1>2, <1>5
  <2> QED
    BY <2>2, <2>3
<1> QED
  BY <1>4 DEF Saved, rt2, sv2

-----------------------------------------------------------------------------
(* The links after an operation that drops D from the tree                 *)
Dropping(m, m2, D, l) ==
  /\ l \in Link /\ l.epoch = m.sup.ehi /\ m.lab[l.addr].type = l.type
  /\ l.addr \in D
  /\ \A x \in Addr : Claims(m2.kid, l, x) <=> x \in D

AddedTo(ls, ls2, p, l) ==
  ls2 \in Queues /\ \A c \in Place : ls2[c] = IF c = p THEN Append(ls[p], l) ELSE ls[c]

(* An operation that drops D and queues the link for it keeps the links    *)
(* good, and no open block is lost.                                        *)
LEMMA OpLinks ==
  ASSUME NEW m \in Image, NEW m2 \in Image, NEW rt, Book(m, rt), NEW D, NEW N, Stepped(m, m2, D, N),
         NEW ls \in Queues, Links(m, rt, ls), Open(m, rt, ls, FALSE), NEW l, Dropping(m, m2, D, l),
         NEW p \in Place, NEW ls2, AddedTo(ls, ls2, p, l)
  PROVE  Links(m2, rt, ls2) /\ Open(m2, rt, ls2, FALSE)
<1> DEFINE r == m.sup.active
<1>1. /\ Links(m2, rt, ls)
      /\ \A x \in Addr : Pending(m2.kid, ls, x) <=> Pending(m.kid, ls, x)
      /\ \A x \in Addr : Pending(m.kid, ls, x) => x \notin N /\ ~In(m.kid, r, x)
  BY LinksStep
<1>2. /\ m2.sup = m.sup /\ D \subseteq Addr /\ N \subseteq Addr
      /\ \A a \in D : In(m.kid, r, a)
      /\ \A x \in Addr : In(m2.kid, r, x) <=> (In(m.kid, r, x) /\ x \notin D) \/ x \in N
      /\ \A a \in N : Allocatable(m, a)
      /\ \A a \in Addr \ N : /\ m2.lab[a].st = m.lab[a].st /\ m2.lab[a].type = m.lab[a].type
                             /\ m2.lab[a].epoch = m.lab[a].epoch
  BY DEF Stepped
<1>3. /\ l \in Link /\ l.epoch = m.sup.ehi /\ m.lab[l.addr].type = l.type /\ l.addr \in D
      /\ \A x \in Addr : Claims(m2.kid, l, x) <=> x \in D
  BY DEF Dropping
<1>4. \A x \in D : x \notin N /\ m.lab[x].st = "alloc" /\ m.lab[x].epoch <= m.sup.ehi
  BY <1>2, InNow
<1>5. m.sup.ehi \in Nat /\ m.sup.ehi >= 1 /\ End(m2, l) = m.sup.ehi
  <2>1. m.sup.ehi \in Nat /\ m.sup.ehi >= 1
    BY ImageIs, EpochIs
  <2> QED
    BY <2>1, <1>3 DEF End, closeEpoch
<1>6. Good(m2, rt, l)
  <2>1. m2.lab[l.addr].type = l.type
    BY <1>2, <1>3, <1>4
  <2>2. ASSUME NEW x \in D
        PROVE  /\ m2.lab[x].st = "alloc" /\ m2.lab[x].epoch <= m.sup.ehi
               /\ \A e \in Eras(m2) : e >= m.sup.ehi => ~In(m2.kid, rt[e], x)
    <3>1. ~In(m2.kid, r, x)
      BY <1>2, <1>4
    <3>2. \A e \in Eras(m2) : e >= m.sup.ehi => rt[e] = r
      <4>1. \A e \in Eras(m) : e \in Nat /\ e <= m.sup.ehi
        BY KeptIs DEF Book
      <4>2. Eras(m2) = Eras(m) /\ rt[m.sup.ehi] = r
        BY <1>2, NowIs DEF Eras
      <4> QED
        BY <4>1, <4>2, <1>5
    <3> QED
      BY <3>1, <3>2, <1>2, <1>4
  <2> QED
    BY <2>1, <2>2, <1>2, <1>3, <1>5 DEF Good
<1>7. \A x \in Addr : Claims(m2.kid, l, x) => ~Pending(m2.kid, ls, x)
  BY <1>1, <1>2, <1>3
<1>8. /\ Links(m2, rt, ls2)
      /\ \A x \in Addr : Pending(m2.kid, ls2, x) <=> Pending(m2.kid, ls, x) \/ Claims(m2.kid, l, x)
  <2>1. ls2 \in Queues /\ \A c \in Place : ls2[c] = IF c = p THEN Append(ls[p], l) ELSE ls[c]
    BY DEF AddedTo
  <2> QED
    BY <2>1, <1>1, <1>3, <1>6, <1>7, LinksAdd
<1>9. Open(m2, rt, ls2, FALSE)
  <2> SUFFICES ASSUME NEW x \in Addr, m2.lab[x].st = "alloc", x \notin D, ~Pending(m.kid, ls, x)
               PROVE  In(m2.kid, r, x)
    BY <1>1, <1>2, <1>3, <1>8 DEF Open
  <2>1. CASE x \in N
    BY <2>1, <1>2
  <2>2. CASE x \notin N
    BY <2>2, <1>2 DEF Open
  <2> QED
    BY <2>1, <2>2
<1> QED
  BY <1>8, <1>9

(* The same for an operation that drops nothing.                           *)
LEMMA OpNoLinks ==
  ASSUME NEW m \in Image, NEW m2 \in Image, NEW rt, Book(m, rt), NEW N, Stepped(m, m2, {}, N),
         NEW ls \in Queues, Links(m, rt, ls), Open(m, rt, ls, FALSE)
  PROVE  Links(m2, rt, ls) /\ Open(m2, rt, ls, FALSE)
<1> DEFINE r == m.sup.active
<1>1. /\ Links(m2, rt, ls)
      /\ \A x \in Addr : Pending(m2.kid, ls, x) <=> Pending(m.kid, ls, x)
  BY LinksStep
<1>2. /\ m2.sup = m.sup
      /\ \A x \in Addr : In(m2.kid, r, x) <=> In(m.kid, r, x) \/ x \in N
      /\ \A a \in Addr \ N : m2.lab[a].st = m.lab[a].st
  BY DEF Stepped
<1>3. Open(m2, rt, ls, FALSE)
  BY <1>1, <1>2 DEF Open
<1> QED
  BY <1>1, <1>3

-----------------------------------------------------------------------------
(* The invariant without the cache's own state                             *)

(* The links that the operations queue                                     *)
LEMMA NewLink ==
  ASSUME NEW a \in Addr, NEW type \in {"root", "ptr", "data"}, NEW e \in 0..MaxEpoch, NEW recurse \in BOOLEAN
  PROVE  /\ link(a, type, e, recurse) \in Link
         /\ link(a, type, e, recurse).addr = a /\ link(a, type, e, recurse).type = type
         /\ link(a, type, e, recurse).epoch = e /\ link(a, type, e, recurse).recurse = recurse
BY DEF link, Link

(* A pointer of the current tree, held by p                                *)
LEMMA HeldIs ==
  ASSUME NEW m \in Image, NEW rt, Book(m, rt), NEW p \in Addr, NEW s \in Slot,
         Holds(m.kid, m.sup.active, p), m.kid[p][s] # Nil
  PROVE  /\ m.kid[p][s].to \in Addr /\ m.kid[p][s].type \in {"data", "ptr"}
         /\ m.lab[m.kid[p][s].to].type = m.kid[p][s].type
         /\ m.kid[p][s].to # p /\ m.kid[p][s].to # m.sup.active
         /\ In(m.kid, m.sup.active, m.kid[p][s].to)
<1>1. m.kid \in Kd /\ Sound(m.kid, m.sup.active) /\ Typed(m, m.sup.active)
  BY NowIs, ImageIs
<1>2. /\ m.kid[p][s].to \in Addr /\ m.kid[p][s].type \in {"data", "ptr"}
      /\ In(m.kid, m.sup.active, m.kid[p][s].to)
  BY <1>1, PtrIs, HolderType
<1>3. m.lab[m.kid[p][s].to].type = m.kid[p][s].type
  BY <1>1 DEF Typed
<1>4. m.kid[p][s].to # m.sup.active /\ (p # m.sup.active => m.kid[p][s].type = "data")
  BY <1>1 DEF Sound
<1>5. p # m.sup.active => m.lab[p].type # "data"
  BY NotData
<1> QED
  BY <1>2, <1>3, <1>4, <1>5

(* The link queued by a copy claims the block that was copied alone.       *)
LEMMA DropCopy ==
  ASSUME NEW m \in Image, NEW rt, Book(m, rt), NEW p \in Addr, NEW s \in Slot,
         NEW o, CanCopy(m, p, s, o), NEW m2
  PROVE  Dropping(m, m2, {o}, link(o, m.kid[p][s].type, m.lab[p].epoch, FALSE))
<1> DEFINE l == link(o, m.kid[p][s].type, m.lab[p].epoch, FALSE)
<1> HIDE DEF l
<1>a. /\ Holds(m.kid, m.sup.active, p) /\ m.lab[p].epoch = m.sup.ehi
      /\ m.kid[p][s] # Nil /\ m.kid[p][s].to = o
  BY DEF CanCopy
<1>1. o \in Addr /\ m.lab[o].type = m.kid[p][s].type /\ m.kid[p][s].type \in {"data", "ptr"}
  BY <1>a, HeldIs
<1>2. /\ l \in Link /\ l.addr = o /\ l.type = m.kid[p][s].type /\ l.epoch = m.sup.ehi /\ l.recurse = FALSE
  <2>1. m.lab[p].epoch \in 0..MaxEpoch
    BY LabelIs
  <2> QED
    <3>1. link(o, m.kid[p][s].type, m.lab[p].epoch, FALSE) \in Link
      BY <2>1, <1>1, NewLink
    <3> QED
      BY <3>1, <1>a DEF l, link
<1>3. \A x \in Addr : Claims(m2.kid, l, x) <=> x \in {o}
  BY <1>2 DEF Claims
<1>4. Dropping(m, m2, {o}, l)
  BY <1>1, <1>2, <1>3 DEF Dropping
<1> QED
  BY <1>4 DEF l

(* That of a removal claims all below the pointer.                         *)
LEMMA DropCut ==
  ASSUME NEW m \in Image, NEW rt, Book(m, rt), NEW p \in Addr, NEW s \in Slot,
         Holds(m.kid, m.sup.active, p), m.lab[p].epoch = m.sup.ehi, m.kid[p][s] # Nil
  PROVE  Dropping(m, Zeroed(m, p, s), Below2(m.kid, p, s),
                  link(m.kid[p][s].to, m.kid[p][s].type, m.lab[p].epoch, TRUE))
<1> DEFINE o == m.kid[p][s].to
           ty == m.kid[p][s].type
           m2 == Zeroed(m, p, s)
           D == Below2(m.kid, p, s)
           l == link(m.kid[p][s].to, m.kid[p][s].type, m.lab[p].epoch, TRUE)
<1>1. o \in Addr /\ m.lab[o].type = ty /\ ty \in {"data", "ptr"} /\ o # p
  BY HeldIs
<1>2. /\ l \in Link /\ l.addr = o /\ l.type = ty /\ l.epoch = m.sup.ehi /\ l.recurse = TRUE
  <2>1. m.lab[p].epoch \in 0..MaxEpoch /\ m.kid[p][s].type \in {"root", "ptr", "data"} /\ TRUE \in BOOLEAN
    BY <1>1, LabelIs
  <2> QED
    BY <2>1, <1>1 DEF link, Link
<1>3. \A t \in Slot : m2.kid[o][t] = m.kid[o][t]
  BY <1>1, CutIs2
<1>4. \A x : x \in D <=> x = o \/ (ty = "ptr" /\ \E t \in Slot : m.kid[o][t] # Nil /\ m.kid[o][t].to = x)
  BY DEF Below2
<1> HIDE DEF o, l, D, ty, m2
<1>5. \A x \in Addr : Claims(m2.kid, l, x) <=> x \in D
  BY <1>2, <1>3, <1>4 DEF Claims, Has
<1>6. Dropping(m, m2, D, l)
  BY <1>1, <1>2, <1>4, <1>5 DEF Dropping
<1> QED
  BY <1>6 DEF o, l, D, m2, ty

(* That of sourceShrinkDepth claims the pointer block and what is still    *)
(* below it.                                                               *)
LEMMA DropShrink ==
  ASSUME NEW m \in Image, NEW rt, Book(m, rt), NEW s \in Slot, NEW o, CanShrink(m, s, o)
  PROVE  Dropping(m, Shrunk(m, s), Shed(m, o), link(o, "ptr", m.lab[m.sup.active].epoch, TRUE))
<1> DEFINE r == m.sup.active
           m2 == Shrunk(m, s)
           D == Shed(m, o)
           l == link(o, "ptr", m.lab[r].epoch, TRUE)
<1> HIDE DEF l, D, m2
<1>0. r \in Addr /\ Holds(m.kid, r, r) /\ m.lab[r].epoch = m.sup.ehi
  BY NowIs, Zenon DEF Holds
<1>a. m.kid[r][s] # Nil /\ m.kid[r][s].type = "ptr" /\ m.kid[r][s].to = o
  BY DEF CanShrink
<1>1. o \in Addr /\ m.lab[o].type = "ptr" /\ o # r
  BY <1>0, <1>a, HeldIs
<1>2. /\ l \in Link /\ l.addr = o /\ l.type = "ptr" /\ l.epoch = m.sup.ehi /\ l.recurse = TRUE
  <2>1. m.lab[r].epoch \in 0..MaxEpoch
    BY <1>0, LabelIs
  <2>2. link(o, "ptr", m.lab[r].epoch, TRUE) \in Link /\ "ptr" \in {"root", "ptr", "data"} /\ TRUE \in BOOLEAN
    BY <2>1, <1>1, NewLink
  <2> QED
    BY <2>2, <1>0 DEF l, link
<1>3. \A t \in Slot : m2.kid[o][t] = IF t = 0 THEN Nil ELSE m.kid[o][t]
  <2>1. \A a \in Addr, t \in Slot : m2.kid[a][t] =
           IF a = o /\ t = 0 THEN Nil ELSE IF a = r /\ t = s THEN m.kid[o][0] ELSE m.kid[a][t]
    BY ShrunkIs DEF m2
  <2> QED
    BY <2>1, <1>1, Zenon
<1>4. \A x \in Addr : x \in D <=> x = o \/ \E t \in Slot : t # 0 /\ Has(m.kid, o, t, x)
  BY Zenon DEF D, Shed
<1>5. o \in D
  BY <1>1, <1>4
<1>6. \A x \in Addr : Claims(m2.kid, l, x) <=> x \in D
  <2>1. \A x, t : t \in Slot => (Has(m2.kid, o, t, x) <=> t # 0 /\ Has(m.kid, o, t, x))
    BY <1>3 DEF Has
  <2>2. \A x \in Addr : Claims(m2.kid, l, x) <=> x = o \/ \E t \in Slot : Has(m2.kid, o, t, x)
    BY <1>2 DEF Claims
  <2> QED
    BY <2>1, <2>2, <1>4
<1>7. Dropping(m, m2, D, l)
  BY <1>1, <1>2, <1>5, <1>6 DEF Dropping
<1> QED
  BY <1>7, Zenon DEF l, D, m2

-----------------------------------------------------------------------------
(* uhead and the unlink queue as one family of queues                      *)
Ls(u, q) == [c \in Place |-> IF c = Nil THEN q ELSE u[c]]

(* The queues of the blocks and of the unlink thread, as one.              *)
LEMMA LsIs ==
  ASSUME NEW u \in [Blk -> Seq(Link)], NEW q \in Seq(Link)
  PROVE  /\ Ls(u, q) \in Queues
         /\ Ls(u, q)[Nil] = q
         /\ \A b \in Blk : b # Nil /\ b \in Place /\ Ls(u, q)[b] = u[b]
         /\ Nil \in Place
<1>1. Nil \notin Blk
  BY NilAssumption
<1> QED
  BY <1>1 DEF Ls, Place, Queues

(* All of it                                                               *)
Core(m, u, q, sv, forcing, rt) ==
  /\ m \in Image /\ u \in [Blk -> Seq(Link)] /\ q \in Seq(Link)
  /\ sv \in [Epoch -> SUBSET (Addr \X [Slot -> Ptr])]
  /\ Book(m, rt) /\ Links(m, rt, Ls(u, q)) /\ Open(m, rt, Ls(u, q), forcing)
  /\ Forced(m, rt, Ls(u, q), forcing) /\ Saved(m, sv, rt)

(* An operation that drops nothing                                         *)
LEMMA CoreKeep ==
  ASSUME NEW m, NEW m2 \in Image, NEW u, NEW q, NEW sv, NEW rt, Core(m, u, q, sv, FALSE, rt),
         NEW N, Stepped(m, m2, {}, N)
  PROVE  Core(m2, u, q, sv, FALSE, rt)
<1>1. /\ m \in Image /\ u \in [Blk -> Seq(Link)] /\ q \in Seq(Link)
      /\ sv \in [Epoch -> SUBSET (Addr \X [Slot -> Ptr])]
      /\ Book(m, rt) /\ Links(m, rt, Ls(u, q)) /\ Open(m, rt, Ls(u, q), FALSE) /\ Saved(m, sv, rt)
  BY DEF Core
<1>2. Ls(u, q) \in Queues
  BY <1>1, LsIs
<1>3. Book(m2, rt)
  BY <1>1, BookStep
<1>4. Links(m2, rt, Ls(u, q)) /\ Open(m2, rt, Ls(u, q), FALSE)
  BY <1>1, <1>2, OpNoLinks
<1>5. Saved(m2, sv, rt)
  BY <1>1, SavedStep
<1> QED
  BY <1>1, <1>3, <1>4, <1>5 DEF Core, Forced

(* One that drops D from p                                                 *)
LEMMA CoreDrop ==
  ASSUME NEW m, NEW m2 \in Image, NEW u, NEW q, NEW sv, NEW rt, Core(m, u, q, sv, FALSE, rt),
         NEW D, NEW N, Stepped(m, m2, D, N), NEW l, Dropping(m, m2, D, l), NEW p \in Blk
  PROVE  Core(m2, [u EXCEPT ![p] = Append(@, l)], q, sv, FALSE, rt)
<1> DEFINE u2 == [u EXCEPT ![p] = Append(@, l)]
<1>1. /\ m \in Image /\ u \in [Blk -> Seq(Link)] /\ q \in Seq(Link)
      /\ sv \in [Epoch -> SUBSET (Addr \X [Slot -> Ptr])]
      /\ Book(m, rt) /\ Links(m, rt, Ls(u, q)) /\ Open(m, rt, Ls(u, q), FALSE) /\ Saved(m, sv, rt)
  BY DEF Core
<1>2. l \in Link
  BY DEF Dropping
<1>3. u2 \in [Blk -> Seq(Link)] /\ \A b \in Blk : u2[b] = IF b = p THEN Append(u[p], l) ELSE u[b]
  BY <1>1, <1>2
<1> HIDE DEF u2
<1>4. Ls(u, q) \in Queues /\ Ls(u2, q) \in Queues /\ p \in Place
  BY <1>1, <1>3, LsIs
<1>5. AddedTo(Ls(u, q), Ls(u2, q), p, l)
  <2>1. ASSUME NEW c \in Place
        PROVE  Ls(u2, q)[c] = IF c = p THEN Append(Ls(u, q)[p], l) ELSE Ls(u, q)[c]
    <3>1. p # Nil /\ (c # Nil => c \in Blk)
      BY LsIs, NilAssumption DEF Place
    <3>2. /\ Ls(u2, q)[c] = IF c = Nil THEN q ELSE u2[c]
          /\ Ls(u, q)[c] = IF c = Nil THEN q ELSE u[c]
          /\ Ls(u, q)[p] = IF p = Nil THEN q ELSE u[p]
      BY <1>4 DEF Ls
    <3> QED
      BY <3>1, <3>2, <1>3
  <2> QED
    BY <2>1, <1>4 DEF AddedTo
<1>6. Book(m2, rt)
  BY <1>1, BookStep
<1>7. Links(m2, rt, Ls(u2, q)) /\ Open(m2, rt, Ls(u2, q), FALSE)
  BY <1>1, <1>4, <1>5, OpLinks
<1>8. Saved(m2, sv, rt)
  BY <1>1, SavedStep
<1>9. Core(m2, u2, q, sv, FALSE, rt)
  BY <1>1, <1>3, <1>6, <1>7, <1>8 DEF Core, Forced
<1> QED
  BY <1>9 DEF u2

(* bumpEpoch keeps the invariant, for the epoch that it opens; the old     *)
(* root waits for superWrite.                                              *)
LEMMA CoreBump ==
  ASSUME NEW m, NEW m2 \in Image, NEW u, NEW q, NEW sv, NEW rt, Core(m, u, q, sv, FALSE, rt),
         NEW bb \in Addr, Allocatable(m, bb), m.sup.ehi < MaxEpoch, BumpTo(m, m2, bb)
  PROVE  Core(m2, u, q, [sv EXCEPT ![m.lab[m.sup.active].epoch] = Contents(m, m.sup.active)], TRUE,
              [rt EXCEPT ![m.sup.ehi + 1] = bb])
<1> DEFINE sv2 == [sv EXCEPT ![m.lab[m.sup.active].epoch] = Contents(m, m.sup.active)]
           rt2 == [rt EXCEPT ![m.sup.ehi + 1] = bb]
<1>1. /\ m \in Image /\ u \in [Blk -> Seq(Link)] /\ q \in Seq(Link)
      /\ sv \in [Epoch -> SUBSET (Addr \X [Slot -> Ptr])]
      /\ Book(m, rt) /\ Links(m, rt, Ls(u, q)) /\ Open(m, rt, Ls(u, q), FALSE) /\ Saved(m, sv, rt)
  BY DEF Core
<1>2. Ls(u, q) \in Queues
  BY <1>1, LsIs
<1>3. Book(m2, rt2)
  BY <1>1, BookBump
<1>4. Links(m2, rt2, Ls(u, q)) /\ Open(m2, rt2, Ls(u, q), TRUE) /\ Forced(m2, rt2, Ls(u, q), TRUE)
  BY <1>1, <1>2, LinksBump
<1>5. Saved(m2, sv2, rt2)
  BY <1>1, SavedBump
<1>6. sv2 \in [Epoch -> SUBSET (Addr \X [Slot -> Ptr])]
  <2>1. Contents(m, m.sup.active) \subseteq Addr \X [Slot -> Ptr]
    <3>1. m.kid \in Kd /\ m.sup.active \in Addr
      BY <1>1, ImageIs
    <3>2. \A p \in Kids(m, m.sup.active) : p.to \in Addr
      BY <3>1, PtrIs DEF Kids
    <3>3. \A b \in {m.sup.active} \cup Blocks({p \in Kids(m, m.sup.active) : p.type = "ptr"}) : b \in Addr
      BY <3>1, <3>2 DEF Blocks
    <3>4. \A b \in Addr : <<b, m.kid[b]>> \in Addr \X [Slot -> Ptr]
      BY <3>1 DEF Kd
    <3> QED
      BY <3>3, <3>4 DEF Contents
  <2> QED
    BY <2>1, <1>1
<1> HIDE DEF sv2, rt2
<1>7. Core(m2, u, q, sv2, TRUE, rt2)
  BY <1>1, <1>3, <1>4, <1>5, <1>6 DEF Core
<1> QED
  BY <1>7 DEF sv2, rt2

(* The links of b are released.                                            *)
LEMMA CoreRelease ==
  ASSUME NEW m, NEW u, NEW q, NEW sv, NEW rt, NEW forcing, Core(m, u, q, sv, forcing, rt), NEW b \in Blk
  PROVE  Core(m, [u EXCEPT ![b] = <<>>], q \o u[b], sv, forcing, rt)
<1> DEFINE u2 == [u EXCEPT ![b] = <<>>]
           q2 == q \o u[b]
<1>1. /\ m \in Image /\ u \in [Blk -> Seq(Link)] /\ q \in Seq(Link)
      /\ sv \in [Epoch -> SUBSET (Addr \X [Slot -> Ptr])]
      /\ Book(m, rt) /\ Links(m, rt, Ls(u, q)) /\ Open(m, rt, Ls(u, q), forcing) /\ Saved(m, sv, rt)
      /\ Forced(m, rt, Ls(u, q), forcing)
  BY DEF Core
<1>2. u2 \in [Blk -> Seq(Link)] /\ q2 \in Seq(Link)
  BY <1>1
<1>3. Ls(u, q) \in Queues /\ Ls(u2, q2) \in Queues
  BY <1>1, <1>2, LsIs
<1>4. \A c \in Place : Ls(u2, q2)[c] = IF c = Nil THEN Ls(u, q)[Nil] \o Ls(u, q)[b] ELSE IF c = b THEN <<>> ELSE Ls(u, q)[c]
  <2> SUFFICES ASSUME NEW c \in Place
               PROVE  Ls(u2, q2)[c] = IF c = Nil THEN Ls(u, q)[Nil] \o Ls(u, q)[b]
                                      ELSE IF c = b THEN <<>> ELSE Ls(u, q)[c]
    OBVIOUS
  <2>1. b # Nil /\ (c # Nil => c \in Blk) /\ b \in Place /\ Nil \in Place
    BY NilAssumption DEF Place
  <2>2. ASSUME NEW d \in Place
        PROVE  /\ Ls(u2, q2)[d] = IF d = Nil THEN q2 ELSE u2[d]
               /\ Ls(u, q)[d] = IF d = Nil THEN q ELSE u[d]
    BY DEF Ls
  <2>3. \A d \in Blk : u2[d] = IF d = b THEN <<>> ELSE u[d]
    BY <1>1
  <2> QED
    BY <2>1, <2>2, <2>3
<1> HIDE DEF u2, q2
<1>5. /\ Links(m, rt, Ls(u2, q2))
      /\ \A x \in Addr : Pending(m.kid, Ls(u2, q2), x) <=> Pending(m.kid, Ls(u, q), x)
  BY <1>1, <1>3, <1>4, LinksMove
<1>6. Open(m, rt, Ls(u2, q2), forcing)
  BY <1>1, <1>5 DEF Open
<1>7. Forced(m, rt, Ls(u2, q2), forcing)
  <2>1. ASSUME forcing PROVE rt[m.sup.ehi - 1] \in Addr
    <3>1. m.sup.ehi - 1 \in Epoch /\ rt \in [Epoch -> Addr]
      <4>1. m.sup.elo \in Epoch /\ m.sup.ehi \in Epoch /\ m.sup.elo < m.sup.ehi /\ rt \in [Epoch -> Addr]
        BY <1>1, <2>1, ImageIs DEF Forced, Book, Roots
      <4> QED
        BY <4>1, BoundAssumption DEF Epoch
    <3> QED
      BY <3>1
  <2> QED
    BY <2>1, <1>1, <1>5 DEF Forced
<1>8. Core(m, u2, q2, sv, forcing, rt)
  BY <1>1, <1>2, <1>5, <1>6, <1>7 DEF Core
<1> QED
  BY <1>8 DEF u2, q2

(* A link that nothing else claims is removed.                             *)
LEMMA CoreClose ==
  ASSUME NEW m, NEW u, NEW q, NEW sv, NEW rt, NEW l \in Link,
         m \in Image /\ u \in [Blk -> Seq(Link)] /\ q \in Seq(Link),
         sv \in [Epoch -> SUBSET (Addr \X [Slot -> Ptr])],
         Book(m, rt), Links(m, rt, Ls(u, q)), Saved(m, sv, rt), Good(m, rt, l),
         \A x \in Addr : Claims(m.kid, l, x) => ~Pending(m.kid, Ls(u, q), x)
  PROVE  LET m2 == doRemoveLink(m, l) IN
         /\ m2 \in Image /\ Book(m2, rt) /\ Links(m2, rt, Ls(u, q)) /\ Saved(m2, sv, rt)
         /\ m2.kid = m.kid /\ m2.sup = m.sup
         /\ \A x \in Addr : m2.lab[x].st = "alloc" <=> m.lab[x].st = "alloc" /\ ~Claims(m.kid, l, x)
<1> DEFINE m2 == doRemoveLink(m, l)
<1>1. m2 \in Image /\ ClosedTo(m, m2, l)
  BY RemoveIs
<1> HIDE DEF m2
<1>2. Ls(u, q) \in Queues
  BY LsIs
<1>3. Book(m2, rt)
  BY <1>1, BookClose
<1>4. /\ Links(m2, rt, Ls(u, q))
      /\ \A x \in Addr : m2.lab[x].st = "alloc" <=> m.lab[x].st = "alloc" /\ ~Claims(m.kid, l, x)
  BY <1>1, <1>2, LinksClose
<1>5. m2.kid = m.kid /\ m2.sup = m.sup
  BY <1>1 DEF ClosedTo
<1>6. Saved(m2, sv, rt)
  <2>1. rt \in [Epoch -> Addr] /\ Eras(m) \subseteq Epoch
    BY KeptIs DEF Book, Roots
  <2>2. \A a \in Addr : m2.lab[a].type = m.lab[a].type
    BY <1>1 DEF ClosedTo
  <2>3. Eras(m2) \subseteq Eras(m) /\ m2.sup.ehi = m.sup.ehi
    BY <1>5 DEF Eras
  <2> QED
    BY <1>5, <2>1, <2>2, <2>3, SavedSame
<1> QED
  BY <1>1, <1>3, <1>4, <1>5, <1>6 DEF m2

(* The root of the snapshot just taken                                     *)
LEMMA ForcedRoot ==
  ASSUME NEW m \in Image, NEW rt, Book(m, rt), m.sup.elo < m.sup.ehi
  PROVE  /\ rt[m.sup.ehi - 1] \in Addr /\ m.snap[m.sup.active] # Nil
         /\ m.snap[m.sup.active].to = rt[m.sup.ehi - 1]
         /\ m.sup.ehi - 1 \in Eras(m) /\ m.sup.ehi - 1 \in Epoch
         /\ m.lab[rt[m.sup.ehi - 1]].type = "root" /\ m.lab[rt[m.sup.ehi - 1]].epoch = m.sup.ehi - 1
         /\ ~In(m.kid, m.sup.active, rt[m.sup.ehi - 1])
<1> DEFINE r == m.sup.active
           hi == m.sup.ehi
           x == rt[hi - 1]
<1>1. hi \in Epoch /\ m.sup.elo \in Epoch /\ hi \in Nat /\ m.sup.elo \in Nat /\ rt[hi] = r /\ hi \in Eras(m)
  BY ImageIs, EpochIs, NowIs
<1>2. hi - 1 \in Eras(m)
  BY <1>1 DEF Eras
<1>3. hi - 1 \in Epoch /\ x \in Addr
  BY <1>2, KeptIs DEF Book
<1>4. m.lab[x].type = "root" /\ m.lab[x].epoch = hi - 1
  BY <1>2 DEF Book, Roots
<1>5. m.snap[r] = [to |-> x, epoch |-> hi - 1]
  BY <1>1 DEF Book, Roots
<1>6. m.snap[r] # Nil /\ m.snap[r].to = x
  <2>1. [to |-> x, epoch |-> hi - 1] \in [to: Addr, epoch: Epoch]
    BY <1>3
  <2> QED
    BY <2>1, <1>5, NilAssumption
<1> HIDE DEF x
<1>7. ~In(m.kid, r, x)
  <2> SUFFICES ASSUME In(m.kid, r, x) PROVE FALSE
    OBVIOUS
  <2>1. x # r
    <3>1. m.lab[r].epoch = hi /\ hi # hi - 1
      BY <1>1, NowIs
    <3> QED
      BY <3>1, <1>4
  <2>2. PICK a \in Addr, s \in Slot : Holds(m.kid, r, a) /\ Has(m.kid, a, s, x)
    BY <2>1 DEF In
  <2>3. m.lab[x].type \in {"data", "ptr"}
    BY <2>2, HeldIs DEF Has
  <2> QED
    BY <2>3, <1>4
<1> QED
  BY <1>2, <1>3, <1>4, <1>6, <1>7 DEF x

(* bumpEpoch's link to the old root                                        *)
OldRoot(m) == link(m.snap[m.sup.active].to, "root", 0, FALSE)

(* The link for the old root is a good one.                                *)
LEMMA OldRootIs ==
  ASSUME NEW m \in Image, NEW rt, Book(m, rt), m.sup.elo < m.sup.ehi,
         m.lab[rt[m.sup.ehi - 1]].st = "alloc"
  PROVE  /\ OldRoot(m) \in Link /\ Good(m, rt, OldRoot(m))
         /\ OldRoot(m).addr = rt[m.sup.ehi - 1]
         /\ \A x : Claims(m.kid, OldRoot(m), x) <=> x = rt[m.sup.ehi - 1]
<1> DEFINE l == OldRoot(m)
           x == rt[m.sup.ehi - 1]
<1>1. /\ x \in Addr /\ m.snap[m.sup.active].to = x
      /\ m.lab[x].type = "root" /\ m.lab[x].epoch = m.sup.ehi - 1
      /\ ~In(m.kid, m.sup.active, x)
  BY ForcedRoot
<1>2. m.sup.ehi \in Nat /\ rt[m.sup.ehi] = m.sup.active /\ \A e \in Eras(m) : e \in Nat /\ e <= m.sup.ehi
  BY NowIs, KeptIs DEF Book
<1>3. l \in Link /\ l.addr = x /\ l.type = "root" /\ l.epoch = 0 /\ l.recurse = FALSE
  <2>1. 0 \in 0..MaxEpoch
    BY BoundAssumption
  <2> QED
    BY <2>1, <1>1 DEF OldRoot, link, Link
<1> HIDE DEF l, x
<1>4. \A y : Claims(m.kid, l, y) <=> y = x
  BY <1>3 DEF Claims
<1>5. End(m, l) = m.sup.ehi
  BY <1>1, <1>2, <1>3 DEF End, closeEpoch
<1>6. Good(m, rt, l)
  <2>1. \A e \in Eras(m) : e >= m.sup.ehi => e = m.sup.ehi
    BY <1>2
  <2>2. m.lab[x].st = "alloc" /\ m.lab[x].epoch <= m.sup.ehi
    BY <1>1, <1>2 DEF x
  <2> QED
    BY <2>1, <2>2, <1>1, <1>2, <1>3, <1>4, <1>5 DEF Good
<1> QED
  BY <1>3, <1>4, <1>6 DEF l, x

(* unlinkThread                                                            *)
LEMMA CoreUnlink ==
  ASSUME NEW m, NEW u, NEW q, NEW sv, NEW rt, NEW forcing, Core(m, u, q, sv, forcing, rt), q # <<>>
  PROVE  /\ Core(doRemoveLink(m, Head(q)), u, Tail(q), sv, forcing, rt)
         /\ Head(q) \in Link /\ Good(m, rt, Head(q))
<1> DEFINE q2 == Tail(q)
           l == Head(q)
           m2 == doRemoveLink(m, l)
<1>1. /\ m \in Image /\ u \in [Blk -> Seq(Link)] /\ q \in Seq(Link)
      /\ sv \in [Epoch -> SUBSET (Addr \X [Slot -> Ptr])]
      /\ Book(m, rt) /\ Links(m, rt, Ls(u, q)) /\ Open(m, rt, Ls(u, q), forcing) /\ Saved(m, sv, rt)
      /\ Forced(m, rt, Ls(u, q), forcing)
  BY DEF Core
<1>2. q2 \in Seq(Link)
  BY <1>1
<1> HIDE DEF q2
<1>3. Ls(u, q) \in Queues /\ Ls(u, q2) \in Queues /\ Ls(u, q)[Nil] = q
  BY <1>1, <1>2, LsIs
<1>4. \A c \in Place : Ls(u, q2)[c] = IF c = Nil THEN Tail(Ls(u, q)[Nil]) ELSE Ls(u, q)[c]
  <2> SUFFICES ASSUME NEW c \in Place
               PROVE  Ls(u, q2)[c] = IF c = Nil THEN Tail(Ls(u, q)[Nil]) ELSE Ls(u, q)[c]
    OBVIOUS
  <2>1. /\ Ls(u, q2)[c] = IF c = Nil THEN q2 ELSE u[c]
        /\ Ls(u, q)[c] = IF c = Nil THEN q ELSE u[c]
    BY DEF Ls
  <2> QED
    BY <2>1, <1>3 DEF q2, Ls
<1>5. /\ Links(m, rt, Ls(u, q2)) /\ l \in Link /\ Good(m, rt, l)
      /\ \A x \in Addr : Pending(m.kid, Ls(u, q2), x) <=> Pending(m.kid, Ls(u, q), x) /\ ~Claims(m.kid, l, x)
  <2>1. Ls(u, q)[Nil] # <<>>
    BY <1>3
  <2>2. /\ Links(m, rt, Ls(u, q2)) /\ Head(Ls(u, q)[Nil]) \in Link /\ Good(m, rt, Head(Ls(u, q)[Nil]))
        /\ \A x \in Addr : Pending(m.kid, Ls(u, q2), x) <=>
              Pending(m.kid, Ls(u, q), x) /\ ~Claims(m.kid, Head(Ls(u, q)[Nil]), x)
    BY <2>1, <1>1, <1>3, <1>4, LinksTail
  <2> QED
    BY <2>2, <1>3
<1> HIDE DEF l
<1>6. \A x \in Addr : Claims(m.kid, l, x) => Pending(m.kid, Ls(u, q), x)
  <2>1. Nil \in Place /\ 1 \in DOMAIN q /\ Head(q) = q[1]
    BY <1>1 DEF Place
  <2> QED
    BY <2>1, <1>3 DEF Pending, l
<1>7. /\ m2 \in Image /\ Book(m2, rt) /\ Links(m2, rt, Ls(u, q2)) /\ Saved(m2, sv, rt)
      /\ m2.kid = m.kid /\ m2.sup = m.sup
      /\ \A x \in Addr : m2.lab[x].st = "alloc" <=> m.lab[x].st = "alloc" /\ ~Claims(m.kid, l, x)
  BY <1>1, <1>2, <1>5, CoreClose
<1> HIDE DEF m2
<1>8. Open(m2, rt, Ls(u, q2), forcing)
  BY <1>1, <1>5, <1>7 DEF Open
<1>9. Forced(m2, rt, Ls(u, q2), forcing)
  <2> SUFFICES ASSUME forcing
               PROVE  /\ m.sup.elo < m.sup.ehi /\ m2.lab[rt[m.sup.ehi - 1]].st = "alloc"
                      /\ ~Pending(m.kid, Ls(u, q2), rt[m.sup.ehi - 1])
    BY <1>7 DEF Forced
  <2>1. /\ m.sup.elo < m.sup.ehi /\ m.lab[rt[m.sup.ehi - 1]].st = "alloc"
        /\ ~Pending(m.kid, Ls(u, q), rt[m.sup.ehi - 1])
    BY <1>1 DEF Forced
  <2>2. rt[m.sup.ehi - 1] \in Addr
    BY <2>1, <1>1, ForcedRoot
  <2> QED
    BY <2>1, <2>2, <1>5, <1>6, <1>7
<1>10. Core(m2, u, q2, sv, forcing, rt)
  BY <1>1, <1>2, <1>7, <1>8, <1>9 DEF Core
<1> QED
  BY <1>5, <1>10 DEF m2, q2, l

(* bumpEpoch's end, when the super block went out with the new root        *)
LEMMA CoreForced ==
  ASSUME NEW m, NEW u, NEW q, NEW sv, NEW rt, Core(m, u, q, sv, TRUE, rt)
  PROVE  /\ Core(doRemoveLink(m, OldRoot(m)), u, q, sv, FALSE, rt)
         /\ OldRoot(m) \in Link /\ OldRoot(m).addr = rt[m.sup.ehi - 1] /\ rt[m.sup.ehi - 1] \in Addr
<1> DEFINE l == OldRoot(m)
           m2 == doRemoveLink(m, l)
           x0 == rt[m.sup.ehi - 1]
<1>1. /\ m \in Image /\ u \in [Blk -> Seq(Link)] /\ q \in Seq(Link)
      /\ sv \in [Epoch -> SUBSET (Addr \X [Slot -> Ptr])]
      /\ Book(m, rt) /\ Links(m, rt, Ls(u, q)) /\ Open(m, rt, Ls(u, q), TRUE) /\ Saved(m, sv, rt)
      /\ Forced(m, rt, Ls(u, q), TRUE)
  BY DEF Core
<1>2. /\ m.sup.elo < m.sup.ehi /\ m.lab[x0].st = "alloc" /\ ~Pending(m.kid, Ls(u, q), x0)
  BY <1>1 DEF Forced
<1>3. /\ l \in Link /\ Good(m, rt, l) /\ l.addr = x0 /\ x0 \in Addr
      /\ \A x : Claims(m.kid, l, x) <=> x = x0
  BY <1>1, <1>2, OldRootIs, ForcedRoot
<1> HIDE DEF l, x0
<1>4. \A x \in Addr : Claims(m.kid, l, x) => ~Pending(m.kid, Ls(u, q), x)
  BY <1>2, <1>3
<1>5. /\ m2 \in Image /\ Book(m2, rt) /\ Links(m2, rt, Ls(u, q)) /\ Saved(m2, sv, rt)
      /\ m2.kid = m.kid /\ m2.sup = m.sup
      /\ \A x \in Addr : m2.lab[x].st = "alloc" <=> m.lab[x].st = "alloc" /\ ~Claims(m.kid, l, x)
  BY <1>1, <1>3, <1>4, CoreClose
<1> HIDE DEF m2
<1>6. Open(m2, rt, Ls(u, q), FALSE)
  <2>1. \A x \in Addr : m.lab[x].st = "alloc" =>
          In(m.kid, m.sup.active, x) \/ Pending(m.kid, Ls(u, q), x) \/ x = x0
    BY <1>1 DEF Open, x0
  <2> QED
    BY <2>1, <1>3, <1>5 DEF Open
<1>7. Core(m2, u, q, sv, FALSE, rt)
  BY <1>1, <1>5, <1>6 DEF Core, Forced
<1> QED
  BY <1>3, <1>7 DEF m2, l, x0

(* and when it did not                                                     *)
LEMMA CoreQueued ==
  ASSUME NEW m, NEW u, NEW q, NEW sv, NEW rt, Core(m, u, q, sv, TRUE, rt)
  PROVE  Core(m, [u EXCEPT ![SB] = Append(@, OldRoot(m))], q, sv, FALSE, rt)
<1> DEFINE l == OldRoot(m)
           u2 == [u EXCEPT ![SB] = Append(@, l)]
           x0 == rt[m.sup.ehi - 1]
<1>1. /\ m \in Image /\ u \in [Blk -> Seq(Link)] /\ q \in Seq(Link)
      /\ sv \in [Epoch -> SUBSET (Addr \X [Slot -> Ptr])]
      /\ Book(m, rt) /\ Links(m, rt, Ls(u, q)) /\ Open(m, rt, Ls(u, q), TRUE) /\ Saved(m, sv, rt)
      /\ Forced(m, rt, Ls(u, q), TRUE)
  BY DEF Core
<1>2. /\ m.sup.elo < m.sup.ehi /\ m.lab[x0].st = "alloc" /\ ~Pending(m.kid, Ls(u, q), x0)
  BY <1>1 DEF Forced
<1>3. /\ l \in Link /\ Good(m, rt, l) /\ l.addr = x0 /\ x0 \in Addr
      /\ \A x : Claims(m.kid, l, x) <=> x = x0
  BY <1>1, <1>2, OldRootIs, ForcedRoot
<1> HIDE DEF l, x0
<1>4. \A x \in Addr : Claims(m.kid, l, x) => ~Pending(m.kid, Ls(u, q), x)
  BY <1>2, <1>3
<1>5. SB \in Blk
  BY DEF Blk
<1>6. u2 \in [Blk -> Seq(Link)] /\ \A b \in Blk : u2[b] = IF b = SB THEN Append(u[SB], l) ELSE u[b]
  BY <1>1, <1>3, <1>5
<1> HIDE DEF u2
<1>7. Ls(u, q) \in Queues /\ Ls(u2, q) \in Queues /\ SB \in Place
  BY <1>1, <1>5, <1>6, LsIs
<1>8. \A c \in Place : Ls(u2, q)[c] = IF c = SB THEN Append(Ls(u, q)[SB], l) ELSE Ls(u, q)[c]
  <2> SUFFICES ASSUME NEW c \in Place
               PROVE  Ls(u2, q)[c] = IF c = SB THEN Append(Ls(u, q)[SB], l) ELSE Ls(u, q)[c]
    OBVIOUS
  <2>1. SB # Nil /\ (c # Nil => c \in Blk)
    BY <1>5, NilAssumption DEF Place
  <2>2. /\ Ls(u2, q)[c] = IF c = Nil THEN q ELSE u2[c]
        /\ Ls(u, q)[c] = IF c = Nil THEN q ELSE u[c]
        /\ Ls(u, q)[SB] = IF SB = Nil THEN q ELSE u[SB]
    BY <1>7 DEF Ls
  <2> QED
    BY <2>1, <2>2, <1>6
<1>9. /\ Links(m, rt, Ls(u2, q))
      /\ \A x \in Addr : Pending(m.kid, Ls(u2, q), x) <=> Pending(m.kid, Ls(u, q), x) \/ Claims(m.kid, l, x)
  BY <1>1, <1>3, <1>4, <1>7, <1>8, LinksAdd
<1>10. Open(m, rt, Ls(u2, q), FALSE)
  <2>1. \A x \in Addr : m.lab[x].st = "alloc" =>
          In(m.kid, m.sup.active, x) \/ Pending(m.kid, Ls(u, q), x) \/ x = x0
    BY <1>1 DEF Open, x0
  <2> QED
    BY <2>1, <1>3, <1>9 DEF Open
<1>11. Core(m, u2, q, sv, FALSE, rt)
  BY <1>1, <1>6, <1>9, <1>10 DEF Core, Forced
<1> QED
  BY <1>11 DEF u2, l

(* A higher low epoch only makes fewer snapshots readable.                 *)
LEMMA CoreLow ==
  ASSUME NEW m, NEW u, NEW q, NEW sv, NEW rt, Core(m, u, q, sv, FALSE, rt), NEW low \in Epoch,
         low > m.sup.elo, low <= m.sup.ehi
  PROVE  Core([m EXCEPT !.sup.elo = low], u, q, sv, FALSE, rt)
<1> DEFINE m2 == [m EXCEPT !.sup.elo = low]
<1>1. /\ m \in Image /\ u \in [Blk -> Seq(Link)] /\ q \in Seq(Link)
      /\ sv \in [Epoch -> SUBSET (Addr \X [Slot -> Ptr])]
      /\ Book(m, rt) /\ Links(m, rt, Ls(u, q)) /\ Open(m, rt, Ls(u, q), FALSE) /\ Saved(m, sv, rt)
  BY DEF Core
<1>2. /\ m2 \in Image /\ m2.kid = m.kid /\ m2.lab = m.lab /\ m2.snap = m.snap
      /\ m2.sup = [m.sup EXCEPT !.elo = low]
  BY <1>1 DEF Image
<1>3. m2.sup.ehi = m.sup.ehi /\ m2.sup.active = m.sup.active
  BY <1>1, <1>2, ImageIs
<1> HIDE DEF m2
<1>4. Ls(u, q) \in Queues
  BY <1>1, LsIs
<1>5. Book(m2, rt) /\ Eras(m2) \subseteq Eras(m) /\ Links(m2, rt, Ls(u, q))
  BY <1>1, <1>2, <1>4, BookLow
<1>6. Saved(m2, sv, rt)
  <2>1. rt \in [Epoch -> Addr] /\ Eras(m) \subseteq Epoch
    BY <1>1, KeptIs DEF Book, Roots
  <2> QED
    BY <1>1, <1>2, <1>3, <1>5, <2>1, SavedSame
<1>7. Open(m2, rt, Ls(u, q), FALSE)
  BY <1>1, <1>2, <1>3 DEF Open
<1>8. Core(m2, u, q, sv, FALSE, rt)
  BY <1>1, <1>2, <1>5, <1>6, <1>7 DEF Core, Forced
<1> QED
  BY <1>8 DEF m2

-----------------------------------------------------------------------------
(* The types of dependencies and of the disk                               *)

(* What block b's dependencies may hold                                    *)
OldOK(b, list) == \A i \in DOMAIN list : list[i].old \in (IF b = SB THEN Addr ELSE Ptr)
Deps(b) == {list \in Seq(Dep) : OldOK(b, list)}

(* A list made of another's elements.                                      *)
LEMMA FromDeps ==
  ASSUME NEW b \in Blk, NEW list \in Deps(b), NEW list2 \in Seq(Dep),
         \A k \in DOMAIN list2 : \E i \in DOMAIN list : list2[k] = list[i]
  PROVE  list2 \in Deps(b)
BY DEF Deps, OldOK

(* The empty list.                                                         *)
LEMMA NoDeps == ASSUME NEW b \in Blk PROVE <<>> \in Deps(b)
BY DEF Deps, OldOK

(* What blockWrite's walk leaves of a list.                                *)
LEMMA VettedDeps ==
  ASSUME NEW b \in Blk, NEW list \in Deps(b)
  PROVE  Vetted(list) \in Deps(b)
<1>1. list \in Seq(Dep)
  BY DEF Deps
<1>2. Vetted(list) \in Seq(Dep) /\ \A k \in DOMAIN Vetted(list) : \E i \in DOMAIN list : Vetted(list)[k] = list[i]
  BY <1>1, VettedIs, VettedOld
<1> QED
  BY <1>2, FromDeps

(* What blockRemoveLink leaves of it.                                      *)
LEMMA UnpriorDeps ==
  ASSUME NEW b \in Blk, NEW list \in Deps(b), NEW a
  PROVE  Unprior(list, a) \in Deps(b)
<1>1. list \in Seq(Dep)
  BY DEF Deps
<1>2. Unprior(list, a) \in Seq(Dep) /\ \A k \in DOMAIN Unprior(list, a) : \E i \in DOMAIN list : Unprior(list, a)[k] = list[i]
  BY <1>1, UnpriorIs, UnpriorAll
<1> QED
  BY <1>2, FromDeps

(* What the writing of block b does to another's list.                     *)
LEMMA WroteIs ==
  ASSUME NEW list \in Seq(Dep), NEW b
  PROVE  /\ Wrote(list, b) \in Seq(Dep) /\ DOMAIN Wrote(list, b) = DOMAIN list
         /\ \A i \in DOMAIN list :
              /\ Wrote(list, b)[i].on = list[i].on /\ Wrote(list, b)[i].index = list[i].index
              /\ Wrote(list, b)[i].old = list[i].old
              /\ Wrote(list, b)[i].live <=> list[i].live /\ list[i].on # b
         /\ list = <<>> => Wrote(list, b) = <<>>
<1>1. ASSUME NEW i \in DOMAIN list
      PROVE  /\ [list[i] EXCEPT !.live = @ /\ list[i].on # b] \in Dep
             /\ [list[i] EXCEPT !.live = @ /\ list[i].on # b].on = list[i].on
             /\ [list[i] EXCEPT !.live = @ /\ list[i].on # b].index = list[i].index
             /\ [list[i] EXCEPT !.live = @ /\ list[i].on # b].old = list[i].old
             /\ [list[i] EXCEPT !.live = @ /\ list[i].on # b].live <=> list[i].live /\ list[i].on # b
  <2>1. list[i] \in Dep
    OBVIOUS
  <2>2. list[i] = [on |-> list[i].on, index |-> list[i].index, old |-> list[i].old, live |-> list[i].live]
        /\ list[i].on \in Blk /\ list[i].index \in Slot \cup {-1} /\ list[i].old \in Ptr \cup Addr
        /\ list[i].live \in BOOLEAN
    BY <2>1 DEF Dep
  <2> QED
    BY <2>1, <2>2 DEF Dep
<1>2. DOMAIN list = 1..Len(list) /\ Len(list) \in Nat
  OBVIOUS
<1>3. Wrote(list, b) \in Seq(Dep) /\ DOMAIN Wrote(list, b) = DOMAIN list
  BY <1>1, <1>2 DEF Wrote
<1>4. \A i \in DOMAIN list : Wrote(list, b)[i] = [list[i] EXCEPT !.live = @ /\ list[i].on # b]
  BY DEF Wrote
<1>5. list = <<>> => Wrote(list, b) = <<>>
  BY <1>2, <1>3
<1> QED
  BY <1>1, <1>3, <1>4, <1>5

(* It stays a list of that block's dependencies.                           *)
LEMMA WroteDeps ==
  ASSUME NEW c \in Blk, NEW list \in Deps(c), NEW b
  PROVE  Wrote(list, b) \in Deps(c)
<1>1. list \in Seq(Dep) /\ OldOK(c, list)
  BY DEF Deps
<1>2. /\ Wrote(list, b) \in Seq(Dep) /\ DOMAIN Wrote(list, b) = DOMAIN list
      /\ \A i \in DOMAIN list : Wrote(list, b)[i].old = list[i].old
  BY <1>1, WroteIs
<1> QED
  BY <1>1, <1>2 DEF Deps, OldOK

(* A list with one more element in front.                                  *)
LEMMA ConsIs ==
  ASSUME NEW list \in Seq(Dep), NEW x \in Dep
  PROVE  /\ <<x>> \o list \in Seq(Dep) /\ Len(<<x>> \o list) = Len(list) + 1
         /\ DOMAIN (<<x>> \o list) = 1..Len(list) + 1
         /\ (<<x>> \o list)[1] = x
         /\ \A i \in 2..Len(list) + 1 : (<<x>> \o list)[i] = list[i - 1]
<1>1. <<x>> \in Seq(Dep) /\ Len(<<x>>) = 1 /\ <<x>>[1] = x
  OBVIOUS
<1>2. Len(list) \in Nat
  OBVIOUS
<1>3. /\ <<x>> \o list \in Seq(Dep)
      /\ Len(<<x>> \o list) = Len(<<x>>) + Len(list)
      /\ \A i \in 1..Len(<<x>>) + Len(list) :
           (<<x>> \o list)[i] = IF i <= Len(<<x>>) THEN <<x>>[i] ELSE list[i - Len(<<x>>)]
  BY <1>1
<1> QED
  BY <1>1, <1>2, <1>3

(* blockDependency adds one of the right kind.                             *)
LEMMA DependencyDeps ==
  ASSUME NEW b \in Blk, NEW list \in Deps(b), NEW bb \in Blk, NEW s \in Slot, NEW d,
         NEW old \in (IF b = SB THEN Addr ELSE Ptr)
  PROVE  blockDependency(list, bb, s, old, d) \in Deps(b)
<1>1. CASE bb \notin d
  BY <1>1 DEF blockDependency
<1>2. CASE bb \in d
  <2> DEFINE x == dep(bb, s, old)
             l2 == <<x>> \o list
  <2>1. blockDependency(list, bb, s, old, d) = l2
    BY <1>2 DEF blockDependency
  <2>0. old \in Ptr \cup Addr
    OBVIOUS
  <2>2. x \in Dep /\ x.old = old
    BY <2>0 DEF dep, Dep
  <2>3. list \in Seq(Dep) /\ OldOK(b, list) /\ Len(list) \in Nat /\ DOMAIN list = 1..Len(list)
    BY DEF Deps
  <2> HIDE DEF x
  <2>4. l2 \in Seq(Dep) /\ DOMAIN l2 = 1..Len(list) + 1 /\ l2[1] = x /\ \A i \in 2..Len(list) + 1 : l2[i] = list[i - 1]
    BY <2>2, <2>3, ConsIs
  <2> HIDE DEF l2
  <2>5. ASSUME NEW i \in DOMAIN l2 PROVE l2[i].old \in (IF b = SB THEN Addr ELSE Ptr)
    <3>1. CASE i = 1
      BY <3>1, <2>2, <2>4
    <3>2. CASE i # 1
      <4>1. i \in 2..Len(list) + 1 /\ i - 1 \in DOMAIN list
        BY <3>2, <2>3, <2>4
      <4> QED
        BY <4>1, <2>3, <2>4 DEF OldOK
    <3> QED
      BY <3>1, <3>2
  <2> QED
    BY <2>1, <2>4, <2>5 DEF Deps, OldOK
<1> QED
  BY <1>1, <1>2

(* The dependency of a new block on its label.                             *)
LEMMA LabelFirstIs ==
  /\ LabelFirst \in Seq(Dep) /\ Len(LabelFirst) = 1 /\ DOMAIN LabelFirst = {1}
  /\ LabelFirst[1] = dep(LB, -1, Nil) /\ LabelFirst[1] \in Dep
  /\ \A b \in Blk : b # SB => LabelFirst \in Deps(b)
<1>1. LB \in Blk /\ -1 \in Slot \cup {-1} /\ Nil \in Ptr
  BY DEF Blk, Ptr
<1>2. dep(LB, -1, Nil) \in Dep /\ dep(LB, -1, Nil).old = Nil
  BY <1>1 DEF dep, Dep
<1>3. LabelFirst = <<dep(LB, -1, Nil)>>
  BY DEF LabelFirst
<1>4. LabelFirst \in Seq(Dep) /\ Len(LabelFirst) = 1 /\ DOMAIN LabelFirst = {1} /\ LabelFirst[1] = dep(LB, -1, Nil)
  BY <1>2, <1>3
<1> QED
  BY <1>1, <1>2, <1>4 DEF Deps, OldOK

(* A nonempty set of positions has a greatest.                             *)
LEMMA MaxIs ==
  ASSUME NEW n \in Nat, NEW S, S \subseteq 1..n, S # {}
  PROVE  Max(S) \in S /\ \A i \in S : i <= Max(S)
<1>1. PICK i0 \in S : TRUE
  OBVIOUS
<1>3. \E m \in S : \A i \in S : i <= m
  <2> DEFINE T == {k \in Nat : n - k \in S}
  <2>0. n - i0 \in Nat /\ n - (n - i0) = i0
    BY <1>1
  <2>1. T \subseteq Nat /\ T # {}
    BY <2>0
  <2> HIDE DEF T
  <2>2. PICK k \in T : \A j \in T : k <= j
    BY <2>1, LeastNat
  <2>3. n - k \in S /\ k \in Nat
    BY <2>2 DEF T
  <2>4. ASSUME NEW i \in S PROVE i <= n - k
    <3>1. n - i \in T
      BY <2>4 DEF T
    <3> QED
      BY <2>2, <2>3, <2>4, <3>1
  <2> QED
    BY <2>3, <2>4
<1> QED
  BY <1>3 DEF Max

(* blockRollback, pointer by pointer: the value of the oldest dependency   *)
(* left, or the block's own.                                               *)
LEMMA RollbackIs ==
  ASSUME NEW kids \in [Slot -> Ptr], NEW b \in Blk, b # SB, NEW list \in Deps(b)
  PROVE  /\ Rollback(kids, list) \in [Slot -> Ptr]
         /\ \A s \in Slot :
              \/ /\ \A i \in DOMAIN list : list[i].index # s
                 /\ Rollback(kids, list)[s] = kids[s]
              \/ \E i \in DOMAIN list : /\ list[i].index = s /\ Rollback(kids, list)[s] = list[i].old
                                        /\ \A j \in DOMAIN list : list[j].index = s => j <= i
<1>1. list \in Seq(Dep) /\ \A i \in DOMAIN list : list[i].old \in Ptr
  BY DEF Deps, OldOK
<1>2. ASSUME NEW s \in Slot
      PROVE  /\ Rollback(kids, list)[s] \in Ptr
             /\ \/ /\ \A i \in DOMAIN list : list[i].index # s
                   /\ Rollback(kids, list)[s] = kids[s]
                \/ \E i \in DOMAIN list : /\ list[i].index = s /\ Rollback(kids, list)[s] = list[i].old
                                          /\ \A j \in DOMAIN list : list[j].index = s => j <= i
  <2> DEFINE olds == {i \in DOMAIN list : list[i].index = s}
  <2>1. Rollback(kids, list)[s] = IF olds = {} THEN kids[s] ELSE list[Max(olds)].old
    BY DEF Rollback
  <2>2. CASE olds = {}
    BY <2>1, <2>2
  <2>3. CASE olds # {}
    <3>1. Len(list) \in Nat /\ olds \subseteq 1..Len(list)
      BY <1>1
    <3> HIDE DEF olds
    <3>2. Max(olds) \in olds /\ \A i \in olds : i <= Max(olds)
      BY <2>3, <3>1, MaxIs
    <3> QED
      BY <2>1, <2>3, <3>2, <1>1 DEF olds
  <2> QED
    BY <2>2, <2>3
<1> QED
  BY <1>2 DEF Rollback

(* The disk after a write                                                  *)
LEMMA WrittenIs ==
  ASSUME NEW img \in Image, disk \in Image, NEW b \in Blk, NEW list \in Deps(b)
  PROVE  /\ Written(img, b, list) \in Image
         /\ b = LB => Written(img, b, list) = [disk EXCEPT !.lab = img.lab]
         /\ b = SB => Written(img, b, list) = [disk EXCEPT !.sup = IF list = <<>> THEN img.sup
                                                   ELSE [img.sup EXCEPT !.active = Last(list).old]]
         /\ b \in Addr => Written(img, b, list) = [disk EXCEPT !.kid[b] = Rollback(img.kid[b], list),
                                                               !.snap[b] = img.snap[b]]
<1>1. LB # SB /\ LB \notin Addr /\ SB \notin Addr
  BY AddrAssumption DEF LB, SB
<1>2. CASE b = LB
  <2>1. Written(img, b, list) = [disk EXCEPT !.lab = img.lab]
    BY <1>1, <1>2 DEF Written
  <2>2. [disk EXCEPT !.lab = img.lab] \in Image
    BY ImageIs DEF Image
  <2> QED
    BY <1>1, <1>2, <2>1, <2>2
<1>3. CASE b = SB
  <2> DEFINE sup == IF list = <<>> THEN img.sup ELSE [img.sup EXCEPT !.active = Last(list).old]
  <2>1. Written(img, b, list) = [disk EXCEPT !.sup = sup]
    BY <1>1, <1>3 DEF Written
  <2>2. sup \in [active: Addr, ehi: Epoch, elo: Epoch]
    <3>1. list # <<>> => Last(list).old \in Addr
      <4>1. list \in Seq(Dep) /\ \A i \in DOMAIN list : list[i].old \in Addr
        BY <1>3 DEF Deps, OldOK
      <4>2. list # <<>> => Len(list) \in DOMAIN list
        BY <4>1
      <4> QED
        BY <4>1, <4>2 DEF Last
    <3> QED
      BY <3>1, ImageIs
  <2> HIDE DEF sup
  <2>3. [disk EXCEPT !.sup = sup] \in Image
    BY <2>2 DEF Image
  <2> QED
    BY <1>1, <1>3, <2>1, <2>3 DEF sup
<1>4. CASE b \in Addr
  <2>1. Written(img, b, list) = [disk EXCEPT !.kid[b] = Rollback(img.kid[b], list), !.snap[b] = img.snap[b]]
    BY <1>1, <1>4 DEF Written
  <2>2. Rollback(img.kid[b], list) \in [Slot -> Ptr] /\ img.snap[b] \in SnapEntry
    BY <1>1, <1>4, RollbackIs, ImageIs, Zenon DEF Kd
  <2>3. [disk EXCEPT !.kid[b] = Rollback(img.kid[b], list), !.snap[b] = img.snap[b]] \in Image
    BY <1>4, <2>2 DEF Image
  <2> QED
    BY <1>1, <1>4, <2>1, <2>3
<1> QED
  BY <1>2, <1>3, <1>4 DEF Blk

-----------------------------------------------------------------------------
(* The actions as changes of the image                                     *)

Forcing == phase \in {"force", "forceagain"}

(* What TypeOK says of the rest of the state                               *)
Types ==
  /\ disk \in Image /\ dirty \subseteq Blk
  /\ prior \in [Blk -> Seq(Dep)] /\ \A b \in Blk : prior[b] \in Deps(b)
  /\ \A b \in Blk \ dirty : prior[b] = <<>> /\ uhead[b] = <<>>
  /\ phase \in {"run", "force", "forceagain", "flush", "archive"}
  /\ written \subseteq Addr
  /\ ops \in 0..MaxOps
  /\ Forcing => SB \in dirty

CoreNow(rt) == Core(mem, uhead, unlink, saved, Forcing, rt)

(* The roots after a step                                                  *)
NextRoots(rt) ==
  IF mem'.sup.ehi = mem.sup.ehi THEN rt ELSE [rt EXCEPT ![mem'.sup.ehi] = mem'.sup.active]
CoreNext(rt) == Core(mem', uhead', unlink', saved', Forcing', NextRoots(rt))

(* The operations, with the conditions of their variants                   *)
Holding(p) == p \in Addr /\ Holds(mem.kid, Root, p) /\ mem.lab[p].epoch = mem.sup.ehi
Doing == /\ phase \in {"run", "flush", "archive"} /\ phase' = phase
         /\ ops < MaxOps /\ ops' = ops + 1 /\ UNCHANGED <<disk, unlink, saved, crashes>>

WalkIn(p, s) ==
  /\ mem.kid[p][s] # Nil /\ mem.kid[p][s].type = "data"
  /\ mem.lab[mem.kid[p][s].to].epoch = mem.sup.ehi
  /\ dirty' = dirty \cup {mem.kid[p][s].to}
  /\ UNCHANGED <<mem, prior, uhead, written>>
WalkNew(p, s, bb) ==
  /\ mem.kid[p][s] = Nil
  /\ mem' = NewData(mem, p, s, bb)
  /\ dirty' = dirty \cup {LB, bb, p}
  /\ prior' = [prior EXCEPT ![bb] = LabelFirst, ![p] = <<dep(bb, s, Nil)>> \o prior[p]]
  /\ uhead' = uhead /\ written' = written \ {bb}
WalkCopy(p, s, bb) ==
  /\ mem.kid[p][s] # Nil /\ mem.lab[mem.kid[p][s].to].epoch # mem.sup.ehi
  /\ mem' = NewCopy(mem, p, s, bb)
  /\ dirty' = dirty \cup {LB, bb, p}
  /\ prior' = [prior EXCEPT ![bb] = LabelFirst,
                 ![p] = Unprior(<<dep(bb, s, mem.kid[p][s])>> \o prior[p], mem.kid[p][s].to)]
  /\ uhead' = [uhead EXCEPT ![p] =
                 Append(@, link(mem.kid[p][s].to, mem.kid[p][s].type, mem.lab[p].epoch, FALSE))]
  /\ written' = written \ {bb}
Cutting(p, s) ==
  /\ mem.kid[p][s] # Nil /\ (p = Root \/ s # 0)
  /\ mem' = Zeroed(mem, p, s)
  /\ dirty' = dirty \cup {p}
  /\ prior' = [prior EXCEPT ![p] = Unprior(@, mem.kid[p][s].to)]
  /\ uhead' = [uhead EXCEPT ![p] =
                 Append(@, link(mem.kid[p][s].to, mem.kid[p][s].type, mem.lab[p].epoch, TRUE))]
  /\ written' = written
Growing(s, bb) ==
  /\ mem.kid[Root][s] # Nil => mem.kid[Root][s].type = "data"
  /\ mem' = Grown(mem, s, bb)
  /\ dirty' = dirty \cup {LB, bb, Root}
  /\ prior' = [prior EXCEPT
       ![bb] = IF mem.kid[Root][s] = Nil THEN LabelFirst
               ELSE blockDependency(LabelFirst, mem.kid[Root][s].to, 0, Nil, dirty'),
       ![Root] = <<dep(bb, s, mem.kid[Root][s])>> \o prior[Root]]
  /\ uhead' = uhead /\ written' = written \ {bb}
Shrinking(s, o) ==
  /\ CanShrink(mem, s, o)
  /\ mem' = Shrunk(mem, s)
  /\ dirty' = dirty \cup {Root, o}
  /\ prior' = [prior EXCEPT
       ![Root] = Unprior(IF mem.kid[o][0] = Nil THEN prior[Root]
                         ELSE blockDependency(prior[Root], mem.kid[o][0].to, s, mem.kid[Root][s], dirty), o),
       ![o] = <<dep(Root, 0, mem.kid[o][0])>> \o prior[o]]
  /\ uhead' = [uhead EXCEPT ![Root] = Append(@, link(o, "ptr", mem.lab[Root].epoch, TRUE))]
  /\ written' = written
Bumping(bb) ==
  /\ phase \in {"run", "archive"} /\ phase' \in {"force", "forceagain"}
  /\ ops < MaxOps /\ ops' = ops + 1 /\ mem.sup.ehi < MaxEpoch
  /\ mem' = Bumped(mem, bb)
  /\ prior' = [prior EXCEPT ![bb] = LabelFirst, ![SB] = <<dep(bb, 0, Root)>> \o prior[SB]]
  /\ dirty' = dirty \cup {LB, bb, SB}
  /\ written' = written \ {bb}
  /\ saved' = [saved EXCEPT ![mem.lab[Root].epoch] = Contents(mem, Root)]
  /\ UNCHANGED <<disk, uhead, unlink, crashes>>

(* The label block and the super block are not in the partition.           *)
LEMMA BlkIs ==
  /\ LB \in Blk /\ SB \in Blk /\ LB # SB /\ Addr \subseteq Blk /\ LB \notin Addr /\ SB \notin Addr
  /\ Nil \notin Blk
BY AddrAssumption, NilAssumption DEF Blk, LB, SB

(* What is written in place is a block of the current epoch that holds     *)
(* pointers of the current tree.                                           *)
LEMMA WritableIs ==
  ASSUME mem \in Image, NEW p, Writable(p)
  PROVE  Holding(p)
<1>1. mem.kid \in Kd /\ Root \in Addr
  BY ImageIs DEF Root
<1>2. Holds(mem.kid, Root, p)
  BY DEF Writable, Blocks, Kids, Holds
<1>3. p \in Addr
  BY <1>1, <1>2, HoldsIn
<1> QED
  BY <1>2, <1>3 DEF Writable, CurrentEpoch, Holding

(* What cacheAllocBlock finds.                                             *)
LEMMA CanAllocIs ==
  ASSUME NEW bb \in CanAlloc(mem)
  PROVE  bb \in Addr /\ Allocatable(mem, bb) /\ bb \notin dirty
BY DEF CanAlloc

(* The three variants of blockWalk.                                        *)
LEMMA WalkIs ==
  ASSUME mem \in Image, uhead \in [Blk -> Seq(Link)], NEW p, NEW s \in Slot, Walk(p, s)
  PROVE  /\ Doing /\ Holding(p)
         /\ WalkIn(p, s) \/ \E bb \in CanAlloc(mem) : WalkNew(p, s, bb) \/ WalkCopy(p, s, bb)
<1>1. Doing
  BY Zenon DEF Walk, Op, SnapshotOp, OpUnchanged, Doing
<1>2. Holding(p)
  BY WritableIs, Zenon DEF Walk
<1> DEFINE old == mem.kid[p][s]
<1>3. ASSUME old # Nil, CurrentEpoch(old.to) PROVE WalkIn(p, s)
  BY <1>3 DEF Walk, WalkIn, CurrentEpoch
  <1> DEFINE type == IF old = Nil THEN "data" ELSE old.type
<1>4. CASE ~(old # Nil /\ CurrentEpoch(old.to))
  <2>1. PICK bb \in CanAlloc(mem) :
          LET new == IF old = Nil THEN Alloc(mem, bb, type, mem.sup.ehi)
                     ELSE blockCopy(mem, old.to, bb, mem.sup.ehi)
              d == dirty \cup {LB, bb, p}
              list == blockDependency(prior[p], bb, s, old, d)
          IN /\ mem' = [new EXCEPT !.kid[p][s] = [to |-> bb, type |-> type]]
             /\ dirty' = d
             /\ prior' = [prior EXCEPT ![bb] = LabelFirst,
                  ![p] = Dropped(list, old)]
             /\ uhead' = [uhead EXCEPT ![p] = Queued(@, p, old, FALSE)]
             /\ written' = written \ {bb}
    BY <1>4, Zenon DEF Walk
  <2>2. blockDependency(prior[p], bb, s, old, dirty \cup {LB, bb, p}) = <<dep(bb, s, old)>> \o prior[p]
    BY DEF blockDependency
  <2>3. CASE old = Nil
    <3>1. uhead' = [uhead EXCEPT ![p] = uhead[p]] /\ uhead' = uhead
      <4>1. uhead' = [uhead EXCEPT ![p] = uhead[p]]
        BY <2>1, <2>3 DEF Queued
      <4>2. [uhead EXCEPT ![p] = uhead[p]] = uhead
        OBVIOUS
      <4> QED
        BY <4>1, <4>2
    <3>2. WalkNew(p, s, bb)
      BY <2>1, <2>2, <2>3, <3>1, Zenon DEF WalkNew, NewData, Dropped
    <3> QED
      BY <1>1, <1>2, <3>2
  <2>4. CASE old # Nil
    <3>1. WalkCopy(p, s, bb)
      BY <1>4, <2>1, <2>2, <2>4, Zenon DEF WalkCopy, NewCopy, Dropped, Queued, CurrentEpoch
    <3> QED
      BY <1>1, <1>2, <3>1
  <2> QED
    BY <2>3, <2>4
<1> QED
  BY <1>1, <1>2, <1>3, <1>4

(* RemoveLink in these terms.                                              *)
LEMMA RemoveLinkIs ==
  ASSUME mem \in Image, NEW p, NEW s \in Slot, RemoveLink(p, s)
  PROVE  Doing /\ Holding(p) /\ Cutting(p, s)
<1>1. Doing
  BY DEF RemoveLink, Op, OpUnchanged, Doing
<1>2. Holding(p)
  BY WritableIs DEF RemoveLink
<1>3. Cutting(p, s)
  BY DEF RemoveLink, Cutting, Zeroed, Dropped, Queued
<1> QED
  BY <1>1, <1>2, <1>3

(* Grow in these terms.                                                    *)
LEMMA GrowIs ==
  ASSUME NEW rt, CoreNow(rt), NEW s \in FileSlot, Grow(s)
  PROVE  /\ Doing /\ s \in Slot /\ Holding(Root)
         /\ \E bb \in CanAlloc(mem) : Growing(s, bb)
<1>0. mem \in Image /\ Book(mem, rt)
  BY DEF CoreNow, Core
<1>1. Doing /\ s \in Slot
  BY SlotAssumption DEF Grow, Op, OpUnchanged, Doing
<1>2. Holding(Root)
  BY <1>0, WritableIs DEF Grow
<1>3. PICK bb \in CanAlloc(mem) :
       LET e == mem.kid[Root][s]
           new == Alloc(mem, bb, "ptr", mem.sup.ehi)
           d == dirty \cup {LB, bb, Root}
       IN /\ e # Nil => e.type = "data" /\ Labelled(e)
          /\ mem' = [new EXCEPT !.kid[Root][s] = [to |-> bb, type |-> "ptr"],
                                !.kid[bb][0] = e]
          /\ dirty' = d
          /\ prior' = [prior EXCEPT
               ![bb] = IF e = Nil THEN LabelFirst
                       ELSE blockDependency(LabelFirst, e.to, 0, Nil, d),
               ![Root] = blockDependency(@, bb, s, e, d)]
          /\ written' = written \ {bb}
  BY Zenon DEF Grow
<1>4. Root # bb
  <2>1. In(mem.kid, Root, Root) /\ Root \in Addr
    BY <1>2 DEF In, Holding
  <2> QED
    BY <2>1, <1>0, InNow, CanAllocIs DEF Root
<1>5. ASSUME NEW x
      PROVE  [prior EXCEPT ![bb] = x, ![Root] = blockDependency(@, bb, s, mem.kid[Root][s], dirty \cup {LB, bb, Root})]
             = [prior EXCEPT ![bb] = x, ![Root] = <<dep(bb, s, mem.kid[Root][s])>> \o prior[Root]]
  BY <1>4 DEF blockDependency
<1>6. uhead' = uhead
  BY DEF Grow
<1>7. Growing(s, bb)
  BY <1>3, <1>5, <1>6, Zenon DEF Growing, Grown, Root
<1> QED
  BY <1>1, <1>2, <1>7

(* Shrink in these terms.                                                  *)
LEMMA ShrinkIs ==
  ASSUME NEW rt, CoreNow(rt), NEW s \in FileSlot, Shrink(s)
  PROVE  Doing /\ s \in Slot /\ Holding(Root) /\ \E o \in Addr : Shrinking(s, o)
<1> DEFINE e == mem.kid[Root][s]
           b == mem.kid[e.to][0]
<1> HIDE DEF e, b
<1>0. mem \in Image /\ Book(mem, rt)
  BY DEF CoreNow, Core
<1>1. Doing /\ s \in Slot
  BY SlotAssumption, Zenon DEF Shrink, Op, OpUnchanged, Doing
<1>2. Holding(Root)
  BY <1>0, WritableIs, Zenon DEF Shrink
<1>3. e # Nil /\ e.type = "ptr"
  BY Zenon DEF Shrink, e
<1>4. e.to \in Addr /\ e.to # Root
  BY <1>0, <1>1, <1>2, <1>3, HeldIs DEF Holding, Root, e
<1> DEFINE list == IF b = Nil THEN prior[Root] ELSE blockDependency(prior[Root], b.to, s, e, dirty)
<1>7. \A l : Dropped(l, e) = Unprior(l, e.to)
  BY <1>3 DEF Dropped
<1>8. prior' = [prior EXCEPT ![Root] = Dropped(list, e), ![e.to] = blockDependency(@, Root, 0, b, {Root})]
  BY Zenon DEF Shrink, e, b
<1>9. ASSUME NEW l
      PROVE  [prior EXCEPT ![Root] = l, ![e.to] = blockDependency(@, Root, 0, b, {Root})]
             = [prior EXCEPT ![Root] = l, ![e.to] = <<dep(Root, 0, b)>> \o prior[e.to]]
  BY <1>4 DEF blockDependency
<1>14. prior' = [prior EXCEPT ![Root] = Unprior(list, e.to), ![e.to] = <<dep(Root, 0, b)>> \o prior[e.to]]
  <2> HIDE DEF list
  <2> QED
    BY <1>7, <1>8, <1>9
<1>10. /\ mem' = Shrunk(mem, s)
       /\ uhead' = [uhead EXCEPT ![Root] = Append(@, link(e.to, e.type, mem.lab[Root].epoch, TRUE))]
       /\ dirty' = dirty \cup {Root, e.to} /\ written' = written
  BY <1>3, Zenon DEF Shrink, Shrunk, Queued, Root, e, b
<1>11. CanShrink(mem, s, e.to)
  BY <1>3 DEF CanShrink, Root, e
<1>12. b = mem.kid[e.to][0]
  BY DEF b
<1>13. Shrinking(s, e.to)
  BY <1>3, <1>10, <1>11, <1>12, <1>14, Zenon DEF Shrinking, e
<1> QED
  BY <1>1, <1>2, <1>4, <1>13

(* bumpEpoch in these terms.                                               *)
LEMMA BumpIs ==
  ASSUME NEW rt, CoreNow(rt), fsSnapshot \/ Archive
  PROVE  \E bb \in CanAlloc(mem) : Bumping(bb)
<1>0. mem \in Image /\ Book(mem, rt)
  BY DEF CoreNow, Core
<1>1. /\ phase \in {"run", "archive"} /\ phase' \in {"force", "forceagain"}
      /\ ops < MaxOps /\ ops' = ops + 1 /\ mem.sup.ehi < MaxEpoch
      /\ saved' = [saved EXCEPT ![mem.lab[Root].epoch] = Contents(mem, Root)]
      /\ UNCHANGED <<disk, uhead, unlink, crashes>>
  BY Zenon DEF fsSnapshot, Archive, bumpEpoch
<1>2. PICK bb \in CanAlloc(mem) :
       LET ehi == mem.sup.ehi + 1
           new == blockCopy(mem, Root, bb, ehi)
       IN /\ mem' = [new EXCEPT
                 !.snap[bb] = [to |-> Root, epoch |-> mem.lab[Root].epoch],
                 !.sup.active = bb, !.sup.ehi = ehi]
          /\ prior' = [prior EXCEPT ![bb] = LabelFirst,
                 ![SB] = blockDependency(@, bb, 0, Root, {bb})]
          /\ dirty' = dirty \cup {LB, bb, SB}
          /\ written' = written \ {bb}
  BY Zenon DEF fsSnapshot, Archive, bumpEpoch
<1>3. bb # SB
  BY BlkIs, CanAllocIs
<1>4. [prior EXCEPT ![bb] = LabelFirst, ![SB] = blockDependency(@, bb, 0, Root, {bb})]
      = [prior EXCEPT ![bb] = LabelFirst, ![SB] = <<dep(bb, 0, Root)>> \o prior[SB]]
  BY <1>3 DEF blockDependency
<1>5. mem' = Bumped(mem, bb)
  BY <1>2 DEF Bumped, Root
<1>6. Bumping(bb)
  BY <1>1, <1>2, <1>4, <1>5 DEF Bumping
<1> QED
  BY <1>6

-----------------------------------------------------------------------------
(* Every action keeps the core of the invariant                            *)

(* The flag is a truth value.                                              *)
LEMMA CoreFlag ==
  ASSUME NEW m, NEW u, NEW q, NEW sv, NEW rt, NEW f, NEW g, Core(m, u, q, sv, f, rt), f <=> g
  PROVE  Core(m, u, q, sv, g, rt)
BY DEF Core, Open, Forced

(* While the super block is not being forced out.                          *)
LEMMA CalmIs ==
  ASSUME NEW rt, CoreNow(rt), ~Forcing
  PROVE  Core(mem, uhead, unlink, saved, FALSE, rt)
<1>1. Core(mem, uhead, unlink, saved, Forcing, rt)
  BY DEF CoreNow
<1>2. Forcing <=> FALSE
  OBVIOUS
<1> HIDE DEF Forcing
<1> QED
  BY <1>1, <1>2, Zenon DEF Core, Open, Forced

(* An operation leaves the roots of the epochs alone.                      *)
LEMMA OpNext ==
  ASSUME NEW rt, Doing, Core(mem', uhead', unlink', saved', FALSE, rt), mem'.sup = mem.sup
  PROVE  CoreNext(rt)
<1>1. ~Forcing'
  BY DEF Doing, Forcing
<1>2. Core(mem', uhead', unlink', saved', Forcing', rt)
  BY <1>1, CoreFlag
<1>3. NextRoots(rt) = rt
  BY DEF NextRoots
<1> QED
  BY <1>2, <1>3 DEF CoreNext

(* What holds when an operation starts.                                    *)
LEMMA DoingIs ==
  ASSUME NEW rt, CoreNow(rt), Doing
  PROVE  /\ Core(mem, uhead, unlink, saved, FALSE, rt) /\ mem \in Image /\ Book(mem, rt)
         /\ unlink' = unlink /\ saved' = saved
<1>1. ~Forcing
  BY DEF Doing, Forcing
<1> QED
  BY <1>1, CalmIs DEF Core, CoreNow, Doing

(* blockWalk keeps the invariant.                                          *)
LEMMA WalkCore ==
  ASSUME NEW rt, CoreNow(rt), NEW p, NEW s \in Slot, Walk(p, s)
  PROVE  CoreNext(rt)
<1>0. mem \in Image /\ uhead \in [Blk -> Seq(Link)]
  BY DEF CoreNow, Core
<1>1. /\ Doing /\ Holding(p)
      /\ WalkIn(p, s) \/ \E bb \in CanAlloc(mem) : WalkNew(p, s, bb) \/ WalkCopy(p, s, bb)
  BY <1>0, WalkIs
<1>2. /\ Core(mem, uhead, unlink, saved, FALSE, rt) /\ Book(mem, rt)
      /\ unlink' = unlink /\ saved' = saved
      /\ p \in Addr /\ Holds(mem.kid, mem.sup.active, p) /\ mem.lab[p].epoch = mem.sup.ehi
  BY <1>1, DoingIs DEF Holding, Root
<1>3. CASE WalkIn(p, s)
  <2>1. mem' = mem /\ uhead' = uhead
    BY <1>3 DEF WalkIn
  <2> QED
    BY <2>1, <1>1, <1>2, OpNext
<1>4. ASSUME NEW bb \in CanAlloc(mem), WalkNew(p, s, bb) PROVE CoreNext(rt)
  <2>1. bb \in Addr /\ Allocatable(mem, bb)
    BY CanAllocIs
  <2>2. mem' = NewData(mem, p, s, bb) /\ uhead' = uhead /\ mem.kid[p][s] = Nil
    BY <1>4 DEF WalkNew
  <2>3. mem' \in Image /\ Stepped(mem, mem', {}, {bb})
    BY <2>1, <2>2, <1>0, <1>2, NewDataIs
  <2>4. Core(mem', uhead, unlink, saved, FALSE, rt)
    BY <2>3, <1>2, CoreKeep
  <2>5. mem'.sup = mem.sup
    BY <2>3 DEF Stepped
  <2> QED
    BY <2>2, <2>4, <2>5, <1>1, <1>2, OpNext
<1>5. ASSUME NEW bb \in CanAlloc(mem), WalkCopy(p, s, bb) PROVE CoreNext(rt)
  <2> DEFINE o == mem.kid[p][s].to
             l == link(o, mem.kid[p][s].type, mem.lab[p].epoch, FALSE)
  <2>1. bb \in Addr /\ Allocatable(mem, bb)
    BY CanAllocIs
  <2>2. /\ mem' = NewCopy(mem, p, s, bb) /\ CanCopy(mem, p, s, o)
        /\ uhead' = [uhead EXCEPT ![p] = Append(@, l)]
    BY <1>2, <1>5 DEF WalkCopy, CanCopy
  <2> HIDE DEF o
  <2>3. mem' \in Image /\ Stepped(mem, mem', {o}, {bb})
    BY <2>1, <2>2, <1>0, <1>2, NewCopyIs
  <2>4. Dropping(mem, mem', {o}, l)
    BY <2>2, <1>0, <1>2, DropCopy
  <2> HIDE DEF l
  <2>5. Core(mem', uhead', unlink, saved, FALSE, rt)
    BY <2>2, <2>3, <2>4, <1>2, CoreDrop, BlkIs, Zenon
  <2>6. mem'.sup = mem.sup
    BY <2>3 DEF Stepped
  <2> QED
    BY <2>5, <2>6, <1>1, <1>2, OpNext
<1> QED
  BY <1>1, <1>3, <1>4, <1>5

(* Removing a file or a pointer keeps it.                                  *)
LEMMA RemoveLinkCore ==
  ASSUME NEW rt, CoreNow(rt), NEW p, NEW s \in Slot, RemoveLink(p, s)
  PROVE  CoreNext(rt)
<1>0. mem \in Image
  BY DEF CoreNow, Core
<1>1. Doing /\ Holding(p) /\ Cutting(p, s)
  BY <1>0, RemoveLinkIs
<1>2. /\ Core(mem, uhead, unlink, saved, FALSE, rt) /\ Book(mem, rt)
      /\ unlink' = unlink /\ saved' = saved
      /\ p \in Addr /\ Holds(mem.kid, mem.sup.active, p) /\ mem.lab[p].epoch = mem.sup.ehi
  BY <1>1, DoingIs DEF Holding, Root
<1> DEFINE l == link(mem.kid[p][s].to, mem.kid[p][s].type, mem.lab[p].epoch, TRUE)
           D == Below2(mem.kid, p, s)
<1>3. mem' = Zeroed(mem, p, s) /\ mem.kid[p][s] # Nil /\ uhead' = [uhead EXCEPT ![p] = Append(@, l)]
  BY <1>1 DEF Cutting
<1>4. mem' \in Image /\ Stepped(mem, mem', D, {})
  BY <1>0, <1>2, <1>3, CutIs2
<1>5. Dropping(mem, mem', D, l)
  BY <1>0, <1>2, <1>3, DropCut
<1> HIDE DEF l, D
<1>6. Core(mem', uhead', unlink, saved, FALSE, rt)
  BY <1>2, <1>3, <1>4, <1>5, CoreDrop, BlkIs
<1>7. mem'.sup = mem.sup
  BY <1>4 DEF Stepped
<1> QED
  BY <1>1, <1>2, <1>6, <1>7, OpNext

(* Growing a file keeps it.                                                *)
LEMMA GrowCore ==
  ASSUME NEW rt, CoreNow(rt), NEW s \in FileSlot, Grow(s)
  PROVE  CoreNext(rt)
<1>1. Doing /\ s \in Slot /\ Holding(Root) /\ \E bb \in CanAlloc(mem) : Growing(s, bb)
  BY GrowIs
<1>2. /\ Core(mem, uhead, unlink, saved, FALSE, rt) /\ Book(mem, rt) /\ mem \in Image
      /\ unlink' = unlink /\ saved' = saved
  BY <1>1, DoingIs
<1>3. PICK bb \in CanAlloc(mem) : Growing(s, bb)
  BY <1>1
<1>4. bb \in Addr /\ Allocatable(mem, bb)
  BY CanAllocIs
<1>5. /\ mem' = Grown(mem, s, bb) /\ uhead' = uhead
      /\ mem.kid[mem.sup.active][s] # Nil => mem.kid[mem.sup.active][s].type = "data"
  BY <1>3 DEF Growing, Root
<1>6. mem' \in Image /\ Stepped(mem, mem', {}, {bb})
  BY <1>1, <1>2, <1>4, <1>5, GrownIs
<1>7. Core(mem', uhead, unlink, saved, FALSE, rt)
  BY <1>2, <1>6, CoreKeep
<1>8. mem'.sup = mem.sup
  BY <1>6 DEF Stepped
<1> QED
  BY <1>1, <1>2, <1>5, <1>7, <1>8, OpNext

(* Shrinking one keeps it.                                                 *)
LEMMA ShrinkCore ==
  ASSUME NEW rt, CoreNow(rt), NEW s \in FileSlot, Shrink(s)
  PROVE  CoreNext(rt)
<1>1. PICK o \in Addr : Doing /\ s \in Slot /\ Holding(Root) /\ Shrinking(s, o)
  BY ShrinkIs
<1>2. /\ Core(mem, uhead, unlink, saved, FALSE, rt) /\ Book(mem, rt) /\ mem \in Image
      /\ unlink' = unlink /\ saved' = saved /\ Root \in Addr
  BY <1>1, DoingIs, Zenon DEF Holding
<1> DEFINE l == link(o, "ptr", mem.lab[mem.sup.active].epoch, TRUE)
           D == Shed(mem, o)
<1>3. /\ mem' = Shrunk(mem, s) /\ uhead' = [uhead EXCEPT ![Root] = Append(@, l)] /\ CanShrink(mem, s, o)
  BY <1>1, Zenon DEF Shrinking, Root
<1>4. mem' \in Image /\ Stepped(mem, mem', D, {})
  BY <1>1, <1>2, <1>3, ShrunkIs
<1>5. Dropping(mem, mem', D, l)
  BY <1>1, <1>2, <1>3, DropShrink
<1> HIDE DEF l, D
<1>6. Core(mem', uhead', unlink, saved, FALSE, rt)
  BY <1>2, <1>3, <1>4, <1>5, CoreDrop, BlkIs
<1>7. mem'.sup = mem.sup
  BY <1>4 DEF Stepped
<1> QED
  BY <1>1, <1>2, <1>6, <1>7, OpNext

(* bumpEpoch keeps it.                                                     *)
LEMMA BumpCore ==
  ASSUME NEW rt, CoreNow(rt), NEW bb \in CanAlloc(mem), Bumping(bb)
  PROVE  CoreNext(rt)
<1>1. /\ phase \in {"run", "archive"} /\ phase' \in {"force", "forceagain"} /\ mem.sup.ehi < MaxEpoch
      /\ mem' = Bumped(mem, bb) /\ uhead' = uhead /\ unlink' = unlink
      /\ saved' = [saved EXCEPT ![mem.lab[mem.sup.active].epoch] = Contents(mem, mem.sup.active)]
  BY DEF Bumping, Root
<1>2. ~Forcing /\ Forcing'
  BY <1>1 DEF Forcing
<1>3. Core(mem, uhead, unlink, saved, FALSE, rt) /\ Book(mem, rt) /\ mem \in Image
  BY <1>2, CalmIs DEF Core
<1>4. bb \in Addr /\ Allocatable(mem, bb)
  BY CanAllocIs
<1>5. mem' \in Image /\ BumpTo(mem, mem', bb)
  BY <1>1, <1>3, <1>4, BumpedIs
<1>6. Core(mem', uhead', unlink', saved', TRUE, [rt EXCEPT ![mem.sup.ehi + 1] = bb])
  BY <1>1, <1>3, <1>4, <1>5, CoreBump
<1>7. NextRoots(rt) = [rt EXCEPT ![mem.sup.ehi + 1] = bb]
  <2>1. mem'.sup.ehi = mem.sup.ehi + 1 /\ mem'.sup.active = bb
    BY <1>5 DEF BumpTo
  <2>2. mem.sup.ehi \in Nat
    BY <1>3, NowIs
  <2> QED
    BY <2>1, <2>2 DEF NextRoots
<1>8. Core(mem', uhead', unlink', saved', Forcing', [rt EXCEPT ![mem.sup.ehi + 1] = bb])
  BY <1>2, <1>6, CoreFlag
<1> QED
  BY <1>7, <1>8 DEF CoreNext

(* A step in the same epoch has the same roots.                            *)
LEMMA NextSame ==
  ASSUME NEW rt, Core(mem', uhead', unlink', saved', Forcing', rt), mem'.sup.ehi = mem.sup.ehi
  PROVE  CoreNext(rt)
BY DEF CoreNext, NextRoots

(* Writing a block keeps it: at most its links move to the unlink queue.   *)
LEMMA FlushCore ==
  ASSUME NEW rt, CoreNow(rt), NEW b \in Blk, Flush(b)
  PROVE  CoreNext(rt)
<1>1. mem' = mem /\ saved' = saved /\ phase' = phase /\ Write(b)
  BY DEF Flush
<1>2. Forcing' <=> Forcing
  BY <1>1 DEF Forcing
<1>3. uhead \in [Blk -> Seq(Link)] /\ unlink \in Seq(Link)
  BY DEF CoreNow, Core
<1>4. CASE Vetted(prior[b]) = <<>> /\ ~Refused(Vetted(prior[b]))
  <2>1. uhead' = [uhead EXCEPT ![b] = <<>>] /\ unlink' = unlink \o uhead[b]
    BY <1>1, <1>4 DEF Write, Released
  <2>2. Core(mem, [uhead EXCEPT ![b] = <<>>], unlink \o uhead[b], saved, Forcing, rt)
    BY CoreRelease DEF CoreNow
  <2> QED
    BY <2>1, <2>2, <1>1, <1>2, CoreFlag, NextSame
<1>5. CASE ~(Vetted(prior[b]) = <<>> /\ ~Refused(Vetted(prior[b])))
  <2>1. uhead' = uhead /\ unlink' = unlink
    <3>1. CASE Refused(Vetted(prior[b]))
      BY <1>1, <3>1 DEF Write
    <3>2. CASE ~Refused(Vetted(prior[b]))
      <4>1. uhead' = [uhead EXCEPT ![b] = uhead[b]] /\ unlink' = unlink \o <<>>
        BY <1>1, <1>5, <3>2 DEF Write, Released
      <4> QED
        BY <4>1, <1>3
    <3> QED
      BY <3>1, <3>2
  <2> QED
    BY <2>1, <1>1, <1>2, CoreFlag, NextSame DEF CoreNow
<1> QED
  BY <1>4, <1>5

(* The unlink thread keeps it.                                             *)
LEMMA UnlinkCore ==
  ASSUME NEW rt, CoreNow(rt), Unlink
  PROVE  CoreNext(rt)
<1>1. /\ mem' = doRemoveLink(mem, Head(unlink)) /\ unlink # <<>> /\ unlink' = Tail(unlink)
      /\ uhead' = uhead /\ saved' = saved /\ phase' = phase
  BY DEF Unlink, history
<1>2. Forcing' <=> Forcing
  BY <1>1 DEF Forcing
<1>3. Core(mem', uhead', unlink', saved', Forcing, rt) /\ Head(unlink) \in Link /\ Good(mem, rt, Head(unlink))
  BY <1>1, CoreUnlink DEF CoreNow
<1>4. mem'.sup = mem.sup
  BY <1>1, <1>3, RemoveIs DEF CoreNow, Core, ClosedTo
<1> QED
  BY <1>2, <1>3, <1>4, CoreFlag, NextSame

(* bumpEpoch's superWrite keeps it, whether the old root is closed at once *)
(* or its link queued.                                                     *)
LEMMA ForceSuperCore ==
  ASSUME NEW rt, CoreNow(rt), ForceSuper
  PROVE  CoreNext(rt)
<1>1. Forcing /\ ~Forcing' /\ saved' = saved
  BY DEF ForceSuper, Forcing, history
<1>2. Core(mem, uhead, unlink, saved, TRUE, rt) /\ uhead \in [Blk -> Seq(Link)] /\ unlink \in Seq(Link)
  BY <1>1, CoreFlag DEF CoreNow, Core
<1>3. OldRoot(mem) = link(mem.snap[Root].to, "root", 0, FALSE)
  BY DEF OldRoot, Root
<1>4. CASE Vetted(prior[SB]) = <<>>
  <2>1. /\ mem' = doRemoveLink(mem, OldRoot(mem)) /\ uhead' = [uhead EXCEPT ![SB] = <<>>]
        /\ unlink' = unlink \o uhead[SB]
    BY <1>3, <1>4 DEF ForceSuper, superWrite, Released
  <2>2. Core(mem, uhead', unlink', saved, TRUE, rt)
    BY <2>1, <1>2, CoreRelease, BlkIs
  <2>3. Core(mem', uhead', unlink', saved, FALSE, rt)
    BY <2>1, <2>2, CoreForced
  <2>4. mem'.sup = mem.sup
    <3>1. mem \in Image /\ Book(mem, rt) /\ Forced(mem, rt, Ls(uhead, unlink), TRUE)
      BY <1>2 DEF Core
    <3>2. OldRoot(mem) \in Link /\ Good(mem, rt, OldRoot(mem))
      BY <3>1, OldRootIs DEF Forced
    <3> QED
      BY <2>1, <3>1, <3>2, RemoveIs DEF ClosedTo
  <2> QED
    BY <2>3, <2>4, <1>1, CoreFlag, NextSame
<1>5. CASE Vetted(prior[SB]) # <<>>
  <2>1. /\ mem' = mem /\ uhead' = [uhead EXCEPT ![SB] = Append(@, OldRoot(mem))]
        /\ unlink' = unlink \o <<>>
    BY <1>3, <1>5 DEF ForceSuper, superWrite, Released
  <2>2. Core(mem, uhead', unlink, saved, FALSE, rt)
    BY <2>1, <1>2, CoreQueued
  <2>3. unlink' = unlink
    BY <2>1, <1>2
  <2> QED
    BY <2>1, <2>2, <2>3, <1>1, CoreFlag, NextSame
<1> QED
  BY <1>4, <1>5

(* fsEpochLow keeps it.                                                    *)
LEMMA EpochLowCore ==
  ASSUME NEW rt, CoreNow(rt), NEW low \in Epoch, fsEpochLow(low)
  PROVE  CoreNext(rt)
<1>1. /\ mem' = [mem EXCEPT !.sup.elo = low] /\ low > mem.sup.elo /\ low <= mem.sup.ehi
      /\ saved' = saved /\ phase = "run" /\ phase' = phase
  BY DEF fsEpochLow, Op, history
<1>2. ~Forcing /\ ~Forcing'
  BY <1>1 DEF Forcing
<1>3. Core(mem, uhead, unlink, saved, FALSE, rt) /\ uhead \in [Blk -> Seq(Link)] /\ unlink \in Seq(Link) /\ mem \in Image
  BY <1>2, CalmIs DEF Core
<1>4. Core(mem', uhead, unlink, saved, FALSE, rt)
  BY <1>1, <1>3, CoreLow
<1>5. mem'.sup.ehi = mem.sup.ehi
  BY <1>1, <1>3, ImageIs DEF Image
<1>6. CASE Vetted(prior[SB]) = <<>>
  <2>1. uhead' = [uhead EXCEPT ![SB] = <<>>] /\ unlink' = unlink \o uhead[SB]
    BY <1>6 DEF fsEpochLow, superWrite, Released
  <2>2. Core(mem', uhead', unlink', saved, FALSE, rt)
    BY <2>1, <1>4, CoreRelease, BlkIs
  <2> QED
    BY <2>2, <1>1, <1>2, <1>5, CoreFlag, NextSame
<1>7. CASE Vetted(prior[SB]) # <<>>
  <2>1. uhead' = [uhead EXCEPT ![SB] = uhead[SB]] /\ unlink' = unlink \o <<>>
    BY <1>7 DEF fsEpochLow, superWrite, Released
  <2>2. uhead' = uhead /\ unlink' = unlink
    BY <2>1, <1>3
  <2> QED
    BY <2>2, <1>1, <1>2, <1>4, <1>5, CoreFlag, NextSame
<1> QED
  BY <1>6, <1>7

(* So does the end of cacheFlush.                                          *)
LEMMA FlushedCore ==
  ASSUME NEW rt, CoreNow(rt), Flushed
  PROVE  CoreNext(rt)
<1>1. mem' = mem /\ uhead' = uhead /\ unlink' = unlink /\ saved' = saved /\ ~Forcing /\ ~Forcing'
  BY DEF Flushed, cache, history, Forcing
<1> QED
  BY <1>1, CoreFlag, NextSame DEF CoreNow

-----------------------------------------------------------------------------
(* Every action keeps the types                                            *)

(* Lists of dependencies for every block                                   *)
Priors(pr) == pr \in [Blk -> Seq(Dep)] /\ \A b \in Blk : pr[b] \in Deps(b)

(* What is not dirty after a step is as it was.                            *)
CleanKept == \A b \in Blk \ dirty' : prior'[b] = prior[b] /\ uhead'[b] = uhead[b]

(* The type of prior.                                                      *)
LEMMA PriorsIs == ASSUME Types PROVE Priors(prior)
BY DEF Types, Priors

(* One or two blocks get new lists.                                        *)
LEMMA PriorsSet ==
  ASSUME NEW pr, Priors(pr), NEW x \in Blk, NEW l \in Deps(x), NEW y \in Blk, NEW k \in Deps(y)
  PROVE  /\ Priors([pr EXCEPT ![x] = l, ![y] = k])
         /\ Priors([pr EXCEPT ![x] = l])
<1>1. l \in Seq(Dep) /\ k \in Seq(Dep)
  BY DEF Deps
<1>2. pr \in [Blk -> Seq(Dep)] /\ \A b \in Blk : pr[b] \in Deps(b)
  BY DEF Priors
<1>3. [pr EXCEPT ![x] = l] \in [Blk -> Seq(Dep)] /\ [pr EXCEPT ![x] = l, ![y] = k] \in [Blk -> Seq(Dep)]
  BY <1>1, <1>2
<1>4. \A b \in Blk : [pr EXCEPT ![x] = l][b] = IF b = x THEN l ELSE pr[b]
  BY <1>2
<1>5. \A b \in Blk : [pr EXCEPT ![x] = l, ![y] = k][b] = IF b = y THEN k ELSE IF b = x THEN l ELSE pr[b]
  BY <1>2
<1>6. \A b \in Blk : [pr EXCEPT ![x] = l][b] \in Deps(b)
  BY <1>2, <1>4
<1>7. \A b \in Blk : [pr EXCEPT ![x] = l, ![y] = k][b] \in Deps(b)
  BY <1>2, <1>5
<1> QED
  BY <1>3, <1>6, <1>7 DEF Priors

(* A list with one more dependency.                                        *)
LEMMA DepDeps ==
  ASSUME NEW b \in Blk, NEW list \in Deps(b), NEW bb \in Blk, NEW s \in Slot,
         NEW old \in (IF b = SB THEN Addr ELSE Ptr)
  PROVE  <<dep(bb, s, old)>> \o list \in Deps(b)
<1>1. blockDependency(list, bb, s, old, {bb}) = <<dep(bb, s, old)>> \o list
  BY DEF blockDependency
<1> QED
  BY <1>1, DependencyDeps

(* What an operation must show to keep the types.                          *)
LEMMA OpTypes ==
  ASSUME Types, Doing, Priors(prior'), dirty \subseteq dirty', dirty' \subseteq Blk, CleanKept, written' \subseteq Addr
  PROVE  Types'
<1>1. disk' = disk /\ phase' = phase /\ ops' = ops + 1 /\ ops < MaxOps /\ ~Forcing'
  BY DEF Doing, Forcing
<1>2. ops' \in 0..MaxOps
  BY <1>1, BoundAssumption DEF Types
<1>3. \A b \in Blk \ dirty' : prior'[b] = <<>> /\ uhead'[b] = <<>>
  BY DEF Types, CleanKept
<1>4. prior' \in [Blk -> Seq(Dep)] /\ \A b \in Blk : prior'[b] \in Deps(b)
  BY DEF Priors
<1>5. disk' \in Image /\ phase' \in {"run", "force", "forceagain", "flush", "archive"}
  BY <1>1 DEF Types
<1>6. Forcing' => SB \in dirty'
  BY <1>1
<1> QED
  BY <1>2, <1>3, <1>4, <1>5, <1>6, Zenon DEF Types

(* blockWalk keeps the types.                                              *)
LEMMA WalkTypes ==
  ASSUME NEW rt, CoreNow(rt), Types, NEW p, NEW s \in Slot, Walk(p, s)
  PROVE  Types'
<1>0. mem \in Image /\ uhead \in [Blk -> Seq(Link)] /\ mem.kid \in Kd /\ Root \in Addr
  BY ImageIs DEF CoreNow, Core, Root
<1>1. /\ Doing /\ Holding(p)
      /\ WalkIn(p, s) \/ \E bb \in CanAlloc(mem) : WalkNew(p, s, bb) \/ WalkCopy(p, s, bb)
  BY <1>0, WalkIs
<1>2. p \in Addr /\ p \in Blk /\ p # SB /\ Priors(prior) /\ dirty \subseteq Blk /\ written \subseteq Addr /\ prior[p] \in Deps(p)
      /\ mem.kid[p][s] \in Ptr
  BY <1>0, <1>1, BlkIs, PriorsIs DEF Holding, Types, Kd
<1>3. CASE WalkIn(p, s)
  <2>1. mem.kid[p][s].to \in Addr
    BY <1>2, <1>3 DEF WalkIn, Ptr
  <2>2. dirty \subseteq dirty' /\ dirty' \subseteq Blk /\ prior' = prior /\ uhead' = uhead /\ written' = written
    BY <2>1, <1>2, <1>3, BlkIs DEF WalkIn
  <2>3. Priors(prior') /\ CleanKept
    BY <2>2, <1>2 DEF CleanKept
  <2> QED
    BY <2>2, <2>3, <1>1, <1>2, OpTypes
<1>4. ASSUME NEW bb \in CanAlloc(mem), WalkNew(p, s, bb) PROVE Types'
  <2> DEFINE k == <<dep(bb, s, Nil)>> \o prior[p]
  <2>1. bb \in Addr /\ bb \in Blk /\ bb # SB
    BY CanAllocIs, BlkIs
  <2>2. k \in Deps(p) /\ LabelFirst \in Deps(bb)
    <3>1. Nil \in Ptr
      BY DEF Ptr
    <3> QED
      BY <3>1, <2>1, <1>2, DepDeps, LabelFirstIs
  <2>3. /\ dirty' = dirty \cup {LB, bb, p} /\ prior' = [prior EXCEPT ![bb] = LabelFirst, ![p] = k]
        /\ uhead' = uhead /\ written' = written \ {bb}
    BY <1>4 DEF WalkNew
  <2> HIDE DEF k
  <2>4. Priors(prior')
    BY <2>1, <2>2, <2>3, <1>2, PriorsSet
  <2>5. CleanKept
    BY <2>3, <1>2 DEF CleanKept, Priors
  <2>6. dirty \subseteq dirty' /\ dirty' \subseteq Blk /\ written' \subseteq Addr
    BY <2>1, <2>3, <1>2, BlkIs
  <2> QED
    BY <2>4, <2>5, <2>6, <1>1, OpTypes
<1>5. ASSUME NEW bb \in CanAlloc(mem), WalkCopy(p, s, bb) PROVE Types'
  <2> DEFINE k == Unprior(<<dep(bb, s, mem.kid[p][s])>> \o prior[p], mem.kid[p][s].to)
             u == Append(uhead[p], link(mem.kid[p][s].to, mem.kid[p][s].type, mem.lab[p].epoch, FALSE))
  <2>1. bb \in Addr /\ bb \in Blk /\ bb # SB
    BY CanAllocIs, BlkIs
  <2>2. k \in Deps(p) /\ LabelFirst \in Deps(bb)
    BY <2>1, <1>2, DepDeps, UnpriorDeps, LabelFirstIs
  <2>3. /\ dirty' = dirty \cup {LB, bb, p} /\ prior' = [prior EXCEPT ![bb] = LabelFirst, ![p] = k]
        /\ uhead' = [uhead EXCEPT ![p] = u] /\ written' = written \ {bb}
    BY <1>5 DEF WalkCopy
  <2> HIDE DEF k, u
  <2>4. Priors(prior')
    BY <2>1, <2>2, <2>3, <1>2, PriorsSet
  <2>5. CleanKept
    <3> SUFFICES ASSUME NEW b \in Blk \ dirty' PROVE prior'[b] = prior[b] /\ uhead'[b] = uhead[b]
      BY DEF CleanKept
    <3>1. b # p /\ b # bb
      BY <2>3
    <3> QED
      BY <3>1, <2>3, <1>0, <1>2 DEF Priors
  <2>6. dirty \subseteq dirty' /\ dirty' \subseteq Blk /\ written' \subseteq Addr
    BY <2>1, <2>3, <1>2, BlkIs
  <2> QED
    BY <2>4, <2>5, <2>6, <1>1, OpTypes
<1> QED
  BY <1>1, <1>3, <1>4, <1>5

(* Removing a file or a pointer keeps them.                                *)
LEMMA RemoveLinkTypes ==
  ASSUME NEW rt, CoreNow(rt), Types, NEW p, NEW s \in Slot, RemoveLink(p, s)
  PROVE  Types'
<1>0. mem \in Image /\ uhead \in [Blk -> Seq(Link)]
  BY DEF CoreNow, Core
<1>1. Doing /\ Holding(p) /\ Cutting(p, s)
  BY <1>0, RemoveLinkIs
<1>2. p \in Blk /\ Priors(prior) /\ dirty \subseteq Blk /\ written \subseteq Addr /\ prior[p] \in Deps(p)
  BY <1>0, <1>1, BlkIs, PriorsIs DEF Holding, Types
<1> DEFINE k == Unprior(prior[p], mem.kid[p][s].to)
           u == Append(uhead[p], link(mem.kid[p][s].to, mem.kid[p][s].type, mem.lab[p].epoch, TRUE))
<1>3. k \in Deps(p)
  BY <1>2, UnpriorDeps
<1>4. /\ dirty' = dirty \cup {p} /\ prior' = [prior EXCEPT ![p] = k]
      /\ uhead' = [uhead EXCEPT ![p] = u] /\ written' = written
  BY <1>1 DEF Cutting
<1> HIDE DEF k, u
<1>5. Priors(prior')
  BY <1>2, <1>3, <1>4, PriorsSet
<1>6. CleanKept
  <2> SUFFICES ASSUME NEW b \in Blk \ dirty' PROVE prior'[b] = prior[b] /\ uhead'[b] = uhead[b]
    BY DEF CleanKept
  <2>1. b # p
    BY <1>4
  <2> QED
    BY <2>1, <1>0, <1>2, <1>4 DEF Priors
<1> QED
  BY <1>1, <1>2, <1>4, <1>5, <1>6, OpTypes

(* Growing a file keeps them.                                              *)
LEMMA GrowTypes ==
  ASSUME NEW rt, CoreNow(rt), Types, NEW s \in FileSlot, Grow(s)
  PROVE  Types'
<1>0. mem \in Image /\ uhead \in [Blk -> Seq(Link)] /\ mem.kid \in Kd /\ Root \in Addr
  BY ImageIs DEF CoreNow, Core, Root
<1>1. Doing /\ s \in Slot /\ Holding(Root) /\ \E bb \in CanAlloc(mem) : Growing(s, bb)
  BY GrowIs
<1>2. Root \in Blk /\ Root # SB /\ Priors(prior) /\ dirty \subseteq Blk /\ written \subseteq Addr /\ prior[Root] \in Deps(Root)
      /\ mem.kid[Root][s] \in Ptr /\ Nil \in Ptr
  BY <1>0, <1>1, BlkIs, PriorsIs DEF Types, Kd, Ptr
<1>3. PICK bb \in CanAlloc(mem) : Growing(s, bb)
  BY <1>1
<1> DEFINE l == IF mem.kid[Root][s] = Nil THEN LabelFirst
                ELSE blockDependency(LabelFirst, mem.kid[Root][s].to, 0, Nil, dirty')
           k == <<dep(bb, s, mem.kid[Root][s])>> \o prior[Root]
<1>4. bb \in Addr /\ bb \in Blk /\ bb # SB
  BY CanAllocIs, BlkIs
<1>5. l \in Deps(bb) /\ k \in Deps(Root)
  <2>1. mem.kid[Root][s] # Nil => mem.kid[Root][s].to \in Blk
    BY <1>2, BlkIs DEF Ptr
  <2>2. LabelFirst \in Deps(bb) /\ 0 \in Slot
    BY <1>4, LabelFirstIs, SlotAssumption
  <2>3. l \in Deps(bb)
    BY <2>1, <2>2, <1>2, <1>4, DependencyDeps
  <2>4. k \in Deps(Root)
    BY <1>1, <1>2, <1>4, DepDeps
  <2> QED
    BY <2>3, <2>4
<1>6. /\ dirty' = dirty \cup {LB, bb, Root} /\ prior' = [prior EXCEPT ![bb] = l, ![Root] = k]
      /\ uhead' = uhead /\ written' = written \ {bb}
  BY <1>3 DEF Growing
<1> HIDE DEF l, k
<1>7. Priors(prior')
  BY <1>2, <1>4, <1>5, <1>6, PriorsSet
<1>8. CleanKept
  BY <1>2, <1>6 DEF CleanKept, Priors
<1>9. dirty \subseteq dirty' /\ dirty' \subseteq Blk /\ written' \subseteq Addr
  BY <1>2, <1>4, <1>6, BlkIs
<1> QED
  BY <1>1, <1>7, <1>8, <1>9, OpTypes

(* Shrinking one keeps them.                                               *)
LEMMA ShrinkTypes ==
  ASSUME NEW rt, CoreNow(rt), Types, NEW s \in FileSlot, Shrink(s)
  PROVE  Types'
<1>0. mem \in Image /\ uhead \in [Blk -> Seq(Link)] /\ mem.kid \in Kd /\ Root \in Addr
  BY ImageIs DEF CoreNow, Core, Root
<1>1. PICK o \in Addr : Doing /\ s \in Slot /\ Holding(Root) /\ Shrinking(s, o)
  BY ShrinkIs
<1> DEFINE b0 == mem.kid[o][0]
           h == IF b0 = Nil THEN prior[Root] ELSE blockDependency(prior[Root], b0.to, s, mem.kid[Root][s], dirty)
           l == Unprior(h, o)
           k == <<dep(Root, 0, b0)>> \o prior[o]
           u == Append(uhead[Root], link(o, "ptr", mem.lab[Root].epoch, TRUE))
<1>2. Root \in Blk /\ Root # SB /\ Priors(prior) /\ dirty \subseteq Blk /\ written \subseteq Addr /\ mem.kid[Root][s] \in Ptr /\ 0 \in Slot
  BY <1>0, <1>1, BlkIs, PriorsIs, SlotAssumption DEF Types, Kd
<1>3. /\ dirty' = dirty \cup {Root, o} /\ prior' = [prior EXCEPT ![Root] = l, ![o] = k]
      /\ uhead' = [uhead EXCEPT ![Root] = u] /\ written' = written
  BY <1>1 DEF Shrinking
<1>4. o \in Addr /\ o \in Blk /\ o # SB
  BY <1>1, BlkIs
<1>5. b0 \in Ptr
  BY <1>0, <1>2, <1>4 DEF Kd
<1> HIDE DEF b0, u
<1>6. k \in Deps(o) /\ l \in Deps(Root)
  <2>1. prior[o] \in Deps(o) /\ prior[Root] \in Deps(Root)
    BY <1>2, <1>4 DEF Priors
  <2>2. k \in Deps(o)
    BY <2>1, <1>2, <1>4, <1>5, DepDeps
  <2>3. h \in Deps(Root)
    <3>1. b0 # Nil => b0.to \in Blk
      BY <1>5, BlkIs DEF Ptr
    <3> QED
      BY <3>1, <2>1, <1>1, <1>2, DependencyDeps
  <2>4. l \in Deps(Root)
    <3> HIDE DEF h
    <3> QED
      BY <2>3, <1>2, <1>4, UnpriorDeps
  <2> QED
    BY <2>2, <2>4
<1> HIDE DEF k, l
<1>7. Priors(prior')
  BY <1>2, <1>3, <1>4, <1>6, PriorsSet
<1>8. CleanKept
  <2> SUFFICES ASSUME NEW b \in Blk \ dirty' PROVE prior'[b] = prior[b] /\ uhead'[b] = uhead[b]
    BY DEF CleanKept
  <2>1. b # Root /\ b # o
    BY <1>3
  <2> QED
    BY <2>1, <1>0, <1>2, <1>3 DEF Priors
<1>9. dirty \subseteq dirty' /\ dirty' \subseteq Blk
  BY <1>2, <1>3, <1>4
<1> QED
  BY <1>1, <1>2, <1>3, <1>7, <1>8, <1>9, OpTypes

(* What is not dirty after a step has no dependencies and no links.        *)
CleanEmpty == \A b \in Blk \ dirty' : prior'[b] = <<>> /\ uhead'[b] = <<>>
Working == {"run", "force", "forceagain", "flush", "archive"}

(* What any other step must show to keep the types.                        *)
LEMMA TypesNext ==
  ASSUME disk' \in Image, dirty' \subseteq Blk, Priors(prior'), CleanEmpty, phase' \in Working,
         written' \subseteq Addr, ops' \in 0..MaxOps, Forcing' => SB \in dirty'
  PROVE  Types'
<1> HIDE DEF Forcing
<1> QED
  BY Zenon DEF Types, Working, Priors, CleanEmpty

(* The types, one by one.                                                  *)
LEMMA TypesIs ==
  ASSUME Types
  PROVE  /\ disk \in Image /\ dirty \subseteq Blk /\ Priors(prior) /\ prior \in [Blk -> Seq(Dep)]
         /\ \A b \in Blk : prior[b] \in Deps(b)
         /\ \A b \in Blk \ dirty : prior[b] = <<>> /\ uhead[b] = <<>>
         /\ phase \in Working /\ written \subseteq Addr /\ ops \in 0..MaxOps
         /\ Forcing => SB \in dirty
BY PriorsIs DEF Types, Working

(* One more operation within the bound                                     *)
LEMMA OneMore == ASSUME ops \in 0..MaxOps, ops < MaxOps, ops' = ops + 1 PROVE ops' \in 0..MaxOps
BY BoundAssumption

(* bumpEpoch keeps the types.                                              *)
LEMMA BumpTypes ==
  ASSUME NEW rt, CoreNow(rt), Types, NEW bb \in CanAlloc(mem), Bumping(bb)
  PROVE  Types'
<1>1. /\ ops < MaxOps /\ ops' = ops + 1 /\ phase' \in {"force", "forceagain"}
      /\ prior' = [prior EXCEPT ![bb] = LabelFirst, ![SB] = <<dep(bb, 0, Root)>> \o prior[SB]]
      /\ dirty' = dirty \cup {LB, bb, SB} /\ written' = written \ {bb} /\ disk' = disk /\ uhead' = uhead
  BY DEF Bumping
<1>2. bb \in Addr /\ bb \in Blk /\ bb # SB /\ SB \in Blk /\ LB \in Blk /\ 0 \in Slot
  BY CanAllocIs, BlkIs, SlotAssumption
<1>3. Root \in Addr
  BY ImageIs DEF CoreNow, Core, Root
<1>4. <<dep(bb, 0, Root)>> \o prior[SB] \in Deps(SB)
  BY <1>2, <1>3, DepDeps, TypesIs
<1>5. LabelFirst \in Deps(bb)
  BY <1>2, LabelFirstIs
<1> DEFINE k == <<dep(bb, 0, Root)>> \o prior[SB]
<1> HIDE DEF k
<1>6. Priors(prior')
  <2>1. prior' = [prior EXCEPT ![bb] = LabelFirst, ![SB] = k] /\ k \in Deps(SB)
    BY <1>1, <1>4 DEF k
  <2> QED
    BY <2>1, <1>2, <1>5, PriorsSet, TypesIs
<1>7. CleanEmpty
  <2> SUFFICES ASSUME NEW b \in Blk \ dirty' PROVE prior'[b] = <<>> /\ uhead'[b] = <<>>
    BY DEF CleanEmpty
  <2>1. b # bb /\ b # SB /\ b \notin dirty
    BY <1>1
  <2>2. prior'[b] = prior[b]
    BY <1>1, <2>1, TypesIs
  <2> QED
    BY <2>1, <2>2, <1>1, TypesIs
<1>8. ops' \in 0..MaxOps /\ disk' \in Image /\ written' \subseteq Addr /\ dirty' \subseteq Blk
  BY <1>1, <1>2, OneMore, TypesIs
<1>9. SB \in dirty' /\ phase' \in Working
  BY <1>1 DEF Working
<1> QED
  BY <1>6, <1>7, <1>8, <1>9, TypesNext

(* The lists after a write are of the right type.                          *)
LEMMA WroteAll ==
  ASSUME NEW b \in Blk, NEW list \in Deps(b), NEW pr, Priors(pr)
  PROVE  Priors([c \in Blk |-> IF c = b THEN list ELSE Wrote(pr[c], b)])
<1> DEFINE pr2 == [c \in Blk |-> IF c = b THEN list ELSE Wrote(pr[c], b)]
<1>1. \A c \in Blk : pr[c] \in Deps(c)
  BY DEF Priors
<1>2. ASSUME NEW c \in Blk PROVE pr2[c] \in Deps(c)
  <2>1. Wrote(pr[c], b) \in Deps(c)
    BY <1>1, WroteDeps
  <2> QED
    BY <2>1
<1>3. \A c \in Blk : pr2[c] \in Seq(Dep)
  BY <1>2 DEF Deps
<1>4. pr2 \in [Blk -> Seq(Dep)]
  BY <1>3
<1> QED
  BY <1>2, <1>4 DEF Priors

(* Writing a block keeps the types; it is clean only with no dependency    *)
(* and no link left.                                                       *)
LEMMA FlushTypes ==
  ASSUME NEW rt, CoreNow(rt), Types, NEW b \in Blk, Flush(b)
  PROVE  Types'
<1> DEFINE list == Vetted(prior[b])
<1>1. /\ mem \in Image /\ uhead \in [Blk -> Seq(Link)] /\ phase' = phase /\ ops' = ops /\ Write(b) /\ b \in dirty
      /\ b = SB => ~Forcing
  BY DEF CoreNow, Core, Flush, Forcing
<1>2. Forcing' <=> Forcing
  BY <1>1 DEF Forcing
<1>3. list \in Deps(b) /\ list \in Seq(Dep)
  <2>1. list \in Deps(b)
    BY VettedDeps, TypesIs
  <2> QED
    BY <2>1 DEF Deps
<1> HIDE DEF list, Forcing
<1>4. CASE Refused(list)
  <2>1. prior' = [prior EXCEPT ![b] = list] /\ disk' = disk /\ dirty' = dirty /\ uhead' = uhead /\ written' = written
    BY <1>1, <1>4 DEF Write, list
  <2>2. Priors(prior')
    BY <2>1, <1>3, TypesIs, PriorsSet
  <2>3. CleanEmpty
    BY <1>1, <2>1, TypesIs DEF CleanEmpty
  <2> QED
    BY <2>1, <2>2, <2>3, <1>1, <1>2, TypesIs, TypesNext
<1>5. CASE ~Refused(list)
  <2>1. /\ disk' = Written(mem, b, list) /\ dirty' = StillDirty(b, list)
        /\ prior' = [c \in Blk |-> IF c = b THEN list ELSE Wrote(prior[c], b)]
        /\ uhead' = [uhead EXCEPT ![b] = IF list = <<>> THEN <<>> ELSE uhead[b]]
        /\ written' = written \cup ({b} \cap Addr)
    BY <1>1, <1>5 DEF Write, list
  <2>2. disk' \in Image
    BY <2>1, <1>1, <1>3, WrittenIs, TypesIs, Zenon
  <2>3. Priors(prior')
    BY <2>1, <1>3, WroteAll, TypesIs
  <2>4. dirty' \subseteq Blk /\ written' \subseteq Addr /\ \A c \in Blk : c # b => (c \in dirty' <=> c \in dirty)
    BY <2>1, TypesIs DEF StillDirty
  <2>5. CleanEmpty
    <3> SUFFICES ASSUME NEW c \in Blk \ dirty' PROVE prior'[c] = <<>> /\ uhead'[c] = <<>>
      BY DEF CleanEmpty
    <3>1. CASE c = b
      <4>1. list = <<>>
        BY <3>1, <2>1, <1>1 DEF StillDirty
      <4> QED
        BY <4>1, <3>1, <2>1, <1>1
    <3>2. CASE c # b
      <4>1. prior[c] = <<>> /\ uhead[c] = <<>>
        BY <3>2, <2>4, TypesIs
      <4>2. Wrote(prior[c], b) = <<>>
        BY <4>1, WroteIs, TypesIs
      <4> QED
        BY <3>2, <4>1, <4>2, <2>1, <1>1
    <3> QED
      BY <3>1, <3>2
  <2>6. Forcing' => SB \in dirty'
    BY <1>1, <1>2, <2>4, BlkIs, TypesIs
  <2> QED
    BY <2>2, <2>3, <2>4, <2>5, <2>6, <1>1, TypesIs, TypesNext
<1> QED
  BY <1>4, <1>5

(* The unlink thread keeps them.                                           *)
LEMMA UnlinkTypes ==
  ASSUME Types, Unlink
  PROVE  Types'
<1>1. /\ dirty \subseteq dirty' /\ dirty' \subseteq dirty \cup {LB}
      /\ disk' = disk /\ prior' = prior /\ uhead' = uhead /\ phase' = phase /\ written' = written /\ ops' = ops
  BY DEF Unlink, history
<1>2. Forcing' <=> Forcing
  BY <1>1 DEF Forcing
<1> HIDE DEF Forcing
<1>3. CleanEmpty /\ dirty' \subseteq Blk
  BY <1>1, BlkIs, TypesIs DEF CleanEmpty
<1> QED
  BY <1>1, <1>2, <1>3, TypesIs, TypesNext

(* The end of cacheFlush keeps them.                                       *)
LEMMA FlushedTypes ==
  ASSUME Types, Flushed
  PROVE  Types'
<1>1. /\ dirty' = dirty /\ disk' = disk /\ prior' = prior /\ uhead' = uhead /\ written' = written /\ ops' = ops
      /\ phase' \in {"run", "archive"}
  BY DEF Flushed, cache, history
<1>2. CleanEmpty /\ ~Forcing' /\ phase' \in Working
  BY <1>1, TypesIs DEF CleanEmpty, Forcing, Working
<1> QED
  BY <1>1, <1>2, TypesIs, TypesNext

(* bumpEpoch's superWrite keeps them.                                      *)
LEMMA ForceSuperTypes ==
  ASSUME NEW rt, CoreNow(rt), Types, ForceSuper
  PROVE  Types'
<1> DEFINE list == Vetted(prior[SB])
           old == link(mem.snap[Root].to, "root", 0, FALSE)
<1>1. /\ mem \in Image /\ uhead \in [Blk -> Seq(Link)] /\ SB \in dirty /\ SB \in Blk /\ LB \in Blk /\ LB # SB
      /\ written' = written /\ ops' = ops /\ disk' = Written(mem, SB, list) /\ phase' \in Working /\ ~Forcing'
  <2>1. SB \in Blk /\ LB \in Blk /\ LB # SB
    BY BlkIs
  <2>2. mem \in Image /\ uhead \in [Blk -> Seq(Link)]
    BY DEF CoreNow, Core
  <2>3. Forcing /\ ~Forcing' /\ phase' \in Working
    BY DEF Forcing, ForceSuper, Working
  <2> HIDE DEF Forcing
  <2>4. SB \in dirty
    BY <2>3, TypesIs
  <2>5. written' = written /\ ops' = ops /\ disk' = Written(mem, SB, list)
    BY DEF ForceSuper, superWrite, history
  <2> QED
    BY <2>1, <2>2, <2>3, <2>4, <2>5
<1>2. list \in Deps(SB) /\ <<>> \in Deps(SB)
  BY <1>1, VettedDeps, NoDeps, TypesIs
<1>3. /\ list = <<>> => dirty' = (dirty \ {SB}) \cup {LB} /\ prior' = [prior EXCEPT ![SB] = <<>>]
                        /\ uhead' = [uhead EXCEPT ![SB] = <<>>]
      /\ list # <<>> => dirty' = dirty /\ prior' = [prior EXCEPT ![SB] = Unprior(list, old.addr)]
                        /\ uhead' = [uhead EXCEPT ![SB] = Append(@, old)]
  BY DEF ForceSuper
<1> HIDE DEF list, old
<1>4. disk' \in Image
  BY <1>1, <1>2, WrittenIs, TypesIs, Zenon
<1>5. CASE list = <<>>
  <2>0. prior' = [prior EXCEPT ![SB] = list]
    BY <1>3, <1>5
  <2>1. Priors(prior')
    BY <2>0, <1>1, <1>2, TypesIs, PriorsSet
  <2>2. CleanEmpty
    <3> SUFFICES ASSUME NEW c \in Blk \ dirty' PROVE prior'[c] = <<>> /\ uhead'[c] = <<>>
      BY DEF CleanEmpty
    <3>1. CASE c = SB
      BY <3>1, <1>1, <1>3, <1>5, TypesIs
    <3>2. CASE c # SB
      BY <3>2, <1>1, <1>3, <1>5, TypesIs
    <3> QED
      BY <3>1, <3>2
  <2>3. dirty' \subseteq Blk
    BY <1>1, <1>3, <1>5, TypesIs
  <2> QED
    BY <2>1, <2>2, <2>3, <1>1, <1>4, TypesIs, TypesNext
<1>6. CASE list # <<>>
  <2>0. Unprior(list, old.addr) \in Deps(SB)
    BY <1>1, <1>2, UnpriorDeps
  <2> DEFINE k == Unprior(list, old.addr)
  <2>4. prior' = [prior EXCEPT ![SB] = k] /\ k \in Deps(SB)
    BY <2>0, <1>3, <1>6
  <2> HIDE DEF k
  <2>1. Priors(prior')
    BY <2>4, <1>1, TypesIs, PriorsSet
  <2>2. CleanEmpty
    <3> SUFFICES ASSUME NEW c \in Blk \ dirty' PROVE prior'[c] = <<>> /\ uhead'[c] = <<>>
      BY DEF CleanEmpty
    <3>1. c # SB /\ c \notin dirty
      BY <1>1, <1>3, <1>6
    <3>2. prior'[c] = prior[c] /\ uhead'[c] = uhead[c]
      BY <3>1, <2>4, <1>1, <1>3, <1>6, TypesIs
    <3> QED
      BY <3>1, <3>2, TypesIs
  <2>3. dirty' \subseteq Blk
    BY <1>3, <1>6, TypesIs
  <2> QED
    BY <2>1, <2>2, <2>3, <1>1, <1>4, TypesIs, TypesNext
<1> QED
  BY <1>5, <1>6

(* fsEpochLow keeps them.                                                  *)
LEMMA EpochLowTypes ==
  ASSUME NEW rt, CoreNow(rt), Types, NEW low \in Epoch, fsEpochLow(low)
  PROVE  Types'
<1> DEFINE list == Vetted(prior[SB])
<1>1. /\ mem' \in Image /\ uhead \in [Blk -> Seq(Link)] /\ SB \in Blk
      /\ written' = written /\ ops < MaxOps /\ ops' = ops + 1 /\ disk' = Written(mem', SB, list)
      /\ phase' \in Working /\ ~Forcing'
      /\ prior' = [prior EXCEPT ![SB] = list] /\ dirty' = StillDirty(SB, list)
      /\ uhead' = [uhead EXCEPT ![SB] = IF list = <<>> THEN <<>> ELSE uhead[SB]]
  <2>1. mem' \in Image
    BY EpochLowCore DEF CoreNext, Core
  <2> QED
    BY <2>1, BlkIs DEF CoreNow, Core, Forcing, fsEpochLow, Op, superWrite, history, Working
<1>2. list \in Deps(SB)
  BY <1>1, VettedDeps, TypesIs
<1>3. SB \notin dirty => list = <<>>
  BY <1>1, VettedOld, TypesIs
<1> HIDE DEF list
<1>4. disk' \in Image
  BY <1>1, <1>2, WrittenIs, TypesIs, Zenon
<1>5. Priors(prior')
  BY <1>1, <1>2, TypesIs, PriorsSet
<1>6. CleanEmpty
  <2> SUFFICES ASSUME NEW c \in Blk \ dirty' PROVE prior'[c] = <<>> /\ uhead'[c] = <<>>
    BY DEF CleanEmpty
  <2>1. CASE c = SB
    <3>1. list = <<>>
      BY <2>1, <1>1, <1>3 DEF StillDirty
    <3> QED
      BY <3>1, <2>1, <1>1, TypesIs
  <2>2. CASE c # SB
    <3>1. c \notin dirty
      BY <2>2, <1>1 DEF StillDirty
    <3>2. prior'[c] = prior[c] /\ uhead'[c] = uhead[c]
      BY <2>2, <1>1, TypesIs
    <3> QED
      BY <3>1, <3>2, TypesIs
  <2> QED
    BY <2>1, <2>2
<1>7. dirty' \subseteq Blk /\ ops' \in 0..MaxOps
  BY <1>1, OneMore, TypesIs DEF StillDirty
<1> QED
  BY <1>1, <1>4, <1>5, <1>6, <1>7, TypesIs, TypesNext

-----------------------------------------------------------------------------
(* The invariant                                                           *)

(* Without a crash, the state has this shape.                              *)
FineNow == Types /\ \E rt : CoreNow(rt)
Invariant == crashes \in Nat /\ (crashes = 0 => FineNow)

(* The image that flfmt makes.                                             *)
LEMMA FormatIs ==
  /\ Format \in Image
  /\ \A a \in Addr, s \in Slot : Format.kid[a][s] = Nil
  /\ \A a \in Addr : /\ Format.snap[a] = Nil
                     /\ a = FirstRoot => /\ Format.lab[a].st = "alloc" /\ Format.lab[a].type = "root"
                                         /\ Format.lab[a].epoch = 1
                     /\ a # FirstRoot => Format.lab[a].st = "free"
  /\ Format.sup.active = FirstRoot /\ Format.sup.ehi = 1 /\ Format.sup.elo = 1
<1>1. FirstRoot \in Addr /\ 1 \in Epoch /\ 0 \in 0..MaxEpoch /\ 1 \in 0..MaxEpoch
  BY AddrAssumption, BoundAssumption DEF Epoch
<1>2. FreeLabel \in Label /\ FreeLabel.st = "free"
  BY <1>1 DEF FreeLabel, Label
<1>3. [FreeLabel EXCEPT !.st = "alloc", !.type = "root", !.epoch = 1] \in Label
  BY <1>1 DEF FreeLabel, Label
<1>4. NoKids \in [Slot -> Ptr] /\ Nil \in SnapEntry
  BY DEF NoKids, Ptr, SnapEntry
<1>5. /\ [a \in Addr |-> NoKids] \in [Addr -> [Slot -> Ptr]] /\ [a \in Addr |-> Nil] \in [Addr -> SnapEntry]
      /\ [a \in Addr |-> IF a = FirstRoot THEN [FreeLabel EXCEPT !.st = "alloc", !.type = "root", !.epoch = 1]
                         ELSE FreeLabel] \in [Addr -> Label]
      /\ [active |-> FirstRoot, ehi |-> 1, elo |-> 1] \in [active: Addr, ehi: Epoch, elo: Epoch]
  BY <1>1, <1>2, <1>3, <1>4
<1>6. Format \in Image
  BY <1>5 DEF Format, Image
<1>7. \A a \in Addr : a = FirstRoot => /\ Format.lab[a].st = "alloc" /\ Format.lab[a].type = "root"
                                       /\ Format.lab[a].epoch = 1
  BY <1>1 DEF Format, FreeLabel
<1>8. \A a \in Addr : a # FirstRoot => Format.lab[a].st = "free"
  BY <1>1, <1>2 DEF Format
<1>9. /\ \A a \in Addr, s \in Slot : Format.kid[a][s] = Nil
      /\ \A a \in Addr : Format.snap[a] = Nil
      /\ Format.sup.active = FirstRoot /\ Format.sup.ehi = 1 /\ Format.sup.elo = 1
  BY DEF Format, NoKids
<1> QED
  BY <1>6, <1>7, <1>8, <1>9

(* Its one tree is in order.                                               *)
LEMMA FormatBook ==
  Book(Format, [e \in Epoch |-> FirstRoot])
<1> DEFINE rt == [e \in Epoch |-> FirstRoot]
           m == Format
<1>0. /\ m \in Image /\ FirstRoot \in Addr /\ 1 \in Epoch
      /\ m.sup.active = FirstRoot /\ m.sup.ehi = 1 /\ m.sup.elo = 1
      /\ \A a \in Addr, s \in Slot : m.kid[a][s] = Nil
  BY FormatIs, AddrAssumption, BoundAssumption DEF Epoch
<1>1. Eras(m) = {1}
  BY <1>0 DEF Eras
<1>2. rt \in [Epoch -> Addr] /\ rt[1] = FirstRoot
  BY <1>0
<1>3. /\ m.lab[FirstRoot].st = "alloc" /\ m.lab[FirstRoot].type = "root" /\ m.lab[FirstRoot].epoch = 1
      /\ m.snap[FirstRoot] = Nil
  BY <1>0, FormatIs
<1>8. \A a \in Addr : m.lab[a].st # "closed" /\ m.lab[a].st # "bad"
  <2> SUFFICES ASSUME NEW a \in Addr PROVE m.lab[a].st \in {"free", "alloc"}
    OBVIOUS
  <2> QED
    BY FormatIs
<1> HIDE DEF rt, m
<1>4. \A x \in Addr : Holds(m.kid, FirstRoot, x) => x = FirstRoot
  BY <1>0 DEF Holds
<1>5. \A x \in Addr : In(m.kid, FirstRoot, x) => x = FirstRoot
  BY <1>0 DEF In, Has
<1>6. Roots(m, rt)
  BY <1>0, <1>1, <1>2, <1>3 DEF Roots
<1>7. Trees(m, rt)
  <2>1. Sound(m.kid, FirstRoot) /\ Typed(m, FirstRoot)
    BY <1>0 DEF Sound, Typed
  <2>2. Alive(m, FirstRoot, 1)
    BY <1>3, <1>5 DEF Alive
  <2> QED
    BY <2>1, <2>2, <1>1, <1>2 DEF Trees
<1>9. Between(m, rt) /\ Copied(m, rt)
  BY <1>1 DEF Between, Copied
<1>10. Leaves(m) /\ Past(m)
  BY <1>0, <1>8 DEF Leaves, Past
<1>11. Book(m, rt)
  BY <1>6, <1>7, <1>9, <1>10 DEF Book
<1> QED
  BY <1>11 DEF rt, m

(* The invariant holds at first.                                           *)
LEMMA InitInvariant == Init => Invariant
<1> SUFFICES ASSUME Init PROVE Invariant
  OBVIOUS
<1> DEFINE rt == [e \in Epoch |-> FirstRoot]
<1>1. /\ mem = Format /\ disk = Format /\ written = {FirstRoot} /\ dirty = {} /\ prior = [b \in Blk |-> <<>>]
      /\ uhead = [b \in Blk |-> <<>>] /\ unlink = <<>> /\ phase = "run" /\ saved = [e \in Epoch |-> {}]
      /\ ops = 0 /\ crashes = 0
  BY DEF Init
<1>2. mem \in Image /\ Book(mem, rt)
  BY <1>1, FormatIs, FormatBook
<1>3. uhead \in [Blk -> Seq(Link)] /\ unlink \in Seq(Link) /\ saved \in [Epoch -> SUBSET (Addr \X [Slot -> Ptr])]
  BY <1>1
<1> DEFINE ls == Ls(uhead, unlink)
<1>4. ls \in Queues /\ \A c \in Place : ls[c] = <<>>
  <2>1. ls \in Queues
    BY <1>3, LsIs
  <2>2. \A c \in Place : ls[c] = <<>>
    BY <1>1 DEF Ls, Place
  <2> QED
    BY <2>1, <2>2
<1> HIDE DEF ls, rt
<1>5. Links(mem, rt, ls)
  BY <1>4 DEF Links
<1>6. Open(mem, rt, ls, Forcing)
  <2> SUFFICES ASSUME NEW x \in Addr, mem.lab[x].st = "alloc" PROVE In(mem.kid, mem.sup.active, x)
    BY DEF Open
  <2>1. x = mem.sup.active
    BY <1>1, FormatIs
  <2> QED
    BY <2>1 DEF In
<1>7. ~Forcing
  BY <1>1 DEF Forcing
<1>8. Forced(mem, rt, ls, Forcing)
  BY <1>7 DEF Forced
<1>9. Saved(mem, saved, rt)
  BY <1>1, FormatIs DEF Saved, Eras
<1>10. CoreNow(rt)
  BY <1>2, <1>3, <1>5, <1>6, <1>8, <1>9 DEF CoreNow, Core, ls
<1>11. Types
  <2>1. \A b \in Blk : prior[b] = <<>> /\ prior[b] \in Deps(b)
    BY <1>1, NoDeps
  <2>2. prior \in [Blk -> Seq(Dep)]
    BY <1>1
  <2>3. written \subseteq Addr /\ ops \in 0..MaxOps /\ disk \in Image
    BY <1>1, AddrAssumption, BoundAssumption, FormatIs
  <2>4. \A b \in Blk \ dirty : prior[b] = <<>> /\ uhead[b] = <<>>
    BY <1>1
  <2> QED
    BY <2>1, <2>2, <2>3, <2>4, <1>1, <1>7 DEF Types
<1> QED
  BY <1>1, <1>10, <1>11 DEF Invariant, FineNow

(* From the parts, for some roots.                                         *)
LEMMA CoreNextIs ==
  ASSUME NEW rt, CoreNext(rt), Types'
  PROVE  FineNow'
<1> DEFINE r2 == NextRoots(rt)
<1>1. Core(mem', uhead', unlink', saved', Forcing', r2)
  BY DEF CoreNext
<1> HIDE DEF r2
<1>2. \E r : Core(mem', uhead', unlink', saved', Forcing', r)
  BY <1>1
<1> QED
  BY <1>2 DEF FineNow, CoreNow

(* Every step but a crash keeps the invariant.                             *)
LEMMA StepFine ==
  ASSUME FineNow, NEW rt, CoreNow(rt), Client \/ Threads
  PROVE  FineNow'
<1>0. Types
  BY DEF FineNow
<1>1. ASSUME NEW p \in Addr, NEW s \in Slot, Walk(p, s) PROVE FineNow'
  BY <1>0, <1>1, WalkCore, WalkTypes, CoreNextIs
<1>2. ASSUME NEW p \in Addr, NEW s \in Slot, RemoveLink(p, s) PROVE FineNow'
  BY <1>0, <1>2, RemoveLinkCore, RemoveLinkTypes, CoreNextIs
<1>3. ASSUME NEW s \in FileSlot, Grow(s) PROVE FineNow'
  BY <1>0, <1>3, GrowCore, GrowTypes, CoreNextIs
<1>4. ASSUME NEW s \in FileSlot, Shrink(s) PROVE FineNow'
  BY <1>0, <1>4, ShrinkCore, ShrinkTypes, CoreNextIs
<1>5. ASSUME fsSnapshot \/ Archive PROVE FineNow'
  <2>1. PICK bb \in CanAlloc(mem) : Bumping(bb)
    BY <1>0, <1>5, BumpIs
  <2> QED
    BY <2>1, <1>0, BumpCore, BumpTypes, CoreNextIs
<1>6. ASSUME NEW low \in Epoch, fsEpochLow(low) PROVE FineNow'
  BY <1>0, <1>6, EpochLowCore, EpochLowTypes, CoreNextIs
<1>7. ASSUME Unlink PROVE FineNow'
  BY <1>0, <1>7, UnlinkCore, UnlinkTypes, CoreNextIs
<1>8. ASSUME ForceSuper PROVE FineNow'
  BY <1>0, <1>8, ForceSuperCore, ForceSuperTypes, CoreNextIs
<1>9. ASSUME Flushed PROVE FineNow'
  BY <1>0, <1>9, FlushedCore, FlushedTypes, CoreNextIs
<1>10. ASSUME NEW b \in Blk, Flush(b) PROVE FineNow'
  BY <1>0, <1>10, FlushCore, FlushTypes, CoreNextIs
<1> QED
  BY <1>1, <1>2, <1>3, <1>4, <1>5, <1>6, <1>7, <1>8, <1>9, <1>10, Zenon DEF Client, Threads

(* A crash ends what the invariant says, and fsOpen only follows one.      *)
LEMMA NextInvariant ==
  ASSUME Invariant, [Next]_vars
  PROVE  Invariant'
<1>1. CASE UNCHANGED vars
  <2>1. crashes' = crashes /\ mem' = mem /\ disk' = disk /\ dirty' = dirty /\ prior' = prior /\ uhead' = uhead
        /\ unlink' = unlink /\ phase' = phase /\ written' = written /\ saved' = saved /\ ops' = ops
    BY <1>1 DEF vars, cache, history
  <2> QED
    BY <2>1, Zenon DEF Invariant, FineNow, Types, CoreNow, Forcing
<1>2. CASE Client \/ Threads
  <2>1. crashes' = crashes
    BY <1>2, Zenon DEF Client, Threads, Walk, RemoveLink, Grow, Shrink, fsSnapshot, Archive, bumpEpoch, fsEpochLow,
                Unlink, ForceSuper, Flushed, Flush, OpUnchanged
  <2>2. CASE crashes = 0
    <3>1. FineNow
      BY <2>2 DEF Invariant
    <3>2. PICK rt : CoreNow(rt)
      BY <3>1 DEF FineNow
    <3>3. FineNow'
      BY <3>1, <3>2, <1>2, StepFine
    <3> QED
      BY <2>1, <3>3 DEF Invariant
  <2>3. CASE crashes # 0
    BY <2>1, <2>3 DEF Invariant
  <2> QED
    BY <2>2, <2>3
<1>3. CASE Crash
  BY <1>3 DEF Crash, Invariant
<1>4. CASE fsOpen
  <2>1. crashes' = crashes /\ phase = "down"
    BY <1>4 DEF fsOpen
  <2>2. crashes # 0
    BY <2>1 DEF Invariant, FineNow, Types
  <2> QED
    BY <2>1, <2>2 DEF Invariant
<1> QED
  BY <1>1, <1>2, <1>3, <1>4 DEF Next, Fault

(* The inductive invariant of the cache before a crash: the trees of the   *)
(* epochs are in order, each block that an operation dropped is claimed by *)
(* exactly one link and by no tree of the epoch it will be closed with,    *)
(* and nothing open is lost (cacheAllocBlock, blockWalk, blockRemoveLink,  *)
(* doRemoveLink).                                                          *)
THEOREM Invariance == Spec => []Invariant
<1>1. Init => Invariant
  BY InitInvariant
<1>2. Invariant /\ [Next]_vars => Invariant'
  BY NextInvariant
<1> QED
  BY <1>1, <1>2, PTL DEF Spec

-----------------------------------------------------------------------------
(* What the properties are about                                           *)

(* SnapRoots in terms of the epochs                                        *)
NextRoot(m, v) == IF m.snap[v] # Nil /\ m.snap[v].epoch >= m.sup.elo THEN m.snap[v].to ELSE Nil
ChainRec(m, a, f) ==
  f = [n \in 0..MaxEpoch |-> IF n = 0 THEN a ELSE IF f[n-1] = Nil THEN Nil ELSE NextRoot(m, f[n-1])]

(* The roots of epochs elo to hi, the next past hi's root being that of hi-1 *)
Lineage(m, rt, hi) ==
  /\ hi \in Epoch /\ m.sup.elo \in Epoch /\ m.sup.elo <= hi
  /\ \A e \in m.sup.elo .. hi : rt[e] \in Addr
  /\ \A e \in m.sup.elo .. hi : e > m.sup.elo => m.snap[rt[e]] = [to |-> rt[e-1], epoch |-> e-1]
  /\ m.snap[rt[m.sup.elo]] # Nil => m.snap[rt[m.sup.elo]].epoch < m.sup.elo

(* The chain of SnapRoots, which exists because each root is the next      *)
(* one's old root.                                                         *)
LEMMA ChainIs ==
  ASSUME NEW m \in Image, NEW a \in Addr
  PROVE  \E h : ChainRec(m, a, h) /\ SnapRoots(m, a) = {h[n] : n \in 1..MaxEpoch} \ {Nil}
<1> DEFINE V == Addr \cup {Nil}
           g == [i \in 1..MaxEpoch |-> [v \in V |-> IF v = Nil THEN Nil ELSE NextRoot(m, v)]]
           n == MaxEpoch
<1>1. n \in Nat
  BY BoundAssumption
<1>2. ASSUME NEW v \in Addr PROVE NextRoot(m, v) \in V
  <2>1. m.snap[v] \in SnapEntry
    BY ImageIs
  <2> QED
    BY <2>1 DEF NextRoot, SnapEntry
<1>3. g \in [1..n -> [V -> V]] /\ a \in V
  BY <1>2
<1>4. \E f \in [0..n -> V] : f[0] = a /\ \A i \in 1..n : f[i] = g[i][f[i - 1]]
  <2> HIDE DEF n, g, V
  <2> QED
    BY <1>1, <1>3, Recursion, SMTT(30)
<1>5. PICK f \in [0..n -> V] : f[0] = a /\ \A i \in 1..n : f[i] = g[i][f[i - 1]]
  BY <1>4
<1>6. ChainRec(m, a, f)
  <2>1. ASSUME NEW i \in 0..n
        PROVE  f[i] = IF i = 0 THEN a ELSE IF f[i-1] = Nil THEN Nil ELSE NextRoot(m, f[i-1])
    <3>1. CASE i = 0
      BY <1>5, <3>1
    <3>2. CASE i # 0
      <4>1. i \in 1..n /\ i - 1 \in 0..n
        BY <1>1, <3>2
      <4>2. f[i] = g[i][f[i-1]] /\ f[i-1] \in V
        BY <1>5, <4>1
      <4> QED
        BY <4>1, <4>2, <3>2
    <3> QED
      BY <3>1, <3>2
  <2>2. f = [i \in 0..n |-> f[i]]
    BY <1>5
  <2> QED
    BY <2>1, <2>2 DEF ChainRec
<1>7. SnapRoots(m, a) = {(CHOOSE h : ChainRec(m, a, h))[i] : i \in 1..MaxEpoch} \ {Nil}
  BY DEF SnapRoots, ChainRec, NextRoot
<1> DEFINE c == CHOOSE h : ChainRec(m, a, h)
<1>8. ChainRec(m, a, c)
  BY <1>6
<1>9. SnapRoots(m, a) = {c[i] : i \in 1..MaxEpoch} \ {Nil}
  BY <1>7
<1> HIDE DEF c
<1> QED
  BY <1>8, <1>9

(* What a reader can open from the root of epoch hi are roots of earlier   *)
(* epochs, no lower than the low epoch.                                    *)
LEMMA SnapsAre ==
  ASSUME NEW m \in Image, NEW rt, NEW hi, Lineage(m, rt, hi)
  PROVE  \A x \in SnapRoots(m, rt[hi]) : \E e \in m.sup.elo .. hi - 1 : x = rt[e]
<1> DEFINE lo == m.sup.elo
           a == rt[hi]
<1>0. /\ hi \in Nat /\ lo \in Nat /\ lo <= hi /\ a \in Addr
      /\ \A e \in lo..hi : rt[e] \in Addr
      /\ \A e \in lo..hi : e > lo => m.snap[rt[e]] = [to |-> rt[e-1], epoch |-> e-1]
      /\ m.snap[rt[lo]] # Nil => m.snap[rt[lo]].epoch < lo
  <2>1. hi \in Nat /\ lo \in Nat /\ lo <= hi
    BY EpochIs DEF Lineage
  <2>2. hi \in lo..hi
    BY <2>1
  <2> QED
    BY <2>1, <2>2 DEF Lineage
<1>1. PICK h : ChainRec(m, a, h) /\ SnapRoots(m, a) = {h[n] : n \in 1..MaxEpoch} \ {Nil}
  BY <1>0, ChainIs
<1>2. MaxEpoch \in Nat /\ Nil \notin Addr
  BY BoundAssumption, BlkIs
<1>3. /\ h[0] = a
      /\ \A n \in 1..MaxEpoch : h[n] = IF h[n-1] = Nil THEN Nil ELSE NextRoot(m, h[n-1])
  <2>1. \A n \in 0..MaxEpoch : h[n] = IF n = 0 THEN a ELSE IF h[n-1] = Nil THEN Nil ELSE NextRoot(m, h[n-1])
    BY <1>1 DEF ChainRec
  <2> QED
    BY <2>1, <1>2
<1> DEFINE Old(v) == v = Nil \/ \E e \in lo .. hi - 1 : v = rt[e]
           S == {n \in Nat : n < MaxEpoch => Old(h[n+1])}
<1>4. ASSUME NEW e \in lo..hi PROVE Old(NextRoot(m, rt[e]))
  <2>1. CASE e > lo
    <3>1. m.snap[rt[e]] = [to |-> rt[e-1], epoch |-> e-1] /\ e - 1 \in lo .. hi - 1
      BY <1>0, <2>1
    <3> QED
      BY <3>1 DEF NextRoot
  <2>2. CASE e = lo
    <3>1. m.snap[rt[lo]] # Nil => m.snap[rt[lo]].epoch < lo /\ m.snap[rt[lo]].epoch \in Nat
      <4>1. m.snap[rt[lo]] \in SnapEntry
        BY <1>0, <2>2, ImageIs
      <4> QED
        BY <4>1, <1>0, EpochIs DEF SnapEntry
    <3>2. NextRoot(m, rt[e]) = Nil
      BY <3>1, <2>2, <1>0 DEF NextRoot
    <3> QED
      BY <3>2
  <2> QED
    BY <2>1, <2>2, <1>0
<1>5. 0 \in S
  <2>1. hi \in lo..hi
    BY <1>0
  <2>2. Old(NextRoot(m, a))
    BY <2>1, <1>4
  <2>3. MaxEpoch > 0 => h[1] = IF h[0] = Nil THEN Nil ELSE NextRoot(m, h[0])
    BY <1>2, <1>3
  <2>4. MaxEpoch > 0 => h[1] = NextRoot(m, a)
    BY <2>3, <1>0, <1>2, <1>3
  <2> HIDE DEF Old
  <2> QED
    BY <2>2, <2>4
<1>6. ASSUME NEW n \in Nat, n \in S PROVE n + 1 \in S
  <2> SUFFICES ASSUME n + 1 < MaxEpoch PROVE Old(h[(n + 1) + 1])
    OBVIOUS
  <2>1. (n + 1) + 1 \in 1..MaxEpoch /\ ((n + 1) + 1) - 1 = n + 1 /\ n < MaxEpoch
    BY <1>2
  <2>2. Old(h[n + 1])
    BY <1>6, <2>1
  <2>3. h[(n + 1) + 1] = IF h[n + 1] = Nil THEN Nil ELSE NextRoot(m, h[n + 1])
    BY <2>1, <1>3
  <2>4. CASE h[n + 1] = Nil
    BY <2>3, <2>4
  <2>5. CASE h[n + 1] # Nil
    <3>1. PICK e \in lo .. hi - 1 : h[n + 1] = rt[e]
      BY <2>2, <2>5
    <3>2. Old(NextRoot(m, rt[e]))
      BY <3>1, <1>0, <1>4
    <3>3. h[(n + 1) + 1] = NextRoot(m, rt[e])
      BY <2>3, <2>5, <3>1
    <3> HIDE DEF Old
    <3> QED
      BY <3>2, <3>3
  <2> QED
    BY <2>4, <2>5
<1>7. \A n \in Nat : n \in S
  <2> HIDE DEF S
  <2> QED
    BY <1>5, <1>6, NatInd
<1>8. ASSUME NEW x \in SnapRoots(m, a) PROVE \E e \in lo .. hi - 1 : x = rt[e]
  <2>1. PICK n \in 1..MaxEpoch : x = h[n] /\ x # Nil
    BY <1>1, <1>8
  <2>2. n - 1 \in Nat /\ n - 1 < MaxEpoch /\ (n - 1) + 1 = n
    BY <1>2, <2>1
  <2>3. Old(h[n])
    <3>1. n - 1 \in S
      BY <1>7, <2>2
    <3>2. Old(h[(n - 1) + 1])
      BY <3>1, <2>2
    <3> QED
      BY <3>2, <2>2
  <2> QED
    BY <2>1, <2>3
<1> QED
  BY <1>8

(* The active root descends from those of the epochs before.               *)
LEMMA LineageIs ==
  ASSUME NEW m \in Image, NEW rt, Roots(m, rt)
  PROVE  Lineage(m, rt, m.sup.ehi) /\ rt[m.sup.ehi] = m.sup.active
  BY KeptIs, ImageIs DEF Roots, Lineage, Eras

-----------------------------------------------------------------------------
(* The pointers of a tree are those of its holders.                        *)
LEMMA TreePtrsIs ==
  ASSUME NEW m, NEW r, NEW p
  PROVE  p \in TreePtrs(m, r) <=> \E a, s : /\ Holds(m.kid, r, a) /\ s \in Slot
                                           /\ m.kid[a][s] # Nil /\ p = m.kid[a][s]
<1>1. p \in TreePtrs(m, r) <=>
         \/ \E s \in Slot : m.kid[r][s] # Nil /\ p = m.kid[r][s]
         \/ \E q \in Kids(m, r) : q.type = "ptr" /\ p \in Kids(m, q.to)
  BY DEF TreePtrs, Kids
<1>2. \A q : q \in Kids(m, r) <=> \E s \in Slot : m.kid[r][s] # Nil /\ q = m.kid[r][s]
  BY DEF Kids
<1>3. \A q : p \in Kids(m, q.to) <=> \E s \in Slot : m.kid[q.to][s] # Nil /\ p = m.kid[q.to][s]
  BY DEF Kids
<1> QED
  BY <1>1, <1>2, <1>3 DEF Holds

(* A tree in terms of In.                                                  *)
LEMMA TreeIs ==
  ASSUME NEW m \in Image, NEW r \in Addr
  PROVE  \A x : x \in Tree(m, r) <=> In(m.kid, r, x)
<1>1. ASSUME NEW x PROVE x \in Tree(m, r) <=> x = r \/ \E p \in TreePtrs(m, r) : x = p.to
  BY DEF Tree, Blocks
<1>2. \A p : p \in TreePtrs(m, r) <=> \E a, s : /\ Holds(m.kid, r, a) /\ s \in Slot
                                                 /\ m.kid[a][s] # Nil /\ p = m.kid[a][s]
  BY TreePtrsIs
<1>3. ASSUME NEW a, Holds(m.kid, r, a) PROVE a \in Addr
  BY <1>3, HoldsIn, ImageIs
<1> QED
  BY <1>1, <1>2, <1>3 DEF In, Has

(* Only a holder of the tree has pointers.                                 *)
LEMMA InHolds ==
  ASSUME NEW m \in Image, NEW r \in Addr, Sound(m.kid, r), Typed(m, r), Leaves(m),
         NEW a \in Addr, In(m.kid, r, a), NEW s \in Slot, m.kid[a][s] # Nil
  PROVE  Holds(m.kid, r, a)
<1>1. CASE a = r
  BY <1>1 DEF Holds
<1>2. CASE a # r
  <2>1. PICK b \in Addr, t \in Slot : Holds(m.kid, r, b) /\ m.kid[b][t] # Nil /\ m.kid[b][t].to = a
    BY <1>2 DEF In, Has
  <2>2. m.lab[a].type = m.kid[b][t].type /\ m.kid[b][t].type \in {"data", "ptr"}
    BY <2>1, PtrIs, ImageIs DEF Typed
  <2>3. m.lab[a].type # "data"
    BY DEF Leaves
  <2>4. b = r
    BY <2>1, <2>2, <2>3 DEF Sound
  <2> QED
    BY <2>1, <2>2, <2>3, <2>4 DEF Holds
<1> QED
  BY <1>1, <1>2

(* A block in use that has pointers is a holder in the tree of an epoch.   *)
LEMMA UsedIs ==
  ASSUME NEW m \in Image, NEW rt, Book(m, rt), NEW a \in InUse(m)
  PROVE  \E e \in Eras(m) : In(m.kid, rt[e], a)
<1>1. PICK r \in {m.sup.active} \cup SnapRoots(m, m.sup.active) : a \in Tree(m, r)
  BY DEF InUse
<1>2. Roots(m, rt)
  BY DEF Book
<1>3. \E e \in Eras(m) : r = rt[e]
  <2>1. CASE r = m.sup.active
    BY <2>1, NowIs
  <2>2. CASE r \in SnapRoots(m, m.sup.active)
    <3>1. m.sup.elo .. m.sup.ehi - 1 \subseteq Eras(m)
      BY <1>2, KeptIs, ImageIs, EpochIs DEF Eras
    <3> QED
      BY <2>2, <3>1, <1>2, LineageIs, SnapsAre
  <2> QED
    BY <2>1, <2>2
<1>4. PICK e \in Eras(m) : r = rt[e]
  BY <1>3
<1>5. rt[e] \in Addr
  BY <1>2, KeptIs
<1> QED
  BY <1>1, <1>4, <1>5, TreeIs

(* A pointer held by a block in use                                        *)
LEMMA UsedPtr ==
  ASSUME NEW m \in Image, NEW rt, Book(m, rt), NEW a \in InUse(m), NEW p \in Kids(m, a)
  PROVE  \E e \in Eras(m) : \E s \in Slot : /\ a \in Addr /\ rt[e] \in Addr /\ e \in Nat
                                            /\ p = m.kid[a][s] /\ p # Nil /\ p.to \in Addr
                                            /\ Holds(m.kid, rt[e], a) /\ In(m.kid, rt[e], p.to)
                                            /\ In(m.kid, rt[e], a)
<1>1. PICK e \in Eras(m) : In(m.kid, rt[e], a)
  BY UsedIs
<1>2. rt[e] \in Addr /\ e \in Nat /\ m.kid \in Kd
  BY KeptIs, ImageIs DEF Book
<1>3. a \in Addr
  BY <1>1, <1>2, InAddr
<1>4. PICK s \in Slot : p = m.kid[a][s] /\ p # Nil
  BY DEF Kids
<1>5. Holds(m.kid, rt[e], a)
  BY <1>1, <1>2, <1>3, <1>4, InHolds DEF Book, Trees
<1>6. p.to \in Addr
  BY <1>2, <1>3, <1>4, PtrIs
<1>7. In(m.kid, rt[e], p.to)
  BY <1>3, <1>4, <1>5 DEF In, Has
<1> QED
  BY <1>1, <1>2, <1>3, <1>4, <1>5, <1>6, <1>7

-----------------------------------------------------------------------------
(* The properties                                                          *)

(* EpochsNest of such a state.                                             *)
LEMMA NestIs ==
  ASSUME NEW rt, CoreNow(rt)
  PROVE  EpochsNest
<1>1. mem \in Image /\ Book(mem, rt)
  BY DEF CoreNow, Core
<1> SUFFICES ASSUME NEW a \in InUse(mem), NEW p \in Kids(mem, a)
             PROVE  /\ mem.lab[p.to].epoch <= mem.lab[a].epoch
                    /\ Closed(mem, p.to) => mem.lab[a].epoch < mem.lab[p.to].close
  BY DEF EpochsNest
<1>2. PICK e \in Eras(mem), s \in Slot :
        /\ a \in Addr /\ rt[e] \in Addr /\ e \in Nat /\ p = mem.kid[a][s] /\ p # Nil /\ p.to \in Addr
        /\ Holds(mem.kid, rt[e], a) /\ In(mem.kid, rt[e], p.to) /\ In(mem.kid, rt[e], a)
  BY <1>1, UsedPtr
<1>3. Typed(mem, rt[e]) /\ Alive(mem, rt[e], e)
  BY <1>1 DEF Book, Trees
<1>4. mem.lab[p.to].epoch <= mem.lab[a].epoch
  BY <1>2, <1>3 DEF Typed
<1>5. mem.lab[a].epoch \in 1..e
  BY <1>2, <1>3 DEF Alive
<1>6. mem.lab[p.to].st = "closed" => mem.lab[p.to].close > e
  BY <1>2, <1>3 DEF Alive
<1>7. mem.lab[p.to].close \in Nat
  BY <1>1, <1>2, LabelIs
<1> QED
  BY <1>2, <1>4, <1>5, <1>6, <1>7 DEF Closed

(* Two blocks that point at one: they are in no one tree, and of different *)
(* epochs, the older being copied.                                         *)
LEMMA JoinIs ==
  ASSUME NEW m \in Image, NEW rt, Book(m, rt), NEW a \in Addr, NEW b \in Addr, a # b,
         NEW e \in Eras(m), NEW f \in Eras(m), NEW s \in Slot, NEW t \in Slot, NEW x \in Addr,
         Holds(m.kid, rt[e], a), Holds(m.kid, rt[f], b), Has(m.kid, a, s, x), Has(m.kid, b, t, x)
  PROVE  /\ m.lab[a].epoch # m.lab[b].epoch
         /\ m.lab[a].epoch = m.lab[x].epoch => m.lab[a].copied
<1>1. /\ e \in Nat /\ f \in Nat /\ rt[e] \in Addr /\ rt[f] \in Addr /\ m.kid \in Kd
      /\ m.lab[a].epoch \in Nat /\ m.lab[b].epoch \in Nat /\ m.lab[x].epoch \in Nat
  BY KeptIs, ImageIs, LabelIs DEF Book
<1>2. /\ In(m.kid, rt[e], a) /\ In(m.kid, rt[f], b)
      /\ m.kid[a][s] # Nil /\ m.kid[a][s].to = x /\ m.kid[b][t] # Nil /\ m.kid[b][t].to = x
  BY <1>1, HoldsIn DEF Has
<1>3. \A g \in Eras(m) : ~(Holds(m.kid, rt[g], a) /\ Holds(m.kid, rt[g], b))
  <2>1. \A g \in Eras(m) : Sound(m.kid, rt[g])
    BY DEF Book, Trees
  <2> QED
    BY <2>1, <1>2 DEF Sound, Has
<1>4. \A g \in Eras(m) : /\ In(m.kid, rt[g], a) => Holds(m.kid, rt[g], a)
                         /\ In(m.kid, rt[g], b) => Holds(m.kid, rt[g], b)
  <2> TAKE g \in Eras(m)
  <2>1. Sound(m.kid, rt[g]) /\ Typed(m, rt[g]) /\ Leaves(m) /\ rt[g] \in Addr
    BY KeptIs DEF Book, Trees
  <2> QED
    BY <2>1, <1>2, InHolds
<1>5. m.lab[a].epoch <= e /\ m.lab[b].epoch <= f
  <2>1. Alive(m, rt[e], e) /\ Alive(m, rt[f], f)
    BY DEF Book, Trees
  <2>2. m.lab[a].epoch \in 1..e /\ m.lab[b].epoch \in 1..f
    BY <2>1, <1>2 DEF Alive
  <2> QED
    BY <2>2, <1>1
<1>6. m.lab[x].epoch <= m.lab[b].epoch
  BY <1>2 DEF Book, Trees, Typed
<1>0. m.lab[a].type # "data" /\ m.lab[b].type # "data"
  BY <1>2 DEF Book, Leaves
<1>7. m.lab[b].epoch <= e => f < e
  <2> SUFFICES ASSUME m.lab[b].epoch <= e, e <= f PROVE FALSE
    BY <1>1
  <2>1. In(m.kid, rt[e], b)
    BY <1>0, <1>2 DEF Book, Between
  <2> QED
    BY <2>1, <1>3, <1>4
<1>8. m.lab[a].epoch <= f => e < f
  <2> SUFFICES ASSUME m.lab[a].epoch <= f, f <= e PROVE FALSE
    BY <1>1
  <2>1. In(m.kid, rt[f], a)
    BY <1>0, <1>2 DEF Book, Between
  <2> QED
    BY <2>1, <1>3, <1>4
<1>9. m.lab[a].epoch # m.lab[b].epoch
  BY <1>1, <1>5, <1>7, <1>8
<1>10. ASSUME m.lab[a].epoch = m.lab[x].epoch PROVE m.lab[a].copied
  <2>1. m.lab[a].epoch <= f
    BY <1>1, <1>5, <1>6, <1>10
  <2>2. e < f
    BY <2>1, <1>8
  <2>3. In(m.kid, rt[f], x)
    BY <1>2 DEF In, Has
  <2>4. ~In(m.kid, rt[f], a)
    BY <1>3, <1>4
  <2> QED
    BY <2>2, <2>3, <2>4 DEF Book, Copied
<1> QED
  BY <1>9, <1>10

(* NoJoin of such a state.                                                 *)
LEMMA NoJoinIs ==
  ASSUME NEW rt, CoreNow(rt)
  PROVE  NoJoin
<1>1. mem \in Image /\ Book(mem, rt)
  BY DEF CoreNow, Core
<1> SUFFICES ASSUME NEW a \in InUse(mem), NEW b \in InUse(mem),
                    NEW x \in Blocks(Kids(mem, a)) \cap Blocks(Kids(mem, b)), a # b
             PROVE  /\ mem.lab[a].epoch # mem.lab[b].epoch
                    /\ mem.lab[a].epoch = mem.lab[x].epoch => mem.lab[a].copied
                    /\ {a, b} \ Tree(mem, Root) # {}
  BY DEF NoJoin
<1>2. PICK p \in Kids(mem, a), q \in Kids(mem, b) : x = p.to /\ x = q.to
  BY DEF Blocks
<1>3. PICK e \in Eras(mem), s \in Slot :
        /\ a \in Addr /\ rt[e] \in Addr /\ e \in Nat /\ p = mem.kid[a][s] /\ p # Nil /\ p.to \in Addr
        /\ Holds(mem.kid, rt[e], a) /\ In(mem.kid, rt[e], p.to) /\ In(mem.kid, rt[e], a)
  BY <1>1, UsedPtr
<1>4. PICK f \in Eras(mem), t \in Slot :
        /\ b \in Addr /\ rt[f] \in Addr /\ f \in Nat /\ q = mem.kid[b][t] /\ q # Nil /\ q.to \in Addr
        /\ Holds(mem.kid, rt[f], b) /\ In(mem.kid, rt[f], q.to) /\ In(mem.kid, rt[f], b)
  BY <1>1, UsedPtr
<1>5. Has(mem.kid, a, s, x) /\ Has(mem.kid, b, t, x) /\ x \in Addr
  BY <1>2, <1>3, <1>4 DEF Has
<1>6. /\ mem.lab[a].epoch # mem.lab[b].epoch
      /\ mem.lab[a].epoch = mem.lab[x].epoch => mem.lab[a].copied
  BY <1>1, <1>3, <1>4, <1>5, JoinIs
<1>7. {a, b} \ Tree(mem, Root) # {}
  <2> SUFFICES ASSUME a \in Tree(mem, Root), b \in Tree(mem, Root) PROVE FALSE
    OBVIOUS
  <2>1. Root \in Addr /\ Sound(mem.kid, Root) /\ Typed(mem, Root) /\ Leaves(mem)
    BY <1>1, NowIs DEF Root
  <2>2. In(mem.kid, Root, a) /\ In(mem.kid, Root, b)
    BY <1>1, <2>1, TreeIs
  <2>3. Holds(mem.kid, Root, a) /\ Holds(mem.kid, Root, b)
    BY <2>1, <2>2, <1>1, <1>3, <1>4, InHolds
  <2>4. mem.kid[a][s] # Nil /\ Has(mem.kid, b, t, mem.kid[a][s].to)
    BY <1>5 DEF Has
  <2> QED
    BY <2>1, <2>3, <2>4, <1>3, <1>4 DEF Sound
<1> QED
  BY <1>6, <1>7

(* TypeOK of such a state.                                                 *)
LEMMA TypeIs ==
  ASSUME Types, NEW rt, CoreNow(rt), crashes = 0
  PROVE  TypeOK
<1>1. /\ mem \in Image /\ uhead \in [Blk -> Seq(Link)] /\ unlink \in Seq(Link)
      /\ saved \in [Epoch -> SUBSET (Addr \X [Slot -> Ptr])]
  BY DEF CoreNow, Core
<1>2. crashes \in 0..MaxCrash
  BY BoundAssumption
<1> QED
  BY <1>1, <1>2 DEF TypeOK, Types

(* NoLeak of such a state.                                                 *)
LEMMA LeakIs ==
  ASSUME Types, NEW rt, CoreNow(rt)
  PROVE  NoLeak
<1> SUFFICES ASSUME dirty = {}, unlink = <<>>, NEW a \in Addr, mem.lab[a].st = "alloc"
             PROVE  a \in Tree(mem, Root)
  BY DEF NoLeak
<1>1. /\ mem \in Image /\ Book(mem, rt) /\ uhead \in [Blk -> Seq(Link)] /\ unlink \in Seq(Link)
      /\ Open(mem, rt, Ls(uhead, unlink), Forcing)
  BY DEF CoreNow, Core
<1>2. ~Forcing
  BY TypesIs
<1>3. \A c \in Place : Ls(uhead, unlink)[c] = <<>>
  <2>1. \A b \in Blk : uhead[b] = <<>>
    BY TypesIs
  <2> QED
    BY <2>1, <1>1 DEF Ls, Place
<1>4. ~Pending(mem.kid, Ls(uhead, unlink), a)
  BY <1>3 DEF Pending
<1> HIDE DEF Forcing
<1>5. In(mem.kid, mem.sup.active, a)
  BY <1>1, <1>2, <1>4 DEF Open
<1> QED
  BY <1>1, <1>5, NowIs, TreeIs DEF Root

(* The invariants of fossil's notes hold of every state before a crash:    *)
(* epochs nest along pointers, and blocks are shared only between trees of *)
(* different epochs, the older holder being marked as copied (NotesHold;   *)
(* blockCopy, blockWalk, doRemoveLink).                                    *)
THEOREM SpecNotes == Spec => [](crashes = 0 => NotesHold)
<1>1. Invariant => (crashes = 0 => NotesHold)
  <2> SUFFICES ASSUME Invariant, crashes = 0 PROVE NotesHold
    OBVIOUS
  <2>1. PICK rt : CoreNow(rt) /\ Types
    BY DEF Invariant, FineNow
  <2> QED
    BY <2>1, TypeIs, NestIs, NoJoinIs DEF NotesHold
<1>2. Spec => []Invariant
  BY Invariance
<1> QED
  BY <1>1, <1>2, PTL

(* Before a crash no block is lost: whatever is open when all is written   *)
(* and unlinked is in the active tree (NoLeak), however many epochs the    *)
(* removed links waited in dirty blocks (blockRemoveLink, the unlink       *)
(* thread).                                                                *)
THEOREM SpecNoLeak == Spec => []NoLeak
<1>1. Invariant => NoLeak
  <2>1. crashes # 0 => NoLeak
    BY DEF NoLeak
  <2>2. ASSUME Invariant, crashes = 0 PROVE NoLeak
    <3>1. PICK rt : CoreNow(rt) /\ Types
      BY <2>2 DEF Invariant, FineNow
    <3> QED
      BY <3>1, LeakIs
  <2> QED
    BY <2>1, <2>2
<1>2. Spec => []Invariant
  BY Invariance
<1> QED
  BY <1>1, <1>2, PTL

(* cacheAllocBlock does not give out what is in use.                       *)
LEMMA UsedSafe ==
  ASSUME NEW m \in Image, NEW rt, Book(m, rt), NEW a \in InUse(m)
  PROVE  ~Allocatable(m, a)
<1>1. PICK e \in Eras(m) : In(m.kid, rt[e], a)
  BY UsedIs
<1>2. a \in Addr
  BY <1>1, InAddr, KeptIs, ImageIs DEF Book
<1> QED
  BY <1>1, <1>2, AllocOutside DEF Book

(* A snapshot that can be read holds what was saved, but for the first     *)
(* pointers that have been zeroed.                                         *)
LEMMA SnapKept ==
  ASSUME NEW rt, CoreNow(rt), NEW r \in SnapRoots(mem, mem.sup.active)
  PROVE  \A x \in saved[mem.lab[r].epoch] : StillIn(mem, x, r)
<1>1. mem \in Image /\ Book(mem, rt) /\ Saved(mem, saved, rt)
  BY DEF CoreNow, Core
<1>2. /\ Lineage(mem, rt, mem.sup.ehi) /\ rt[mem.sup.ehi] = mem.sup.active
      /\ mem.sup.ehi \in Nat /\ mem.sup.elo \in Nat /\ Eras(mem) = mem.sup.elo .. mem.sup.ehi
  BY <1>1, LineageIs, ImageIs, EpochIs DEF Book, Eras
<1>3. PICK e \in mem.sup.elo .. mem.sup.ehi - 1 : r = rt[e]
  <2>1. \A x \in SnapRoots(mem, rt[mem.sup.ehi]) : \E e \in mem.sup.elo .. mem.sup.ehi - 1 : x = rt[e]
    <3>1. mem \in Image /\ Lineage(mem, rt, mem.sup.ehi)
      BY <1>1, <1>2
    <3> QED
      BY <3>1, SnapsAre
  <2> QED
    BY <2>1, <1>2
<1>4. e \in Eras(mem) /\ e < mem.sup.ehi
  BY <1>2, <1>3
<1>5. mem.lab[r].epoch = e
  BY <1>1, <1>3, <1>4 DEF Book, Roots
<1> QED
  BY <1>1, <1>3, <1>4, <1>5 DEF Saved

(* SnapshotKept of such a state.                                           *)
LEMMA KeptSnap ==
  ASSUME NEW rt, CoreNow(rt)
  PROVE  SnapshotKept
<1> SUFFICES ASSUME NEW r \in SnapRoots(mem, mem.sup.active),
                    NEW x \in saved[mem.lab[r].epoch], x \notin Contents(mem, r)
             PROVE  mem.lab[x[1]].type = "ptr" /\ FirstZeroed(x) \in Contents(mem, r)
  BY DEF SnapshotKept, Root
<1> QED
  BY SnapKept DEF StillIn

(* No block that the active tree or a readable snapshot leads to is given  *)
(* out again before a crash (InUseIsKept), whatever was dirty when the     *)
(* snapshots were taken, and also when the low epoch is raised to the      *)
(* current one (cacheAllocBlock, doRemoveLink, fsEpochLow).                *)
THEOREM SpecKept == Spec => []InUseIsKept
<1>1. Invariant => InUseIsKept
  <2> SUFFICES ASSUME NEW rt, CoreNow(rt), NEW a \in InUse(mem) PROVE ~Allocatable(mem, a)
    BY DEF Invariant, FineNow, InUseIsKept
  <2>1. mem \in Image /\ Book(mem, rt)
    BY DEF CoreNow, Core
  <2> QED
    BY <2>1, UsedSafe
<1>2. Spec => []Invariant
  BY Invariance
<1> QED
  BY <1>1, <1>2, PTL

(* Copy on write misses no block (SnapshotKept): until a crash a snapshot  *)
(* that can be read holds what the tree held when it was taken, but for    *)
(* the first pointer of pointer blocks, which sourceShrinkDepth zeroes in  *)
(* place (blockWalk, blockCopy, bumpEpoch).                                *)
THEOREM SpecSnapshots == Spec => []SnapshotKept
<1>1. Invariant => SnapshotKept
  <2>1. crashes # 0 => SnapshotKept
    BY DEF SnapshotKept
  <2>2. ASSUME Invariant, crashes = 0 PROVE SnapshotKept
    BY <2>2, KeptSnap DEF Invariant, FineNow
  <2> QED
    BY <2>1, <2>2
<1>2. Spec => []Invariant
  BY Invariance
<1> QED
  BY <1>1, <1>2, PTL
=============================================================================
