---------------------------- MODULE FossilCache ----------------------------
(***************************************************************************)
(* The block cache of fossil (sys/src/cmd/fossil/cache.c, disk.c) under    *)
(* the operations of source.c and fs.c that change the tree of blocks: a   *)
(* walk that copies on write, growing, shrinking and removing a file,      *)
(* taking a snapshot, raising the low epoch, and opening the file system   *)
(* after a crash.                                                          *)
(*                                                                         *)
(* There are two copies of everything, the cache's and the disk's, and a   *)
(* crash leaves the disk's.  A dirty block is written at any time, with    *)
(* each pointer to a block not yet on disk rolled back to its old value;   *)
(* a block whose last pointer was dropped is closed, and reused, only once *)
(* the block that dropped it is on disk.                                   *)
(*                                                                         *)
(* A file is an entry of the root block: a data block (depth 0) or one     *)
(* pointer block and its data blocks (depth 1).  What data blocks hold,    *)
(* tags, and blocks on venti are left out; Block.vers is the flag live of  *)
(* a dependency, cleared when the version it names is written.  The disk   *)
(* holds one label block, as the first 585 blocks of a real one do.  An    *)
(* operation holds its blocks' locks until it has dirtied them, and a      *)
(* block being written is locked out of the cache (BioWriting), so each    *)
(* operation on a block and its parent is one step, as is each write.      *)
(***************************************************************************)
EXTENDS Integers, Sequences, FiniteSets, SequencesExt, Lists

CONSTANTS
  Addr,                \* the addresses of the data partition
  Nil,                 \* vtZeroScore
  FirstRoot,           \* the root flfmt made
  Slot,                \* the pointers of a pointer block
  FileSlot,            \* those of the root block's entries that are used
  MaxDepth,            \* bound: the depth of a file, 0 or 1
  MaxOps,              \* bound: tree operations in a behaviour
  MaxEpoch,            \* bound: epochs
  MaxCrash             \* bound: crashes

ASSUME SlotAssumption == 0 \in Slot /\ Slot \subseteq Nat /\ FileSlot \subseteq Slot
ASSUME BoundAssumption == MaxEpoch \in Nat \ {0} /\ {MaxOps, MaxCrash} \subseteq Nat

VARIABLES
  mem,                 \* the cache: contents, labels and super block
  disk,                \* the same on disk
  dirty,               \* the blocks with iostate BioDirty
  prior,               \* Block.prior, the most recent dependency first
  uhead,               \* Block.uhead: links removed since it was clean
  unlink,              \* Cache.uhead: links whose removal is on disk
  phase,               \* what holds fs->elk, if anything
  written,             \* history: the blocks written since their allocation
  saved,               \* history: the tree each snapshot was taken of
  ops, crashes         \* counters of the bounds

cache == <<dirty, prior, uhead>>
history == <<written, saved>>
vars == <<mem, disk, cache, unlink, phase, history, ops, crashes>>

LB == "label"          \* the label block
SB == "super"          \* the super block
Blk == Addr \cup {LB, SB}
Epoch == 1..MaxEpoch

(* A pointer carries the type its holder expects (Entry.depth, p->l.type)  *)
Ptr == [to: Addr, type: {"data", "ptr"}] \cup {Nil}
SnapEntry == [to: Addr, epoch: Epoch] \cup {Nil}
ASSUME NilAssumption ==
  Nil \notin Blk \cup [to: Addr, type: {"data", "ptr"}] \cup [to: Addr, epoch: Epoch]
ASSUME AddrAssumption == FirstRoot \in Addr /\ {LB, SB} \cap Addr = {}

Label == [st: {"free", "alloc", "closed", "bad"}, copied: BOOLEAN,
          type: {"root", "ptr", "data", "none"}, epoch: 0..MaxEpoch,
          close: 0..MaxEpoch]
Image == [kid: [Addr -> [Slot -> Ptr]],     \* scores and entries
          snap: [Addr -> SnapEntry],        \* entry 1 of a root block
          lab: [Addr -> Label],
          sup: [active: Addr, ehi: Epoch, elo: Epoch]]

Dep == [on: Blk, index: Slot \cup {-1}, old: Ptr \cup Addr, live: BOOLEAN]
Link == [addr: Addr, type: {"root", "ptr", "data"}, epoch: 0..MaxEpoch,
         recurse: BOOLEAN]

TypeOK ==
  /\ mem \in Image /\ disk \in Image
  /\ dirty \subseteq Blk
  /\ prior \in [Blk -> Seq(Dep)] /\ uhead \in [Blk -> Seq(Link)]
  /\ \A b \in Blk \ dirty : prior[b] = <<>> /\ uhead[b] = <<>>
  /\ unlink \in Seq(Link)
  /\ phase \in {"run", "force", "forceagain", "flush", "archive", "down"}
  /\ written \subseteq Addr
  /\ saved \in [Epoch -> SUBSET (Addr \X [Slot -> Ptr])]
  /\ ops \in 0..MaxOps /\ crashes \in 0..MaxCrash

NoKids == [s \in Slot |-> Nil]
FreeLabel == [st |-> "free", copied |-> FALSE, type |-> "none",
              epoch |-> 0, close |-> 0]

(* a disk just formatted (flfmt): an empty root of epoch 1                 *)
Format ==
  [kid |-> [a \in Addr |-> NoKids], snap |-> [a \in Addr |-> Nil],
   lab |-> [a \in Addr |-> IF a = FirstRoot
     THEN [FreeLabel EXCEPT !.st = "alloc", !.type = "root", !.epoch = 1]
     ELSE FreeLabel],
   sup |-> [active |-> FirstRoot, ehi |-> 1, elo |-> 1]]

Init ==
  /\ mem = Format /\ disk = Format
  /\ written = {FirstRoot}
  /\ dirty = {}
  /\ prior = [b \in Blk |-> <<>>]
  /\ uhead = [b \in Blk |-> <<>>]
  /\ unlink = <<>>
  /\ phase = "run"
  /\ saved = [e \in Epoch |-> {}]
  /\ ops = 0 /\ crashes = 0

-----------------------------------------------------------------------------
(* Labels and the tree                                                     *)

Closed(img, a) == img.lab[a].st = "closed"

(* cacheAllocBlock's test of a label                                       *)
Allocatable(img, a) ==
  \/ img.lab[a].st = "free"
  \/ /\ Closed(img, a)
     /\ \/ img.lab[a].close <= img.sup.elo
        \/ img.lab[a].close = img.lab[a].epoch

Kids(img, a) == {img.kid[a][s] : s \in Slot} \ {Nil}
Blocks(ptrs) == {p.to : p \in ptrs}

(* All pointers in the tree whose root is a                                *)
TreePtrs(img, a) ==
  LET entries == Kids(img, a)
  IN entries \cup UNION {Kids(img, p.to) : p \in {q \in entries : q.type = "ptr"}}
Tree(img, a) == {a} \cup Blocks(TreePtrs(img, a))

(* The roots of the snapshots sourceAlloc lets a reader open, from root a: *)
(* Entry.snap is not below the low epoch                                   *)
SnapRoots(img, a) ==
  LET next(r) == IF img.snap[r] # Nil /\ img.snap[r].epoch >= img.sup.elo
                 THEN img.snap[r].to ELSE Nil
      chain[n \in 0..MaxEpoch] ==
        IF n = 0 THEN a
        ELSE IF chain[n-1] = Nil THEN Nil ELSE next(chain[n-1])
  IN {chain[n] : n \in 1..MaxEpoch} \ {Nil}

Root == mem.sup.active
InUse(img) == UNION {Tree(img, r) :
                r \in {img.sup.active} \cup SnapRoots(img, img.sup.active)}

(* What the tree below a holds, to compare with an earlier value           *)
Contents(img, a) == {<<b, img.kid[b]>> : b \in
  {a} \cup Blocks({p \in Kids(img, a) : p.type = "ptr"})}

-----------------------------------------------------------------------------
(* Dependencies and removed links                                          *)

dep(bb, index, old) ==
  [on |-> bb, index |-> index, old |-> old, live |-> TRUE]

(* blockDependency(b, bb, ...), on b's list: none when bb is clean         *)
blockDependency(list, bb, index, old, d) ==
  IF bb \in d THEN <<dep(bb, index, old)>> \o list ELSE list

(* blockRemoveLink(b, addr, ...): b no longer depends on addr              *)
Unprior(list, a) == Keep(list, {x \in Dep : x.on # a})

(* Mutant of link: the blocks below are forgotten.                         *)
linkAlone(a, type, epoch, recurse) ==
  [addr |-> a, type |-> type, epoch |-> epoch, recurse |-> FALSE]

link(a, type, epoch, recurse) ==
  [addr |-> a, type |-> type, epoch |-> epoch, recurse |-> recurse]

(* cacheAllocBlock finds a free block.  The assertion there fails, and the *)
(* program dies, on one that is still dirty.                               *)
CanAlloc(img) == {a \in Addr : Allocatable(img, a) /\ a \notin dirty}

(* Mutant of CurrentEpoch: a block of any epoch still kept is written to.  *)
KeptEpoch(a) == mem.lab[a].epoch >= mem.sup.elo

(* A block of the current epoch is written in place, others are copied     *)
CurrentEpoch(a) == mem.lab[a].epoch = mem.sup.ehi

Alloc(img, a, type, epoch) ==
  [img EXCEPT !.lab[a] = [st |-> "alloc", copied |-> FALSE, type |-> type,
                          epoch |-> epoch, close |-> 0],
              !.kid[a] = NoKids, !.snap[a] = Nil]

(* blockCopy(b): a new block bb with b's contents, not its dependencies;   *)
(* b's label says it has been copied                                       *)
blockCopy(img, b, bb, epoch) ==
  LET new == Alloc(img, bb, img.lab[b].type, epoch)
  IN [new EXCEPT !.kid[bb] = img.kid[b], !.snap[bb] = img.snap[b],
                 !.lab[b].copied = TRUE]

(* Mutant of LabelFirst: the new block may go to disk before its label.    *)
NoLabelFirst == <<>>

(* its dependency: labels go to disk before the block (blockSetLabel)      *)
LabelFirst == <<dep(LB, -1, Nil)>>

(* blockRollback: the contents that are safe to write                      *)
Rollback(kids, list) ==
  [s \in Slot |->
     LET olds == {i \in DOMAIN list : list[i].index = s}
     IN IF olds = {} THEN kids[s] ELSE list[Max(olds)].old]

(* blockWrite's walk of the list: what has been written goes, and so does  *)
(* what a more recent dependency of the same pointer made obsolete         *)
Vetted(list) ==
  LET keep == {i \in DOMAIN list :
        /\ list[i].live
        /\ \A j \in 1..i-1 : list[j].live \/ list[j].index # list[i].index}
      left == Keep([i \in DOMAIN list |-> i], keep)
  IN [k \in DOMAIN left |-> list[left[k]]]

Refused(list) == \E i \in DOMAIN list : list[i].index = -1

(* The disk after block b of img is written in the state its list allows   *)
Written(img, b, list) ==
  CASE b = LB -> [disk EXCEPT !.lab = img.lab]
    [] b = SB -> [disk EXCEPT !.sup = IF list = <<>> THEN img.sup
                    ELSE [img.sup EXCEPT !.active = Last(list).old]]
    [] OTHER -> [disk EXCEPT !.kid[b] = Rollback(img.kid[b], list),
                             !.snap[b] = img.snap[b]]

(* Mutant of closeEpoch: a block is closed with its own epoch.             *)
ownEpoch(img, l) == img.lab[l.addr].epoch

(* a link from the super block (epoch 0) closes with the next epoch        *)
closeEpoch(img, l) == IF l.epoch = 0 THEN img.lab[l.addr].epoch + 1 ELSE l.epoch

(* doRemoveLink: close the block, and below a pointer block what is not    *)
(* closed.  A child the last crash left without a label gets one that      *)
(* labelUnpack rejects.                                                    *)
doRemoveLink(img, l) ==
  LET e == closeEpoch(img, l)
      kids == IF l.recurse /\ l.type = "ptr"
              THEN {a \in Blocks(Kids(img, l.addr)) : ~Closed(img, a)} ELSE {}
      gone == {a \in {l.addr} \cup kids : img.lab[a].epoch <= e}
  IN IF img.lab[l.addr].type # l.type \/ img.lab[l.addr].epoch > e THEN img
     ELSE [img EXCEPT !.lab = [a \in Addr |-> IF a \in gone
             THEN [img.lab[a] EXCEPT !.st = IF @ = "free" THEN "bad" ELSE "closed",
                                     !.close = e]
             ELSE img.lab[a]]]

-----------------------------------------------------------------------------
(* Operations on the tree, with fs->elk held for reading                   *)

Op == phase = "run" /\ ops < MaxOps /\ ops' = ops + 1
(* fsSnapshot's own: fileWalkSources before cacheFlush, and after it those *)
(* that store the snapshot's entry in the tree                             *)
SnapshotOp == phase \in {"flush", "archive"} /\ ops < MaxOps /\ ops' = ops + 1
OpUnchanged == UNCHANGED <<disk, unlink, phase, saved, crashes>>

(* cacheLocalData compares the label with the type the pointer expects, so *)
(* that a block a crash left unlabelled is not found                       *)
Labelled(q) == q # Nil => mem.lab[q.to].type = q.type

(* the root's entries and those of pointer blocks that have been copied    *)
(* for this epoch already; the walk that leads there has done that         *)
Writable(p) ==
  /\ p \in {Root} \cup Blocks({q \in Kids(mem, Root) : q.type = "ptr" /\ Labelled(q)})
  /\ CurrentEpoch(p)
SlotsOf(p) == IF p = Root THEN FileSlot ELSE Slot

(* blockRemoveLink(p, old) on p's list of dependencies and on its links    *)
Dropped(list, old) == IF old = Nil THEN list ELSE Unprior(list, old.to)
Queued(links, p, old, recurse) ==
  IF old = Nil THEN links
  ELSE Append(links, link(old.to, old.type, mem.lab[p].epoch, recurse))

(* blockWalk(p, s) for writing: a nil pointer or a block of a past epoch   *)
(* is replaced by a copy; a data block is then written to                  *)
Walk(p, s) ==
  /\ (Op \/ SnapshotOp)
  /\ Writable(p) /\ s \in SlotsOf(p) /\ Labelled(mem.kid[p][s])
  /\ LET old == mem.kid[p][s]
         type == IF old = Nil THEN "data" ELSE old.type
     IN IF old # Nil /\ CurrentEpoch(old.to)
        THEN /\ type = "data"
             /\ dirty' = dirty \cup {old.to}
             /\ UNCHANGED <<mem, prior, uhead, written>>
        ELSE \E bb \in CanAlloc(mem) :
          LET new == IF old = Nil THEN Alloc(mem, bb, type, mem.sup.ehi)
                     ELSE blockCopy(mem, old.to, bb, mem.sup.ehi)
              d == dirty \cup {LB, bb, p}
              list == blockDependency(prior[p], bb, s, old, d)
          IN /\ mem' = [new EXCEPT !.kid[p][s] = [to |-> bb, type |-> type]]
             /\ dirty' = d
             /\ prior' = [prior EXCEPT ![bb] = LabelFirst,
                  ![p] = Dropped(list, old)]
             /\ uhead' = [uhead EXCEPT ![p] = Queued(@, p, old, FALSE)]
             /\ written' = written \ {bb}
  /\ OpUnchanged

(* sourceKill of a file, and sourceShrinkSize's zeroing of a pointer: size *)
(* is not zero there, so the first pointer stays                           *)
RemoveLink(p, s) ==
  /\ Op /\ Writable(p) /\ s \in SlotsOf(p)
  /\ p = Root \/ s # 0
  /\ LET old == mem.kid[p][s]
     IN /\ old # Nil
        /\ mem' = [mem EXCEPT !.kid[p][s] = Nil]
        /\ prior' = [prior EXCEPT ![p] = Dropped(@, old)]
        /\ uhead' = [uhead EXCEPT ![p] = Queued(@, p, old, TRUE)]
  /\ dirty' = dirty \cup {p}
  /\ UNCHANGED written
  /\ OpUnchanged

(* sourceGrowDepth: a pointer block between the entry and its data block   *)
Grow(s) ==
  /\ Op /\ Writable(Root) /\ s \in FileSlot /\ MaxDepth > 0
  /\ \E bb \in CanAlloc(mem) :
       LET e == mem.kid[Root][s]
           new == Alloc(mem, bb, "ptr", mem.sup.ehi)
           d == dirty \cup {LB, bb, Root}
       IN /\ e # Nil => e.type = "data" /\ Labelled(e)
          /\ mem' = [new EXCEPT !.kid[Root][s] = [to |-> bb, type |-> "ptr"],
                                !.kid[bb][0] = e]
          /\ dirty' = d
          /\ prior' = [prior EXCEPT
               ![bb] = IF e = Nil THEN LabelFirst
                       ELSE blockDependency(LabelFirst, e.to, 0, Nil, d),
               ![Root] = blockDependency(@, bb, s, e, d)]
          /\ written' = written \ {bb}
  /\ UNCHANGED uhead
  /\ OpUnchanged

(* sourceShrinkDepth: the entry points at the first data block again, the  *)
(* pointer block's own pointer to it is zeroed, even in a pointer block    *)
(* that a snapshot shares, and the pointer block is freed                  *)
Shrink(s) ==
  /\ Op /\ Writable(Root) /\ s \in FileSlot
  /\ LET e == mem.kid[Root][s]
         b == mem.kid[e.to][0]
         list == IF b = Nil THEN prior[Root]
                 ELSE blockDependency(prior[Root], b.to, s, e, dirty)
     IN /\ e # Nil /\ e.type = "ptr" /\ Labelled(e) /\ Labelled(b)
        /\ mem' = [mem EXCEPT !.kid[Root][s] = b, !.kid[e.to][0] = Nil]
        /\ prior' = [prior EXCEPT
             ![Root] = Dropped(list, e),
             ![e.to] = blockDependency(@, Root, 0, b, {Root})]
        /\ uhead' = [uhead EXCEPT ![Root] = Queued(@, Root, e, TRUE)]
        /\ dirty' = dirty \cup {Root, e.to}
  /\ UNCHANGED written
  /\ OpUnchanged

-----------------------------------------------------------------------------
(* The cache's threads                                                     *)

(* Mutant of Wrote: the version does not change.                           *)
WroteSame(list, b) == list

Wrote(list, b) ==
  [i \in DOMAIN list |-> [list[i] EXCEPT !.live = @ /\ list[i].on # b]]

(* blockSetIOState(b, BioClean): the block's links go to the unlink queue  *)
Released(b, list) == IF list = <<>> THEN uhead[b] ELSE <<>>

(* Mutant of StillDirty: a block is clean whatever was rolled back.         *)
CleanAnyway(b, list) == dirty \ {b}

StillDirty(b, list) == IF list = <<>> THEN dirty \ {b} ELSE dirty

(* blockWrite and what diskThread does with the block: it is refused while *)
(* its label is not on disk, clean if nothing was rolled back, and dirty   *)
(* otherwise, a new version in both cases                                  *)
Write(b) ==
  LET list == Vetted(prior[b])
  IN IF Refused(list)
     THEN /\ prior' = [prior EXCEPT ![b] = list]
          /\ UNCHANGED <<disk, dirty, uhead, unlink, written>>
     ELSE /\ disk' = Written(mem, b, list)
          /\ dirty' = StillDirty(b, list)
          /\ prior' = [c \in Blk |-> IF c = b THEN list ELSE Wrote(prior[c], b)]
          /\ uhead' = [uhead EXCEPT ![b] = IF list = <<>> THEN <<>> ELSE @]
          /\ unlink' = unlink \o Released(b, list)
          /\ written' = written \cup ({b} \cap Addr)

(* flushThread; bumpEpoch holds the super block's lock in phase "force"    *)
Flush(b) ==
  /\ phase # "down" /\ b \in dirty
  /\ b = SB => phase \notin {"force", "forceagain"}
  /\ Write(b)
  /\ UNCHANGED <<mem, phase, saved, ops, crashes>>

(* unlinkThread takes one link of the queue                                *)
Unlink ==
  /\ phase # "down" /\ unlink # <<>>
  /\ mem' = doRemoveLink(mem, Head(unlink))
  /\ dirty' = IF mem' = mem THEN dirty ELSE dirty \cup {LB}
  /\ unlink' = Tail(unlink)
  /\ UNCHANGED <<disk, prior, uhead, phase, history, ops, crashes>>

-----------------------------------------------------------------------------
(* fs.c, with fs->elk held for writing                                     *)

(* superWrite of img.sup, forced: the super block never waits for a label  *)
superWrite(img, list) ==
  /\ disk' = Written(img, SB, list)
  /\ unlink' = unlink \o Released(SB, list)

(* bumpEpoch up to superWrite: a copy of the root in the next epoch, with  *)
(* a pointer to the old root, and the super block that names it.           *)
bumpEpoch ==
  /\ ops < MaxOps /\ ops' = ops + 1
  /\ mem.sup.ehi < MaxEpoch
  /\ \E bb \in CanAlloc(mem) :
       LET ehi == mem.sup.ehi + 1
           new == blockCopy(mem, Root, bb, ehi)
       IN /\ mem' = [new EXCEPT
                 !.snap[bb] = [to |-> Root, epoch |-> mem.lab[Root].epoch],
                 !.sup.active = bb, !.sup.ehi = ehi]
          /\ prior' = [prior EXCEPT ![bb] = LabelFirst,
                 ![SB] = blockDependency(@, bb, 0, Root, {bb})]
          /\ dirty' = dirty \cup {LB, bb, SB}
          /\ written' = written \ {bb}
  /\ saved' = [saved EXCEPT ![mem.lab[Root].epoch] = Contents(mem, Root)]
  /\ UNCHANGED <<disk, uhead, unlink, crashes>>

(* fsSnapshot; an archival one does it again                               *)
fsSnapshot == phase = "run" /\ bumpEpoch /\ phase' = "force"
Archive == phase = "archive" /\ bumpEpoch /\ phase' = "forceagain"

(* bumpEpoch from superWrite on.  The old root is closed at once if the    *)
(* super block went out with the new one.                                  *)
ForceSuper ==
  /\ phase \in {"force", "forceagain"}
  /\ LET list == Vetted(prior[SB])
         old == link(mem.snap[Root].to, "root", 0, FALSE)
     IN /\ superWrite(mem, list)
        /\ IF list = <<>>
           THEN /\ mem' = doRemoveLink(mem, old)
                /\ dirty' = (dirty \ {SB}) \cup {LB}
                /\ prior' = [prior EXCEPT ![SB] = <<>>]
                /\ uhead' = [uhead EXCEPT ![SB] = <<>>]
           ELSE /\ prior' = [prior EXCEPT ![SB] = Unprior(list, old.addr)]
                /\ uhead' = [uhead EXCEPT ![SB] = Append(@, old)]
                /\ UNCHANGED <<mem, dirty>>
  /\ phase' = IF phase = "force" THEN "flush" ELSE "run"
  /\ UNCHANGED <<history, ops, crashes>>

(* fsSnapshot's cacheFlush returns                                         *)
Flushed ==
  /\ phase = "flush" /\ dirty = {}
  /\ phase' \in {"run", "archive"}
  /\ UNCHANGED <<mem, disk, cache, unlink, history, ops, crashes>>

(* fsEpochLow.  The console may also lower it, with a warning; it is then  *)
(* said to resurrect snapshots, and is left out.                           *)
fsEpochLow(low) ==
  /\ Op /\ low > mem.sup.elo /\ low <= mem.sup.ehi
  /\ mem' = [mem EXCEPT !.sup.elo = low]
  /\ LET list == Vetted(prior[SB])
     IN /\ superWrite(mem', list)
        /\ prior' = [prior EXCEPT ![SB] = list]
        /\ dirty' = StillDirty(SB, list)
        /\ uhead' = [uhead EXCEPT ![SB] = IF list = <<>> THEN <<>> ELSE @]
  /\ UNCHANGED <<phase, history, crashes>>

(* The machine stops.  What was not written is lost.                       *)
Crash ==
  /\ phase # "down" /\ crashes < MaxCrash /\ crashes' = crashes + 1
  /\ mem' = disk
  /\ dirty' = {}
  /\ prior' = [b \in Blk |-> <<>>]
  /\ uhead' = [b \in Blk |-> <<>>]
  /\ unlink' = <<>>
  /\ phase' = "down"
  /\ UNCHANGED <<disk, history, ops>>

(* fsOpen: a root of a past epoch is copied on write                       *)
fsOpen ==
  /\ phase = "down" /\ mem.lab[Root].type = "root"
  /\ IF mem.lab[Root].epoch = mem.sup.ehi
     THEN UNCHANGED <<mem, cache, written>>
     ELSE \E bb \in CanAlloc(mem) :
       /\ mem' = [blockCopy(mem, Root, bb, mem.sup.ehi) EXCEPT !.sup.active = bb]
       /\ dirty' = {LB, bb, SB}
       /\ prior' = [prior EXCEPT ![bb] = LabelFirst, ![SB] = blockDependency(@, bb, 0, Root, {bb})]
       /\ uhead' = [uhead EXCEPT ![SB] = <<link(Root, "root", 0, FALSE)>>]
       /\ written' = written \ {bb}
  /\ phase' = "run"
  /\ UNCHANGED <<disk, unlink, saved, ops, crashes>>

Client == \/ \E p \in Addr, s \in Slot : Walk(p, s) \/ RemoveLink(p, s)
          \/ \E s \in FileSlot : Grow(s) \/ Shrink(s)
          \/ fsSnapshot \/ Archive
          \/ \E low \in Epoch : fsEpochLow(low)
Threads == Unlink \/ ForceSuper \/ Flushed \/ \E b \in Blk : Flush(b)
Fault == Crash \/ fsOpen

Next == Client \/ Threads \/ Fault
Spec == Init /\ [][Next]_vars

-----------------------------------------------------------------------------
(* Properties                                                              *)

DiskRoots == {disk.sup.active} \cup SnapRoots(disk, disk.sup.active)
OnDisk(a, type) == /\ a \in written
                   /\ disk.lab[a].st # "free"
                   /\ disk.lab[a].type = type

(* What the disk holds at any moment is what a crash leaves.               *)

(* The super block on disk names a root that has gone to disk: what        *)
(* bumpEpoch says of its forced write (fs.c), "the address of the most     *)
(* recent root that has gone to disk".  Fails (MCFossilSuper.cfg): the     *)
(* second of two forced writes drops the first one's dependency.           *)
SuperOnDisk == OnDisk(disk.sup.active, "root")

(* Whenever the machine stops, all that the disk's active tree and its     *)
(* readable snapshots point to has been written, under a label of its      *)
(* type: blockRollback's copies are "safe to write out" (cache.c).  Fails  *)
(* for a root copied with its children dirty (MCFossilTree.cfg) and for a  *)
(* file that grows and shrinks while dirty (MCFossilShrink.cfg).           *)
TreeOnDisk ==
  \A r \in DiskRoots : /\ OnDisk(r, "root")
                       /\ \A p \in TreePtrs(disk, r) : OnDisk(p.to, p.type)

(* No block in use, in memory or on disk, in the active tree or a          *)
(* snapshot, is one cacheAllocBlock would give out: the cache never        *)
(* gives "out b for reuse before p gets written" (cache.c).  Fails         *)
(* (MCFossilReuse.cfg): p may be on disk before any root that leads to it. *)
NotReused == \A a \in InUse(mem) \cup InUse(disk) : ~Allocatable(mem, a)

(* A snapshot that can be read holds what was in the tree when it was      *)
(* taken, the file system "at that moment" (fossil(4)).  Fails: a shared   *)
(* file that shrinks loses its first block there (MCFossilSnap.cfg).       *)
SnapshotIntact == \A r \in SnapRoots(mem, Root) :
  Contents(mem, r) = saved[mem.lab[r].epoch]

(* Until a crash, no block that the active tree or a readable snapshot     *)
(* leads to is given out again, whatever was dirty when the snapshots were *)
(* taken and however far the low epoch was raised.                         *)
InUseIsKept == crashes = 0 => \A a \in InUse(mem) : ~Allocatable(mem, a)

(* Until a crash, nothing but the first pointer of a pointer block, which  *)
(* sourceShrinkDepth zeroes, changes in a snapshot: copy on write misses   *)
(* no block.                                                               *)
FirstZeroed(x) == <<x[1], [x[2] EXCEPT ![0] = Nil]>>
SnapshotKept == crashes = 0 => \A r \in SnapRoots(mem, Root) :
  LET was == saved[mem.lab[r].epoch]
      shrunk == {x \in was : mem.lab[x[1]].type = "ptr"}
  IN was \ Contents(mem, r) \subseteq {x \in shrunk : FirstZeroed(x) \in Contents(mem, r)}

(* What is not dirty is on disk as it is in memory, so that a sync that    *)
(* waits for the dirty blocks leaves nothing for a crash to lose: no       *)
(* rolled back write, no forced write of the super block and no change of  *)
(* a label is taken for the last word.                                     *)
CleanIsOnDisk ==
  /\ \A a \in Addr \ dirty : disk.kid[a] = mem.kid[a] /\ disk.snap[a] = mem.snap[a]
  /\ LB \notin dirty => disk.lab = mem.lab
  /\ SB \notin dirty => disk.sup = mem.sup

(* A block is on disk only under its own label: since it was allocated it  *)
(* has been written after the label that says what it is, which no roll    *)
(* back, second dependency on its list or reuse of its address undoes.     *)
UnderItsLabel == \A a \in written :
  /\ disk.lab[a].st # "free"
  /\ disk.lab[a].type = mem.lab[a].type /\ disk.lab[a].epoch = mem.lab[a].epoch

(* Without crashes no block is lost: once everything is written and the    *)
(* unlink queue is empty, every open block is in the active tree.          *)
NoLeak == crashes = 0 /\ dirty = {} /\ unlink = <<>> =>
  \A a \in Addr : mem.lab[a].st = "alloc" => a \in Tree(mem, Root)

(* Invariant (i) of fossil's notes: a block in use points at none that is  *)
(* younger, nor at one that was closed in its time.                        *)
EpochsNest ==
  \A a \in InUse(mem) : \A p \in Kids(mem, a) :
    /\ mem.lab[p.to].epoch <= mem.lab[a].epoch
    /\ Closed(mem, p.to) => mem.lab[a].epoch < mem.lab[p.to].close

(* Invariants (ii) to (iv), the joins flchk looks for: two blocks that      *)
(* point at one block are of different epochs, not both in the active      *)
(* tree, and the one of its own epoch is marked as copied.                 *)
NoJoin ==
  \A a, b \in InUse(mem) :
    \A x \in Blocks(Kids(mem, a)) \cap Blocks(Kids(mem, b)) : a # b =>
      /\ mem.lab[a].epoch # mem.lab[b].epoch
      /\ mem.lab[a].epoch = mem.lab[x].epoch => mem.lab[a].copied
      /\ {a, b} \ Tree(mem, Root) # {}

(* The numbered invariants (invariants:17-28, check.c:160-164) together.   *)
(* A crash may leave pointers to blocks that were never written (see       *)
(* TreeOnDisk), whose addresses are then used again.                       *)
NotesHold == TypeOK /\ (crashes = 0 => EpochsNest /\ NoJoin)

(* No circle of blocks waits for one another's write: while anything is   *)
(* dirty, some block can go to disk whole, with nothing rolled back, and   *)
(* so cacheFlush returns once the clients rest.                            *)
NoCircle == dirty # {} => \E b \in dirty : Vetted(prior[b]) = <<>>
=============================================================================
