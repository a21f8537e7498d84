# A TLA+ development of 9atom's concurrent core

This directory specifies the parts of 9atom (a Plan 9 distribution) in which processes
meet: how the kernel's processes block, are woken, are interrupted and die; how they share
a 9P connection; how the threads of `libthread` share channels; and how the file server
fossil keeps its disk consistent when the machine may stop at any write.  The reference is
the C source under `src/sys/src`; manual pages are quoted only for what they promise.

The repository holds a whole operating system.  Most of it is sequential (compilers,
commands, libraries), hardware bound (drivers, architecture ports), or vendored.  What is
both central and hard is the concurrent code of the portable kernel, `src/sys/src/9/port`,
the user libraries that build on it, and the crash-proof block cache of fossil.

## 1. Inventory

Paths are relative to `src/sys/src`.

| component | source | state it keeps | operations |
|---|---|---|---|
| scheduler | `9/port/proc.c` | `Proc.state`, `Proc.mach`, run queues | `sched`, `ready`, `runproc`, `dequeueproc`, `schedinit`, preemption by clock |
| spin locks | `9/port/taslock.c` | `Lock.key`, `up->nlocks`, `up->delaysched` | `lock`, `canlock`, `unlock`, `ilock`, `iunlock` |
| queueing locks | `9/port/qlock.c` | `QLock.use/locked/head/tail`, `Proc.qnext` | `qlock`, `canqlock`, `qunlock` |
| readers-writer locks | `9/port/qlock.c` | `RWlock.use/readers/writer/head/tail` | `rlock`, `canrlock`, `runlock`, `wlock`, `wunlock` |
| sleep and wakeup | `9/port/proc.c` | `Rendez.p`, `Proc.r`, `Proc.rlock` | `sleep`, `wakeup`, `postnote` |
| rendezvous | `9/port/sysproc.c` | `Rgrp.rendhash`, `Proc.rendtag/rendval` | `sysrendezvous`, `postnote`'s extraction |
| note delivery | `9/pc/trap.c` | `Proc.nnote/notepending/notified` | `notify`, `noted` |
| timed sleep | `9/port/proc.c` | `Proc.trend`, `Proc.Timer` | `tsleep`, `tfn`, `twakeup` |
| timers | `9/port/portclock.c` | per-processor lists, `Timer.tt` | `timeradd`, `timerdel`, `timerintr` |
| semaphores | `9/port/sysproc.c` | the value in user memory, `Segment.sema`, `Sema.waiting` | `semacquire`, `tsemacquire`, `semrelease` |
| life cycle | `9/port/proc.c`, `sysproc.c`, `devproc.c` | `pid`, `parent`, `parentpid`, `nchild`, `nwait`, `waitq`, the free list, the table of broken processes | `newproc`, `sysrfork`, `pexit`, `addbroken`, `unbreak`, `pwait`, reads of a wait file |
| alarms | `9/port/alarm.c` | the alarm list, `Proc.alarm` | `procalarm`, `checkalarms`, `alarmkproc` |
| I/O queues | `9/port/qio.c` | `Queue.state/len`, the block list | `qread`, `qwrite`, `qbwrite`, `qhangup` |
| mount driver | `9/port/devmnt.c` | `Mnt.queue`, `Mnt.rip`, `Mntrpc.done/flushed/tag`, the free list, `tagmask` | `mountrpc`, `mountio`, `mountmux`, `mntgate`, `mntflushalloc`, `mntflushfree`, `mntqrm`, `mntfree` |
| name space, channels | `9/port/chan.c`, `pgrp.c` | reference counts, mount heads | `namec`, `cclose`, `cmount` |
| virtual memory | `9/port/page.c`, `segment.c`, `swap.c` | page and segment reference counts | `newpage`, `putpage`, `fault`, pager |
| real-time scheduler | `9/port/edf.c` | releases, deadlines, slices | `edfadmit`, `release`, `edfyield` |
| user locks | `libc/9sys/qlock.c` | `QLock`, `RWLock`, `Rendez` over rendezvous | `qlock`, `rsleep`, `rwakeup` |
| block cache and epochs | `cmd/fossil/cache.c`, `disk.c`, `fs.c`, `source.c` | `Block.iostate/vers/prior/uhead`, labels, `Super.epochLow/epochHigh/active` | `blockDependency`, `blockWrite`, `blockRollback`, `blockRemoveLink`, `cacheFlushBlock`, `fsSnapshot`, `fsEpochLow` |
| thread library | `libthread/channel.c`, `rendez.c`, `kill.c` | `Channel.buf/qentry/closed/freed`, `Alt.tag`, rendezvous of threads | `alt`, `chanclose`, `chanfree`, `threadint`, `_threadrendezvous`, `_threadbreakrendez` |

`PROJECT.json` gives each of these, and the parts left aside for good, a status and a
reason.

### How the components interact

* **Blocking is two moves.**  A process writes a blocked state into its own `Proc`
  while it still executes and gives up its processor later.  Between the two, another
  processor may already call `ready()` on it.  `Proc.mach`, cleared by `schedinit`
  only when the context is saved, keeps `dequeueproc` from running a process that is
  still executing.  Every primitive relies on this.
* **Releasing a spin lock can be a reschedule** (`unlock` honours `delaysched`), and a
  clock tick can come anywhere that no spin lock is held and interrupts are on.  So a
  process can lose its processor after writing its blocked state and before its own
  `sched()`.
* **A sleep is guarded by two locks** of two different objects, the `Rendez` and the
  sleeper's `Proc.rlock`.  `sleep` and `wakeup` take the `Rendez` first, `postnote` must
  begin with the process.
* **Notes reach into everything that blocks**: sleeps, rendezvous groups, semaphores
  (through sleep).
* **Semaphores** live in memory that can fault, so the value is never touched with a
  lock held: the queue and the value are two data structures joined by the protocol
  around `Sema.waiting`.
* **A `Proc` structure outlives its process.**  A child holds a pointer to its parent's
  structure, which by the time the child exits may be dead, on the free list, being filled
  by `newproc`, or another process.  Only a comparison of pids tells these apart, and pid 0
  stands both for "no parent to tell" and for "no process".
* **The processes of a mount read for one another.**  Whoever finds no reader becomes the
  reader; when its own reply has come it lets the next one in.  An interrupted process
  replaces its request by a flush of it, and may then get either reply.  Structures and tags
  are used again as soon as they are free.
* **Threads commit one another under a lock and meet outside it.**  `alt` and `chanclose`
  set the other thread's variable `c` with `chanlock` held, then drop it and meet in a
  rendezvous that either may reach first and that an interrupt may break.
* **fossil writes to a disk that may stop at any write.**  Its cache keeps, for each
  block, the writes that must precede it (`Block.prior`) and those pointers to free once
  it is on disk (`Block.uhead`); a block with a dependency still dirty is written with
  that one pointer rolled back, and stays dirty.
* **Timeouts** reuse one `Timer` embedded in each `Proc`; the interrupt that takes it off
  its list calls the timer's function after it has released the list.

### Hard behaviour, and the properties that answer it

The hazards are listed, each at its line, in `PROJECT.json` with the properties that
would catch them.  In short:

* hand-over of a lock between the unlink and the new owner's return: `Exclusion`,
  `ReadiedOnce`, refinement of `FifoLock`;
* the panics of `runlock`, `wunlock`, `wakeup` and `postnote`, which rest on what *other*
  operations leave behind: `NoPanic`;
* a wakeup or note between the test and the sleep, and the two lock orders:
  `NoLostWakeup`, `NoLostNote`, `SleeperReleased`;
* partner and note racing for the same process in a rendezvous: `OneWaiterPerTag`;
* wakeups of a semaphore that are claimed by an acquirer that gives up:
  `WakeupsArrive`, `PermitIsUsed`, refinement of `SemaphoreSpec`;
* the timer interrupt that outlives the sleep it was meant for: `TimeoutArmed`, `TimesOut`;
* wait records left with a structure that belongs to somebody else by now, or dropped at
  the limit, or taken by a reader of the wait file: `RecordsAreOwn`, `CountsAreRight`,
  `WaitsEnd`; and, as findings, `ChildrenOnly`, `NoVainWait`, `NoUseAfterFree`, `ReaderIsTold`;
* a reader of a connection that leaves, replies that cross their flush, tags used again:
  `OneReader`, `CallsReturn`, `OwnReply`, `HonorsReply`, `TagsOwned`, `QueueIsLive`, and `NobodyLeft`
  as a finding;
* an `alt` that two partners, a close and an interrupt all want, and a channel that is freed
  meanwhile: refinement of `ChanSpec`, `CommittedReturn`, `FreedInTime`, and `BlockedDelaysFree` as a
  finding;
* blocks that reach the disk in the wrong order, are freed too early or never, or appear
  in two trees: `CleanIsOnDisk`, `UnderItsLabel`, `InUseIsKept`, `SnapshotKept`, `NoLeak`, `NotesHold`,
  `NoCircle`; and, as findings, `SuperOnDisk`, `TreeOnDisk`, `NotReused`, `SnapshotIntact`.

## 2. Modules

```
Sched ----+-- LockQueue --+-- QLock --- MCQLock     FifoLock <- refined by QLock
          |               +-- RWlock -- MCRWlock
          |               \-- LockProofs (QLock, RWlock, ListLemmas -- Lists)
          \-- SleepWakeup -- MCSleepWakeup
                 \---------- SleepWakeupProofs (and Tsleep)
Semaphore ---- MCSemaphore                  SemaphoreSpec <- refined by Semaphore
     \-------- SemaphoreProofs (and ListLemmas)
Tsleep ------- MCTsleep
ProcLife ----- MCProcLife
     \-------- ProcLifeProofs (and ListLemmas)
MountRpc ----- MCMountRpc                   (and Lists)
     \-------- MountRpcProofs (and ListLemmas)
ThreadChan --- MCThreadChan                 ChanSpec <- refined by ThreadChan
     \-------- ThreadChanProofs (and ListLemmas)
FossilCache -- MCFossilCache
     \-------- FossilProofs (and ListLemmas)
```

`Semaphore`, `Tsleep`, `ProcLife` and `MountRpc` use sleep and wakeup as atomic operations; `SleepWakeup` is the
justification (no wakeup and no note is lost between the test and the sleep).

**Procs** and **Sleepers** only declare constants that several of these share.

**Sched** holds `state` and `mach` and the operators `sched`, `ready`, `runproc` and
`preempt`.  Any Ready process may run next, which covers every priority, affinity and
accounting policy.  A processor is not a resource, so every process may be on one: this
allows more interleavings than any number of processors does.

**LockQueue** declares what both locks of `qlock.c` have: the spin lock `use`, the list
`head..tail` as the sequence `queue`, the place `pc` of each process, and `next`, the local
variable of a release.

**QLock.**  Adds the field `locked`.  One action per access another process can tell apart: taking `use`, the
section under it, `sched()`, the return from it, `ready()` after `use` is dropped.
**FifoLock** is what `qlock(9)` promises: one holder, and the lock goes to whoever has
waited longest, in the same step in which it is released.

**RWlock.**  Adds `readers` and `writer`.  As `QLock`, with the sections under `use` as one step, except `wunlock`'s loop
that starts the waiting readers while it holds `use`: one step per reader.  The releaser
tells readers from writers by reading `Proc.state`, as the code does.  The two panics are
a label that `NoPanic` forbids.  Definitions that `QLock` has too have the prefix `RW` here, so
that `LockProofs` can be about both.

**SleepWakeup.**  `rlk`, `plk`, `glk` are the spin locks of the `Rendez`, the `Proc` and the
rendezvous group; `rp` and `pr` are `r->p` and `p->r`; `cond` is what the sleeper's
function tests.  `sleep` is five steps up to the scheduler, `postnote` five, with its
unlocked reading of `p->state` and the second test under the group's lock.
`sysrendezvous` spins, with the group's lock held, until its partner is off the processor
(`RendReady`).  `Notify`, `NoNote` and `Noted` are what the return to user mode does to the
note queue.

**Semaphore.**  `value` is the word in user memory, `sema` the spin lock of the list,
`list` the acquirers on it.  `semwakeup`'s walk is one step per element, with the wakeup
a step of its own after `waiting` has been cleared.  A compare-and-swap loop is the step in
which it ends.  `call` records what each process asked for or was answered; with `value`
it is the whole state of **SemaphoreSpec**, in which each call takes effect in one step.

**Tsleep.**  `tt` is the list a process's timer is on, `trend` is `Proc.trend`, `ipc`,
`timer` and `towake` follow each processor's interrupt: take the timer off the list, then
in `twakeup` read `trend`, clear it, wake.  A processor in its interrupt runs no process.
`tsleep` has the two ways out of the code: the error handler calls `timerdel` always, the normal
return only if it reads, with no lock held, that `up->tt` is set.

**ProcLife.**  `proc` holds the fields of each structure, `free` and `broken` the two tables,
`qwaitr` who holds the lock of that name.  `newproc`'s two halves, taking a structure and
giving it a pid, are steps, with `sysrfork`'s link to the parent a third; `pexit` is: leave
the record, stop as broken perhaps, clear the pid, free the records and the structure.
`pwait` and the read of a wait file are followed from lock to lock, with the reader's
comparison of pids outside the lock, as in the code.  A record is named by the pid in it;
`owner`, `got`, `freed` and `astray` are history, the last the dissociated children (`RFNOWAIT`) that
took a structure for their parent's since it was last taken off the free list.

**MountRpc.**  A request is a structure of `Rpc`; `queue`, `rip`, `rpcfree` and `tagmask` are the
variables of those names.  Each process is at a place of `mountio`; `cur` is its `r`, whose
chain of `flushed` leads back to its call.  A note may come wherever `mountio` can block.
The server (modelled from `flush(5)` as the code uses it, and marked external) answers in
any order, honours a flush by forgetting the request, and may hang up.  In `mountmux` the
owner of a finished request may go on before the reader's `wakeup`, so that is two steps.

**ThreadChan.**  `buf`, `qentry`, `closed` and `freed` are the fields of `Channel`; `tag` is alt's variable
`c`, by which an entry is known to be committed.  A section under `chanlock` is one step.
Then comes the rendezvous: arrive and wait, or arrive and meet; `threadint` flags a waiter
and `_threadbreakrendez` releases those flagged.  `chanclose` is a step up to each entry
that it wakes.  **ChanSpec** is thread(2)'s promise: a call takes effect in one step on one of
its channels, or waits only when nothing can proceed; a close fails those that wait.

**FossilCache.**  `mem` and `disk` are two copies of the same record: the pointers of each block,
the snapshot entry of a root, all labels and the super block.  `dirty`, `prior` and `uhead` are
the fields of `Block`, `unlink` the queue of the unlink thread, `phase` what holds `fs->elk`.
`Write` is `blockWrite`, `blockRollback` and the disk thread's `blockSetIOState` together:
nothing else can touch the block between.  `Walk`, `Grow`, `Shrink` and `RemoveLink` are what
`source.c` does to the tree; `fsSnapshot`, `ForceSuper`, `Flushed` and `Archive` are the parts of
a snapshot between which the cache's threads may write; `Crash` replaces `mem` by `disk` and
`fsOpen` repairs the root.

In each module the operators named `...Mutant of...` in a comment are deliberate errors
used to confirm that each property can fail; no specification uses them.

## 3. What the runs check

| run | instance | distinct states | what it shows |
|---|---|---|---|
| `qlock` | 3 processes | 4 500 | exclusion through the hand-over, one `ready` per wait, nobody starves, `QLock` implements `FifoLock` with its fairness |
| `rwlock` | 3 processes | 7 038 | no panic, writers exclude, nobody is stranded, neither readers nor writers starve |
| `sleep_wakeup` | 3 processes, 1 `Rendez`, 1 tag, 2 notes to 1 target | 221 595 | no panic, no lost wakeup or note, one waiter per tag |
| `sleep_live` | 3 processes, 1 `Rendez`, 1 note | 30 912 | a sleeper with its condition true or a note pending runs again |
| `semaphore` | 3 processes, value up to 1, all kinds of call | 788 953 | no wakeup missed or lost, each call is atomic, a permit does not lie unused beside a waiter |
| `tsleep` | 2 processes, 2 `Rendez`, 2 processors, `OrderlySpec` | 16 116 | a sleeper's timeout is armed or on its way, and comes |
| `tsleep_lost` | 1 process, 2 `Rendez`, 2 processors | violated | finding 1 |
| `fossil` | 4 blocks, files of depth 0 or 1, 4 epochs, 5 operations, 1 crash | 594 046 | epochs nest, no block is lost or given out while in use, snapshots lose only what a shrink takes, what is clean is on disk, labels precede their blocks, no blocks wait for one another in a circle |
| `fossil_reuse` | 6 blocks, depth 0, 3 epochs, 5 operations, 1 crash | violated, 14 states | finding 2 |
| `proc_life` | 3 structures, 4 pids, 1 wait record, 1 broken process | 827 092 | records reach their parent once, counts are right but for strays, waits end |
| `mount` | 3 processes, 3 calls, 5 structures, 2 notes, a hangup | 975 867 | one reader, each call gets its own reply, flushes honour late replies, tags are distinct, every call returns unless the reader left it |
| `thread_chan` | 3 threads, 3 calls, 2 channels (1 and 0 values), 1 interrupt | 581 020 | every `alt` is one operation of thread(2)'s channels, whoever is committed returns, memory goes when the last entry does |

Every property of a passing run has a mutant of the code in `PROJECT.json` that breaks it.

### Bounds, and why they are enough

* **Three processes** are an owner, a waiter and a newcomer, which is what barging, lost
  hand-overs and the queue's head and tail need; with notes they are a sleeper, a waker
  and a poster, the three that race for one sleeper.
* **One `Rendez`** has one sleeper at a time by its callers' rule; two processes that
  wake and two lock orders all meet on it.  The rendezvous tag shares the run because
  `postnote` goes through both.
* **`NNOTE`** is 5 in the kernel; 1 or 2 makes the limit reachable in a few steps.
* **`MaxValue`** bounds the value in `SemRelease`.  One permit and three processes make a releaser,
  an acquirer that takes the permit and one that must be told; larger values, where
  `semwakeup` wakes several, are covered by the proofs (section 4).  The kernel refuses a
  value that would become negative; overflow of the word is not modelled.
* **Two processors** in `Tsleep` are the least with which a process can run while the
  interrupt that took its timer is still in progress.
* Symmetry is used in safety-only runs, over the processes that play the same part.

* **`proc_life`**: a parent, a child and a grandchild or a reader; with four pids a structure is
  used for a second process while the first one's child still points at it.  `Limit` 1 and
  `NBROKEN` 1 make both tables full.  `Reader` names the processes that read wait files.
* **`mount`**: three calls are the reader, the next reader and a sleeper; two notes let a flush
  be flushed.  `Caller` breaks the symmetry of the processes by hand, since liveness
  excludes `SYMMETRY`.  `MaxTag` is above what three calls can use; `KeepFree` 2 lets the free list
  overflow.
* **`thread_chan`**: one buffered and one unbuffered channel, and arrays of one entry and of two
  in both orders; three calls are two partners and an interloper.
* **`fossil`**: four blocks are a root, its copy, and two to copy a child or put a pointer block
  above it; blocks are used again once they are free, so more operations than blocks do something.
  Four epochs are three snapshots, which an archival one needs on top of an ordinary one; five
  operations are a file that grows, is written, is snapshotted and shrinks or is copied after that.
  One crash may come anywhere.  `fossil_reuse` is cut to the instance that shows the violation.

`CHECK_DEADLOCK` is on for the locks, sleeps and semaphores.  It is off in the runs of
`FossilCache`, `ProcLife`, `MountRpc` and `ThreadChan`: their calls or operations are bounded and
their processes may rest for good, which is no deadlock.  What a deadlock would be is
stated there as a property: `NoCircle`, `WaitsEnd`, `CallsReturn`, `CommittedReturn`.

### Promises the code breaks, and what is left of them

No behaviour of the code is left out to make a property hold.  Where a promise of a comment or a
manual page fails, a configuration shows it (section 5), and the passing runs check what is true
instead.  Findings 1 and 2 are runs of `PROJECT.json`; the others are kept as configurations for
`tlc -config <configuration> <module>`, each of which ends in the violation of its one property:

| configuration | module | violates | states to the violation |
|---|---|---|---|
| `MCFossilSuper.cfg` | `MCFossilCache` | `SuperOnDisk` | 12 |
| `MCFossilTree.cfg` | `MCFossilCache` | `TreeOnDisk` | 6 |
| `MCFossilShrink.cfg` | `MCFossilCache` | `TreeOnDisk` | 5 |
| `MCFossilSnap.cfg` | `MCFossilCache` | `SnapshotIntact` | 13 |
| `MCLifeStray.cfg` | `MCProcLife` | `ChildrenOnly` | 16 |
| `MCLifeVain.cfg` | `MCProcLife` | `NoVainWait` | 18 |
| `MCLifeFreed.cfg` | `MCProcLife` | `NoUseAfterFree` | 13 |
| `MCLifeUntold.cfg` | `MCProcLife` | `ReaderIsTold` | 9 |
| `MCMountLeft.cfg` | `MCMountRpc` | `NobodyLeft` | 28 |
| `MCChanFreed.cfg` | `MCThreadChan` | `BlockedDelaysFree` | 4 |
| `MCChanTwice.cfg` | `MCThreadChan` | `ImplementsChan` | 3 |

| broken promise | what holds |
|---|---|
| `ChildrenOnly`, `NoVainWait` | `RecordsAreOwn` is about children that were not dissociated; `CountsAreRight` and `WaitsEnd` account for the strays (`astray`) exactly |
| `NoUseAfterFree`, `ReaderIsTold` | the reader still gets each record once and none of another's child (`RecordsAreOwn`) |
| `NobodyLeft` | `CallsReturn`: the only calls that do not return sleep on a connection that was hung up and that nobody reads, after an interrupt (`Abandoned`) |
| `BlockedDelaysFree` | `FreedInTime`: a channel waits for its entries and for a close, though not for an alt that found it closed |
| `SnapshotIntact` | `SnapshotKept`: a snapshot loses the first pointers of pointer blocks and nothing else |
| `NotReused` | `InUseIsKept`: no block of the cache's trees is given out until a crash |
| `SuperOnDisk`, `TreeOnDisk` | `CleanIsOnDisk`: once nothing is dirty the disk is what the cache is, so that what a crash may spoil is what was not synced; `UnderItsLabel`: what was written can be found |

### Fairness

`SF(Step(p))`: a process executes and, in a test-and-set loop, gets its turn at a spin
lock whose sections are a few instructions long.  Strong, because preemption may disable
a step again and again; a preempted process is put at the back of its queue and the
scheduler raises the priority of one that has not run.  `SF(free lock /\ Run(p))`:
the scheduler does not run a process *only* at moments at which another holds the spin
lock; `unlock` ends before a delayed tick may take the holder off.  Holders release what
they hold (`Step` contains the release).  Nobody is obliged to call, to send a note, or to
make a condition true.

`MountRpc` and `ThreadChan` assume only that *some* process, thread or server goes on as long
as one can (`WF` of the union of the steps): their properties say that finitely many calls
come to rest in the right places, which needs no more.  Notes, hangups, calls, closes and
frees are never obliged to happen.  `FossilCache` assumes none: `NoCircle` is a safety property.  That
`cacheFlush` returns follows from it, since the flush thread takes every dirty block in turn, a block
that is written whole is clean, and only the unlink queue, which the clients alone lengthen, makes the
label block dirty again.

`postnote`'s retry loop is not shown to end by itself.  The target may be woken and go to
sleep again each time; what is shown is that the sleeper is released (`SleeperReleased`).

`OrderlySpec` of `Tsleep` restricts the behaviours to those in which no process leaves
`tsleep` while the interrupt that took its timer is still in `twakeup`.  That is an
assumption about timing, which the code does not enforce: finding 1 is what happens
without it.  `TimeoutArmed` and `TimesOut` depend on it.

## 4. What is proved

Every safety property that the passing runs check, but for `CleanIsOnDisk`, `UnderItsLabel` and
`NoCircle` of `FossilCache`, is a theorem, for every value of the constants that satisfies the assumptions their
module states:

| module | assumptions |
|---|---|
| `QLock`, `RWlock`, `Semaphore` | any processes, finite or not; `nil` is not one; the bound of the value is a natural number |
| `SleepWakeup`, `Tsleep` | any processes, `Rendez`, tags, processors; notes are sent to processes, at least one can be stored |
| `MountRpc` | any processes, structures and bounds; `nil` is none of them |
| `ProcLife` | a finite arena (`conf.nproc` structures, `proc.c:713-720`) with the boot process in it; `Limit`, `NBROKEN` and `MaxPid` positive |
| `ThreadChan` | any threads, channels, sizes, arrays and bounds; `nil` is no thread, channel, entry, call or result; for the refinement alone, every array names a channel once (`NamesOnce`, finding 12) |
| `FossilCache` | any blocks, finitely many or not, any slots (numbers, 0 among them), bounds of operations and epochs; `Nil` is no block and no pointer; the label and the super block are not among the blocks |

**ListLemmas.**  Who is on a list, and that nobody is on it twice, after an append at either
end, after its head or the element at some place is removed, and after everything unwanted
is (`Keep`, of **Lists**).  The last is defined by recursion along the list.  The library's
induction theorems are of no use to the provers here, but induction over a *set* of numbers
is enough: `LeastNat` comes from the well-foundedness of `<`, `NatInd` from that, and with
it that the recursive function exists (`Recursion`) and what it returns (`KeepIsWithin`).

**LockProofs, of QLock.**  `QLockTypes`, `QLockExclusion`, `QLockReadiedOnce`, and
`QLockImplementsFifo` (`Spec => Fifo!Spec`).  None of the properties is inductive alone.
`Exclusion` says nothing of who holds `use`, so a step from `lock2` could find the lock
free with two contenders inside the section; `UseInv` ties `pc` to `use`.  `ReadiedOnce`
needs that the queue has no duplicates and holds exactly the processes that wait
(`QueueInv`), that `next` is set only between unlink and `ready` (`NextInv`), and that a
`Proc.state` of `Queueing` belongs to one of these places (`StateInv`).  `IInv` is their
conjunction.  The refinement then follows step by step: `CHOOSE` in the mapping is
replaced by uniqueness (`OwnerIs`), and a step that leaves every `Owns(p)` and the queue
alone is a stutter (`OwnerKept`).

**LockProofs, of RWlock.**  `RWlockTypes`, `RWlockNoPanic`, `RWlockWriterExcludes`,
`RWlockNobodyStranded`.  That `readers` is not decremented below zero (`RWTypeOK` has it in `Nat`) is
not a fact of one step: it needs `ReadersInv`, that `readers` is the number of processes that read (their
set is finite although that of the processes may not be).  `NoPanic` needs what each
operation leaves for the next: while no writer has the lock, a queue that is not empty has
a writer at its head and a reader inside (`HeadInv`), and `wunlock`'s loop, which
clears `writer` at its end, has by then started a reader (`WakeInv`).
`Blocking` is the part about the queue, `use` and `Proc.state`, as for `QLock`.  `RWInv` is all of it together.

**SleepWakeupProofs, of SleepWakeup.**  `SleepWakeupTypes`, `SleepWakeupNoPanic`,
`SleepWakeupNoLostWakeup`, `SleepWakeupNoLostNote`, `SleepWakeupOneWaiter`,
`SleepWakeupPending`.  The heart is `SleepInv`: `r->p` is set exactly while the sleeper is
between `sleep`'s store and whoever unblocks it, `p->r` exactly while it is blocked.  It
holds between the steps of the three parties because a step that changes either holds a
spin lock the other two need (`RendezLocks`, `ProcLocks` say who holds which), and because
a `Rendez` has one sleeper (`OneSleeper`, from the callers' rule).  From it `wakeup` and
`postnote` find what they check for (`WakeupFinds`, `PostNoteFinds`).  `WakerComing`
strengthens `NoLostWakeup` by the process that has tested its condition and not yet
committed.  `RendInv` adds to `OneWaiterPerTag` that a blocked process is on the chain or
being met by the holder of the group's lock (`GroupLock`).  `PendingIsStored` is inductive
as it stands.

**SleepWakeupProofs, of Tsleep.**  `TsleepTimeoutArmed` holds of the behaviours of `OrderlySpec`'s safety part.  Its
invariant follows one timer from the list (`OnList`) through the three steps of the
interrupt (`Taken`) and says that no two interrupts are about the same process
(`OneIntr`); `Armed` covers the process that is about to sleep and will find its timeout
over.

**SemaphoreProofs.**  `SemaphoreWakeupsArrive`, for any processes, finite or not, and any bound
of the value.  That no wakeup is missed is a counting argument, and `NoMissedWakeup` is far
from inductive: with two permits and one wakeup on its way, the step that consumes the
wakeup leaves a permit beside a sleeper.  The invariant `Cover` says that for every process `p`
that waits there are at least as many wakeups and retries under way, *none of them past `p`
on the list*, as there are permits.  A releaser still to take the lock counts with all it
has to give, one that walks the list only while `p` is ahead of it; an acquirer counts if its
`waiting` was cleared, since it will pass the wakeup on, and if it is about to try.  Since
the processes may be infinitely many the comparison is not a sum but an injection of the
permits into the tokens (`Covers`), with a lemma for each thing a step can do: take a permit
and a token (`CoversTake`), give as many of each (`CoversGive`), hand a token from a releaser
to the acquirer it claims (`CoversMove`).  `Base` holds the types, that the list holds exactly
those in `semacquire`'s loop, once, and who has the lock; `Claimed` is the first half of
`ClearedIsWoken`.

The same module proves the refinement: `SemaphoreImplementsSpec` (`Spec => Abs!Spec`).  Each
call is answered in one step, so the mapping is the identity and the invariant needed
beyond `Base` says where a process is while it has not been answered (`CallInv`): a poll never
gets as far as the list, and a releaser has no call open.

**MountRpcProofs.**  `MountOneReader`: `OneReader` is inductive together with the types of `pc`,
because waking moves only processes that are asleep (`WokenPc`, `GatePc`) and every way out of
the reading places clears `rip` in the same step.  `MountQueue`, `MountTags` and `MountOwnReply`
rest on `MInv`.  None of the three is inductive, because what matters is who may still refer
to what: `CurInv` and `ChainInv` say that the structures in use are disjoint chains, each
starting at one process's `cur` and leading along `flushed`; `QueueInv` that the queue is
exactly the structures in use that are not done; `TagInv` that a tag is held once, a
structure given up holding none; and `NoneUnder` and `MsgInv` what the server and the wire
may have under a tag: nothing if it is free or its reply was read, and otherwise only
messages of the call that holds it.  So a tag may be used again exactly when `mntfree` says
so.  `MountHonorsReply` is about the flushes of one call.  They have different structures, of
which any may be answered first; that the whole chain is one call's, and that the process
which has it has reached its end, is a fact about reachability along `flushed` and needs a
measure: `DepthInv` says that depths exist, 0 for the call itself and one more for each
flush (`Depths`).  From it `Honor` follows a reply that crosses its flush: the server answers in
the order in which it writes (`OrigInv`), so an `Rflush` on the wire either has the reply of
its call ahead of it or that reply has come (`FlushedInv`), or the server never sends one; by
the time a structure of the call is done the answer the call would return is right
(`SettledInv`).

**ProcLifeProofs.**  `LifeRecords`, `LifeCounts` and `LifeWaits`, of all behaviours.  The three share
one invariant, `PInv`.  Its core is that a structure outlives its process and a pid does not:
`PidInv` (a pid is in one structure, from `newproc`'s last step to `pidunhash`), `ParentInv` (the pid in
`parentpid`, if it is not 0, is in no structure but `parent`, so that `pexit`'s test finds the right
process or none) and `RecInv` (a record is in one queue, its owner's or that of whoever a stray took
for its parent, or is gone, and a process that has not reached that test has left none).  A stray may
meet a structure that is free, or that `newproc` has reset and not yet given a pid: `AstrayInv` says
that strays have left and so are counted once, and `NewInv` that `nchild` of a structure being
filled is minus their number.  `CountInv` is `CountsAreRight` for as long as the
structure has its pid, since children of a process that is exiting still count; its `nchild` half is a
difference of cardinalities, so each start, each exit and each stray is a lemma about adding or
removing one element.  `LockInv` is who holds which `qwaitr`, and with it `WaitInv` says that what
`pwait` tested still holds when it sleeps: a reader of the wait file cannot be between.  A sleeper's
record is due (`Due`) from a child that has not reached the test, unless strays spoiled `nchild`.

**ThreadChanProofs.**  `ChanFreedInTime`, of all behaviours, arrays that name a channel more than once
and channels freed under an alt that found them closed included.  `FreedInTime` speaks of memory, but
what keeps it true is the rendezvous.  `GoneInv`, a channel that is gone has no entry and
is not being closed, is preserved only if a thread whose entries stay on a channel is
still there to take them off: by `NamedInv` a thread that waits is on every freed channel it
named, and by `EntryInv` whoever is on one waits.  A wait ends in two ways, so `MeetInv` says
that one thread at most has committed one that waits and is yet to meet it, that it does not
return before, and that a thread which has met was committed.  `CloseInv` is that a channel has one
closer, so that `closed` says when it looks at the slots.  What a step does to the slots are
lemmas: `PutIs` and `PutsIs` (`alt`'s loop over its array, again by `Recursion`) and `WithoutIs`;
what it does to the threads has three cases, whoever ends a call (`EndsKeeps`), commits
somebody (`CommitsKeeps`) or only moves in the rendezvous (`QuietKeeps`).

`ChanImplementsSpec` is the refinement, for arrays that name a channel once (`NamesOnce`; finding 12 is
what happens otherwise).  What `CInv` lacks for it is `RInv`: a receiver waits only at an empty buffer
(`BufferInv`), so that a sender which finds one may hand over its value past the buffer and
keep its order; nothing was received by a call that nobody committed (`GotInv`); an array names
a channel once (`OnceInv`), so that `tag`, which names a channel, says which entry was chosen
(`ChosenIsEntry`); and a close leaves nobody uncommitted behind the place it has got to
(`PassedInv`), as `ChanSpec` closes a channel only when nobody waits at it.  The
mapping gives a call its result when it is *committed*, by a partner or by a close, long before it
returns it: `SameIs` says what a call is a function of, `OthersSame` that a step has no
bearing on most of them, and each kind of step then changes one call (`OneIs`), two that
exchange a value (`TwoIs`) or none (`InternalIs`).

**FossilProofs**, of all behaviours until a crash: whatever was dirty when the snapshots were taken,
shared when a file shrank, and however far the low epoch was raised.  `SpecNotes` is the numbered
invariants of fossil's notes (`NotesHold`), `SpecNoLeak` that no block is lost, `SpecKept` that none is
given out while a tree has it, `SpecSnapshots` that the snapshots keep all that `sourceShrinkDepth` does
not take.  `NotesHold` is about blocks in use and far from inductive, because what an
operation may do to a block depends on the trees of *all* epochs that can be read.  The
invariant, `Invariant`, therefore names their roots, `rt`, and has two parts.
`Book` is about the trees: each is sound (nothing has two parents in one tree), its blocks
are open or closed after its epoch (`Alive`), a block is in every tree from its own epoch to
the last it is in (`Between`), and what a later tree shares it took by copying (`Copied`).
`sourceShrinkDepth` writes to a block that past trees may share, and takes its first data block
out of them (`Pruned`): so `Between` is about pointer blocks and roots only, which no step takes out of
a past tree, and what was saved of a tree is in it still, but for the pointers so zeroed (`StillIn`).
`Core` adds the links: the blocks that left the active tree are claimed by exactly one
removed link, on its way through `Block.uhead` and the unlink queue, which will close
them with an epoch whose tree does not have them; and nothing open is neither in the active
tree nor claimed (`Open`).  A link may wait in a dirty block over any number of snapshots, since it
closes what it claims with the epoch it was dropped in, from which on no tree has it (`Good`).
A family of queues indexed by place (`Ls`) makes the write that hands
a block's links on a move between two of them.
Each action is first described by what it does to the image (`Stepped`: the active tree loses
some blocks and gains others), so that `Book` and `Core` are each kept by a handful of shapes
rather than by ten actions.

**Only model-checked.**  All liveness (fairness and `ENABLED` are beyond the prover): the
fairness halves of `ImplementsFifo` and `PermitIsUsed`, `QueuedEventuallyIn`, `RWQueuedEventuallyIn`,
`SleeperReleased`,
`TimesOut`, `CallsReturn`, `CommittedReturn`.  Of safety, `FossilCache` after a crash, which
leaves of `NotesHold` only the types, and `CleanIsOnDisk`, `UnderItsLabel` and `NoCircle`, which the run
checks across one.

## 5. Findings

Each is a violation that TLC finds; the run or the configuration is in brackets.

1. **A timeout may be lost** (`tsleep_lost`).  `timerintr` releases its list before it calls
   `twakeup`.  A process woken by its event meanwhile returns from `tsleep`, finding no
   timer to delete, and calls it again; the late `twakeup` clears the new `trend`, and the
   new timer then wakes nobody.
2. **A block of the tree on disk may be given out** (`fossil_reuse`).  A link is removed once the block
   that dropped it is on disk, but that block may be a copy the disk does not lead to yet.  After a
   crash `fsOpen` copies the root; a file is removed from the copy, the low epoch raised to the current
   one, the copy written: the file's block is closed and free, and the super block on disk still names
   the old root, which points to it (`cache.c:1299` against the comment at 1377-1380).
3. **The super block may name a root that was never written** (`MCFossilSuper`).  An archival snapshot
   bumps the epoch twice.  The second bump removes the super block's dependency on the first new root
   (`fs.c:476`) and has that root as the value to go back to, where `fs.c:469-471` promises "the address
   of the most recent root that has gone to disk".
4. **A snapshot taken with blocks dirty may be on disk before them** (`MCFossilTree`).  `blockCopy` copies a
   block's pointers and not its list of dependencies (`cache.c:1435`), and neither the snapshot timer nor
   the console's `snap` syncs first.  What `blockWrite` sends is said to be "safe to write out"
   (`cache.c:1112-1114`).
5. **A file that grows and shrinks while dirty** (`MCFossilShrink`) leaves an entry whose roll back is
   a pointer block that was never written: `sourceShrinkDepth` drops the dependency that the roll back
   would need (`source.c:726`).
6. **Truncating a file takes its first block out of the snapshots that share it** (`MCFossilSnap`):
   `sourceShrinkDepth` zeroes the pointer in place, whatever the epoch of the block (`source.c:721`), while
   `fossil(4)` (`man/4/fossil:96-98`) has a snapshot "of the file system at that moment".
7. **A child started with `RFNOWAIT` may leave a wait record** (`MCLifeStray`).  Its `parentpid` is 0, and
   so is the pid of its parent's structure once that process has exited (`proc.c:1115`).  The next
   process in that structure may collect it.  `fork(2)` (`man/2/fork:51-57`) says that it "will leave no
   Waitmsg".
8. **A process may wait without children** (`MCLifeVain`): the child of 7 has also taken one from `nchild`,
   which becomes -1 and passes `pwait`'s test (`proc.c:1130`, 1210).  `wait(2)` (`man/2/wait:60-62`): "wait
   returns immediately".
9. **A reader of a wait file may take a record that `pexit` frees** (`MCLifeFreed`), if the process exits
   between the reader's look at the pid and its lock (`devproc.c:889`, 900); the pid is cleared to
   "Prevent my children from leaving waits" (`proc.c:1152`), the records are freed without a lock.
10. **A reader of a wait file may sleep for ever on a process that is gone** (`MCLifeUntold`), if that exits
    between the reader's unlock and its sleep (`devproc.c:896-897`): `haswaitq` tests the queue only, and
    `pexit` wakes once.
11. **A channel may be freed under a blocked alt** (`MCChanFreed`) that found it closed: it has no entry
    there, and dequeues from it nevertheless (`channel.c:199-208`).  `thread(2)` (`man/2/thread:426-429`):
    "Freeing the channel will be delayed if there is a thread blocked on it until that thread unblocks".
12. **An alt that names a channel twice may report the wrong entry** (`MCChanTwice`): what it was committed
    to is known by the channel only.  `thread(2)` (`man/2/thread:520-521`) nowhere asks that it be named once.
13. **Callers of a dead connection may be left asleep** (`MCMountLeft`), if the one that `mntgate` woke is
    interrupted first: it cannot write its flush, and leaves without `mntgate` (`devmnt.c:775-783`).

Remarks, for which there is no configuration:

* A note may fail to break a rendezvous, which `kproc(9)` (`man/9/kproc:61-67`) says it does:
  `sysrendezvous` never looks at `notepending` (`sysproc.c:829-837`) and `postnote` reads `p->state`
  before its target has written it (`proc.c:951`).  The process blocks with the note pending.
* A call that is given up because of its `Rflush` keeps its tag allocated until its own reply
  comes, which never does (`devmnt.c:1119`): 64K interrupted calls exhaust the tags.
* After a crash the tree on the disk may hold blocks that are labelled closed, as `check.c:246-248`
  knows; `NoLeak` and part of `EpochsNest` are therefore stated for behaviours without one.
* A thread killed while it is blocked in `alt` is freed with its entries still on the
  channels (`libthread/sched.c:42-63`).

## 6. Not modelled, and why

* **Scheduler**: priorities, run queues by level, affinity, load and time accounting are data
  no property here tells apart; `Sched` allows every order.  A process that holds a spin lock is never
  taken off: `sched` puts it off 20 times before it gives in (`proc.c:134-142`), which is there for a
  lock that is never released, and the sections modelled are far shorter than 20 ticks.
* **Notes**: those that kill (`NExit`, `NDebug`) and `procctl`'s stops.  `p->debug`, under which notes
  are posted and delivered, is a `QLock`: posting is one step.  More than one rendezvous group
  adds nothing, since tags do not meet.
* **Life cycle**: the resources that `rfork` shares or copies, `exec`, and the kernel's own
  processes, which leave no record.  The times and the text of a wait message.
* **Mount driver**: mounting, authentication, versions, and the individual 9P calls over the
  `mountrpc` they share; replies with an error differ from others only in their text.
  Smaller flaws met while reading: `freetag` is called in `mountmux` without `mntalloc`'s lock
  (`devmnt.c:969`), and `wakeup(&q->r)` may come after its owner has freed `q` (961); the model
  has the second as the step `MuxWakeup`, in which nobody is asleep any more.
* **Threads**: the scheduler of a proc's threads (every thread is interleaved with all, which
  allows more), creation, exit and kill, `ioproc`s and notes.
* **fossil**: the contents of data blocks and directories, tags, the buffer heap and eviction,
  venti and the archiver's walk, `fl->lk` and the other locks of a healthy cache, a failed
  disk write (`disk.c:375` leaves the block in `BioWriting`), and a console that lowers the
  low epoch.  The assertion in `cacheAllocBlock` that a free block is not dirty (`cache.c:777`)
  can fail; `CanAlloc` stops there.
* **Timers**: the order of a list, periodic timers, `timerset` and the tick counters; that
  `tsemacquire` subtracts the `m->ticks` of two processors (`sysproc.c:1059`).
* **Memory**: the assembly of `tas`, `cas`, `incref`; memory is sequentially consistent.  The
  overflow of a semaphore's value.
* **Alarms, I/O queues, name space, virtual memory, real-time scheduling, user locks, the 9P
  library**: see the plan and `PROJECT.json`.  The rest of the repository (compilers, commands,
  graphics, drivers, network protocols) is sequential, hardware bound or vendored.

## 7. Plan

Done: `Sched`, `QLock` with `FifoLock`, `RWlock`, `SleepWakeup`, `Semaphore` with
`SemaphoreSpec`, `Tsleep`, `ProcLife`, `MountRpc`, `ThreadChan` with `ChanSpec`, `FossilCache`; proofs of
their safety and of the safety parts of the three refinements among them.

Next: proofs of `CleanIsOnDisk`, `UnderItsLabel` and `NoCircle`, which need the types after a crash and an invariant
about the label block's versions; what of `NotesHold` survives a crash.

Components that could follow: `libc`'s locks over an atomic rendezvous, again refining
`FifoLock`; the alarm list and `alarmkproc` racing `procalarm(0)`; a `Queue` of `qio.c` with flow
control, hangup and close.
