# A TLA+ model of Libnvmmio

Libnvmmio is a library that is preloaded into an application. It intercepts
`open`, `read`, `write`, `fsync`, `lseek` and `close`, serves data accesses from
a memory mapping of the file, and logs them so that a crash brings the file back
to its last `fsync`. This directory holds TLA+ modules translated from its
source, the TLC runs that check them on small instances, and TLAPS proofs of
the main results for every value of the constants.

## The system

| Part | Source (under `src/src`) | State | Operations |
|---|---|---|---|
| BRAVO lock | `bravo.c` | `rbias`, `inhibit_until` and the underlying `pthread_rwlock_t` of each lock; the process-wide table `visible_readers` | read lock, trylock, unlock; write lock, trylock, unlock; `revocate`; init, destroy |
| Log ranges | `mmio.c` (`check_log`, the loop of `mmio_write`, `read_redolog`, `checkpoint_entry`) | one `idx_entry_t` per block: epoch, offset, len, policy, log, dst | merge a write into a log, read through a log, reuse or apply a log |
| mmio | `mmio.c` | mapping, file size, epoch, policy, access counters, `rwlock`, the list of entries a call has locked | `mmio_read`, `mmio_write`, `expend_mmio`, `commit_mmio`, `determine_policy` |
| Checkpoint thread | `mmio.c` (`checkpoint_mmio`) | the epoch it woke up in, its position in the table | scan, lock, apply, free |
| Radix log index | `radixlog.c` | tree of tables, skip node, `prev_table` cache, `log_size` of a table, entries | `get_log_table`, `find_log_table`, `get_log_size`, `get_log_entry` |
| Allocator | `allocator.c` | global lists with skip lists, per-thread providers and collectors | fill a provider, hand a collector's batch back, allocate, free |
| File table | `file.c`, `file_hash.c` | `fd_table`, the inode hash, reference counts, file positions | open, close, lseek, read, write, fsync |
| Persistence order | `mmio.h` (`NTSTORE`, `FLUSH`, `FENCE`) | what has reached persistent memory | store, flush, fence, crash |

How they interact. A call of `read`, `write` or `fsync` takes the mutex of its
file descriptor and calls the mmio of the file; descriptors of one file share
the mmio, so calls on two descriptors run concurrently. `mmio_read` and
`mmio_write` hold `mmio->rwlock` (a BRAVO lock) as readers and then the rwlock
of the entry of every block they touch; `commit_mmio` and the expansion of the
mapping hold `mmio->rwlock` as writers. One checkpoint thread per mmio wakes up
every 100 microseconds, holds `mmio->rwlock` as a reader and frees the entries
of past epochs, after it has copied redo logs to the file.

What makes each part correct, and what is hard about it:

* BRAVO lock: readers and writers exclude each other and every unlock undoes its
  lock, although readers on the fast path leave a trace only in a hashed slot
  that others may share, and revocation depends on the order of a store and a
  scan.
* Log ranges: no sequence of partial overwrites leaves a gap in a log or loses
  committed data, at every alignment.
* mmio and checkpoint thread: concurrent calls are atomic; a crash between any
  two steps leaves the last `fsync`; entries are locked while they are used and
  released afterwards, while others allocate, publish, checkpoint and free them;
  the file size covers all writes; everybody gets on.
* Index: an offset leads every thread, the checkpoint thread included, to the
  same slot, although tables, their log sizes and the one-entry cache are set by
  whoever comes first.
* Allocator: no object is lost or handed out twice while batches move between
  threads that free each other's objects.
* File table: an mmio lives exactly as long as somebody has the file open, and no
  close cuts off what another descriptor has written.
* Persistence order: with only the fences of the code, whatever a crash keeps of
  the unfenced stores recovers to the last `fsync` (it does outside two windows
  of a write, see `PmemLog`).

## Modules

| Module | What it is |
|---|---|
| `RWLock` | abstract: a family of reader-writer locks |
| `Bravo`, `MCBravo` | `bravo.c`, one action per atomic step |
| `BravoProofs` | TLAPS proofs about `Bravo` |
| `LogRange` | the range arithmetic as operators, shared by `LogEntry`, `Mmio` and `PmemLog` |
| `AtomicBlock` | abstract: a block whose crash content changes with its count of fsyncs, and then to what reads see |
| `LogEntry`, `MCLogEntry` | the log of one block, one action per critical section |
| `LogRangeProofs`, `LogEntryProofs` | TLAPS proofs about `LogRange` and `LogEntry` |
| `AtomicFile` | abstract: a file whose reads and writes are atomic |
| `Mmio`, `MCMmio` | one file under concurrent calls and its checkpoint thread |
| `MmioProofs` | TLAPS proofs about `Mmio` |
| `RadixLog`, `MCRadixLog` | the index of a file: lookups, table allocation, sizes, the cache |
| `RadixLogProofs` | TLAPS proofs about `RadixLog` |
| `FreeList`, `MCFreeList` | one object pool of the allocator |
| `FreeListProofs` | TLAPS proofs about `FreeList` |
| `FileTable`, `MCFileTable` | descriptors, inode hash, life of an mmio, file sizes |
| `FileTableProofs` | TLAPS proofs about `FileTable` |
| `PmemLog`, `MCPmemLog` | the log of one block with unfenced stores and crashes; uses `LogRange` |
| `PmemLogProofs` | TLAPS proofs about `PmemLog` |

### Bravo

A thread is at a program counter of `bravo_read_lock` (`r_...`), of
`bravo_read_unlock` (`u_...`) or of `bravo_write_lock` (`w_...`). The underlying
lock is a writer and a count of readers, as in glibc, because
`bravo_read_unlock` may unlock it without holding it; the count is then off, and
`MaxReaders` bounds how far calls may drive it. `Hash` is the table of
`bravo_hash`, so a collision is a value of a constant. `StoreBuffering` says
whether `rbias = false` may wait in the store buffer. Whether the inhibition
period is over is a choice. `Reinit` is `bravo_rwlock_destroy` followed by the
init of `release_mmio`.

### LogRange and LogEntry

A cell stands for a byte and a block has `LogSize` of them. `check_log`,
`MergedRange` and `MergedLog` are the `switch` of `mmio_write`, `RedoCell` that
of `read_redolog`, with the index arithmetic of the code. `LogEntry` runs
them for one block: writes with `checkpoint_entry`, reads that leave an empty
entry, commits that increment the epoch, checkpoints that apply and free.
`EpochMod` stands for the 2^20 of the bit-field. The repository has no recovery
program; `Recovered` states what its logs are for: committed redo logs are
applied, uncommitted undo logs rolled back.

The refinement to `AtomicBlock` (`FailureAtomic`) maps what a crash leaves to
`Recovered`, the count of fsyncs to `mmio->epoch` and the cells written since the
last fsync to `dirty`. So only the step that increments the epoch may change what
a crash leaves: a write, a read or a checkpoint that did, for instance by
applying a log of the running epoch, is no step of `AtomicBlock`, and neither is a
commit that leaves the crash content behind.

### Mmio

Threads stand for file descriptors of one file. A call goes through `Enter`
(with `ExpendUnlock`, `Expend`, `ExpendRelock` if the mapping is too short),
`GetEntry`, `Publish`, `Reload`, `LockEntry` or `LockBusy` for every block, then
`CheckpointEntry`, `LogOne` per entry, `Count`, `StoreCell` per cell, `TestSize`,
`SetSize` for a write, or `CheckSize`, `CopyCell` per cell, `Count` for a read,
and `UnlockEntry`, `Advance`, `Leave`. `Commit` is `commit_mmio`. The checkpoint
thread goes through `CkptWake`, `CkptTry`, `CkptScan`, `CkptLock`, `CkptApply`
and `CkptFree`. What the code does under the writer side of `mmio->rwlock`
is one step, since everybody else who touches the same state holds the reader
side; `mmio->rwlock` itself is the abstract lock, which `Bravo` implements
under the conditions proved there.

The policy is fixed at the start of a behaviour (the code never changes it, see
below) and `Requests` says for each policy which calls clients make.

`EagerReuse` chooses how soon a freed entry comes back from the allocator. FALSE
idealises the pool to "not while anybody holds a stale pointer to it"; TRUE
leaves that out. In the code a freed entry goes to the collector of the
checkpoint thread, whose batches of 1024 wait behind each other, so an early
return is rare; but `FreeList` shows that nothing forbids it: the free that
opens a collector's third batch sends the second one, with the entry freed just
before on top, to the global list. Calls start at an offset within the file
size, as `lseek` guarantees (`PosInFile` of `FileTable`). `got`, `calls`, `dirty`,
`twice` and `wend` record history.

In the refinement to `AtomicFile` a write takes effect with the first cell it
stores (undo) or the first entry it logs (redo) and a read with the last cell it
copies; the locks have to make this right.

### RadixLog

A lookup is a part of a call, `[off, len]`, and goes through `CheckPrev` (with
`Reuse` when the cached index matches), `Walk` and `AllocTable` level by level,
`SetPrevTable`, `SetPrevIndex`, `TestSize` and `CasSize`, one action per access to
shared memory. The tree has the code's four types with a fan-out that follows
from `NrLogSizes` as 512 follows from 10. `placed` records what lookups have
returned: an entry and its lock sit in a slot, so two calls exclude each
other exactly if their slots agree (`OneLog`). `CkptVisit` is one round of
`checkpoint_mmio`; a table without a log size sends it out of bounds (`OVERRUN`).

### FreeList

Lists are sequences with the first node first, skip lists the sequences of nodes
that end a batch. `Alloc` is `POP_PROVIDER` with `fill_local_provider`, `Free` is
`PUSH_COLLECTOR` with `put_local_collector`, in its three cases, `Exhaust` the
error exit, `Exit` the end of a thread, which strands its lists. Objects are
freed by any thread.

### FileTable

`Open` (with `fstat`), `Lookup`, `Map`, `Put` and `Install` are `libnvmmio_open`;
`Close` (with `delete_mmio_hash`), `FreeFile`, `Clear` and `KClose` are `close`;
`Read`, `Write` and `Seek` are one step each and keep sizes only. `kernel` is the kernel's descriptor
table, which hands out the least free number, so a number comes back at once.
Error exits (`OpenFails`, `MapFails`, `WriteFails`, `Seek` beyond the end) set
`exited`. `size` records how long its writes have made a file.
`SerialOpens` and `FreshStat` name two conditions that the code leaves to the
application.

### PmemLog

`mem` is what the processor sees, `pm` what a crash leaves, one location per cell
of file and log, one for the word of bit-fields, one for `mmio->epoch`. `Persist`
writes any store back at any time; `Fence` completes those that `NTSTORE` or
`FLUSH` has issued. A crash is not a step: the properties look at what `pm` would
recover to in every state. `Recovered` is the one of `LogEntry`. The log ranges
are those of `LogRange`.

`Free` is `free_idx_entry`: it clears the header in `mem` and neither flushes nor
fences it, so that an old header may be in `pm` for long; `stale` records that this
is so. Two windows of a write are not failure-atomic, and
`FailureAtomicButLogging` excepts exactly these: `LogUnordered`, an undo log whose
header and data are issued but not fenced, and `OldHeader`, the first redo log
after a checkpoint, which is written over the log that the old, committed header
in `pm` still describes. `DurableFsync` has no exception: between calls every
crash image recovers to the last `fsync`.

## Runs

Passing:

| Run | Instance | Shows |
|---|---|---|
| `bravo_private` | 3 threads, 1 lock, slots of their own | `Exclusion`, `NothingLeaks`, refinement of `RWLock` |
| `bravo_live` | 2 threads, store buffer, fairness | scans end (`RevocationEnds`), readers return (`ReadReturns`) |
| `log_redo` | 5 cells, every interval, 2 commits | `LogFilled`, `FailureAtomic` (what a crash leaves changes with the epoch only), `ReadExactButTail` |
| `mmio_calls` | 2 threads, 2 blocks of 2 cells, 4 calls; undo logging with two-block writes, redo logging within a block | `LockedEntries`, `NoLockLeft`, `NoNullEntry`, `OnePlace`, `Linearizable`, `FailureAtomic` |
| `mmio_grow` | 2 threads extend a file of one block, 3 calls, the mapping may move, fairness | `MappedWrites`, `SizeCoversWrites`, `CallsReturn`, `LogsReclaimed` |
| `radix` | 2 threads and the checkpoint thread, 2 log sizes, fan-out 2, 4 lookups, overlapping calls in one table, fairness | `OneLog`, `Findable`, `SizeFits`, `TablesStable`, `LookupsReturn` |
| `freelist` | 2 threads, 3 batches of 2 objects, collectors of 2 batches | `OnePlace`, `WholeBatches`, `EndsOnlyWhenShort` |
| `filetable` | 2 threads, 2 files, 3 descriptors, 2 mmios, read-only and read-write opens | `UseLive`, `RefCounts`, `FdConsistent`, `PosInFile`, `NothingCutOff` |
| `pmem` | one block of 3 cells, both policies, every write, 2 commits, any unfenced store lost or kept | `FailureAtomicButLogging`, `DurableFsync` |

Every run also checks its module's type invariant where it is not another run's
(`bravo_live`, `mmio_grow`).

`FailureAtomic` of `Mmio` speaks of behaviours in which undo logging has not
written a cell twice between two `fsync`s (the history variable `twice`);
`log_undo_rewrite` shows why.

Some of these results are worth a remark. `SizeCoversWrites`: the test and the
store of `mmio->fsize` are not atomic, yet no update is lost, because a write
starts within the file and so every write that extends it locks the entry of
the block at its end. `NoNullEntry`: after a lost compare-and-swap
`get_log_entry` returns the slot unchecked; it is never empty, because the
winner's entry has the running epoch and no commit can come in between.
`RefCounts`: neither `release_mmio` nor `init_mmio` resets `ref`, and an mmio is
reused; the count is right all the same because the release happens at 0.
`EndsOnlyWhenShort`: a pool ends the process with at most two batches stranded in
each collector and less than one in each provider, ended threads included; each
closed file leaves its checkpoint thread's lists behind, so what is stranded
grows with the number of threads that ever ran.

Violations, each a disagreement between the code and what its documentation or
comments say:

| Run | Property | Cause |
|---|---|---|
| `bravo_cross` | `Exclusion` | `bravo.c:131` clears a slot that names another lock |
| `log_undo_rewrite` | `FailureAtomic` | `mmio.c:317` logs uncommitted data over committed data |
| `mmio_lists` | `NoLockLeft` | `mmio.c:40` list nodes shared by readers |

### Conditions the passing results depend on

The instances above keep to conditions the code does not enforce, and check
properties with the exceptions it needs. Changing a constant or a property of a
configuration shows each of them. Hazards that only such a change meets have no
property in `PROJECT.json`, and their notes name the change:

| Change | What no longer holds | Where |
|---|---|---|
| `bravo_private` with `Hash <- OneSlot` | `NothingLeaks`: a slow-path reader clears another thread's slot and leaves the underlying lock read-locked (`ImplementsRWLock` still holds with one lock) | `bravo.c:131` |
| `bravo_private` with `StoreBuffering = TRUE` | `Exclusion`: nothing orders `rbias = false` before the scan | `bravo.c:146` |
| `log_redo` with `EpochMod = 2` | `FailureAtomic`: an entry's epoch field is compared with the full counter | `radixlog.h:33` |
| `log_redo` with `ReadExact` | that itself: in case 3 `offset` is already past the log when `log_end - req_start` is added again, against the diagram at `mmio.c:121` | `mmio.c:485` |
| `mmio_calls` with `EagerReuse = TRUE` | `OnePlace` and `LockedEntries`: an entry is freed and handed out again between lookup and try-lock | `mmio.c:34` |
| `mmio_calls` with `EpochMod = 1` | `NoNullEntry`: the checkpoint thread frees an entry of the running epoch, and the loser of a race to publish finds NULL | `radixlog.c:307` |
| `mmio_calls` with `Requests <- Straddling` | `Linearizable`: the entries come off their list in reverse order | `mmio.c:301` |
| `mmio_calls` with `Requests <- Unaligned` | `FailureAtomic`: `n` is cut to the first block's share and not restored | `mmio.c:310` |
| `mmio_grow` with `Requests <- GrowingLater` and `FailureAtomic` | that itself: redo logs keep addresses in a mapping that moves | `mmio.c:109` |
| `mmio_calls` with `PolicyFollowsRatio` | that itself: `determine_policy` computes a policy and drops it, while `src/src/README.md:19` says it is set at each `fsync` | `mmio.c:616` |
| `radix` with `SameRegion = FALSE` | `OneLog` and `Findable`: a lookup takes one thread's `prev_table_index` and another's `prev_table` | `radixlog.c:262` |
| `radix` with `Requests <- GrownLookups` | `OneLog`: offsets beyond the length at open alias, as `skip` stays | `radixlog.c:92` |
| `radix` with `ScanInTable` | that itself: the checkpoint thread meets a table without a log size | `mmio.c:192` |
| `filetable` with `SerialOpens = FALSE` | `RefCounts`, and with it `UseLive`: the loser of two opens uses an mmio it does not count | `file_hash.c:76` |
| `filetable` with `FreshStat = FALSE` | `NothingCutOff`: an open maps the file with the size it had before another's last close | `file.c:46` |
| `filetable` with `SizeExact` | that itself: a last close through a read-only descriptor does not cut the preallocated tail (it holds with `Modes = {"rw"}`) | `allocator.c:449` |
| `filetable` with `MappedForWriting` | that itself: the mapping keeps the protection of the first open | `allocator.c:415` |
| `pmem` with `FailureAtomic`, `Policies = {"UNDO"}` | that itself: nothing orders an undo log before its header (`LogUnordered`) | `mmio.c:382` |
| `pmem` with `FailureAtomic`, `Policies = {"REDO"}` | that itself: a crash finds the header that `free_idx_entry` cleared over a log in use again (`OldHeader`) | `allocator.c:507` |

The documentation also says that when the log size reaches its threshold
"Libnvmmio forces committing and checkpointing the logged data"
(`src/README.md:46`); in the code an empty pool ends the process
(`allocator.c:99`, `Exhaust`).

### Bounds

Two threads suffice for every race here between two calls, and the checkpoint
thread is a third; `Bravo` has three so that a slot can be shared while a writer
scans. A block of two cells has a proper part and its whole; the arithmetic of
ranges, which needs more, has five in `LogEntry`, so that a log, a gap and
a request fit with a cell to spare on either side. Two blocks give one
boundary. Four calls are a write, an fsync, and two more that meet the committed
log. `EpochMod` is larger than any epoch reached. Requests
are chosen per run (`MCMmio`): in `mmio_calls` two-block undo writes meet calls
on the first block only, because other overlaps are the subject of `mmio_lists`.
Threads are symmetric in the safety runs of `Mmio`.

`RadixLog`: two log sizes give a fan-out of 2, so that a table can be indexed in
two ways; the mapping at open makes `skip` an LUD, so that a lookup allocates on
two levels and the cache is at work. With four lookups two threads can meet a
missing table, a missing size and a filled cache. `FreeList`: batches of two have
a first and a last node; three batches fill a collector of two and force a
hand-over. `FileTable`: three
descriptors let one file have two users while the other is opened and an mmio
changes hands; sizes up to two cells suffice for a preallocated tail, an
expansion and a write in between. `PmemLog`: three cells give each of the six
cases of `check_log`, and two commits a committed log that is met by a
write, by the checkpoint thread or by a crash.

### Fairness

`Bravo`: every thread inside a call keeps running, and critical sections end
(they are bounded loops); a blocked reader is served eventually since glibc's
default rwlock prefers readers. `Mmio`: every thread inside a call and the
checkpoint thread keep running, and a thread that waits for the writer side of
`mmio->rwlock` gets it if it is free again and again: a revocation makes
readers queue at the underlying lock, and the checkpoint thread sleeps between
scans. The number of calls is bounded, so an endless stream of readers that
never leaves the lock free is outside the model. `RadixLog`: a thread inside a
lookup keeps running; nothing is assumed of calls or of the checkpoint thread.

## Proofs

Every theorem is about `Spec` with all its constants free; what it assumes of them
beyond the module's `ASSUME`s stands in its hypotheses. A safety theorem is proved
from an inductive invariant that TLC has checked on the module's run.

`BravoProofs`: any set of threads and locks, any table size.

* `TypeCorrect`: types, for any hash and memory model.
* `NoLeaks`: if `Hash` is injective (`CollisionFree`), nothing leaks, under either
  memory model. The invariant `Accounting` says which slot each program counter
  owns and that the reader count of the underlying lock is the number of threads
  at the program counters that hold it.
* `MutualExclusion`: with `CollisionFree` and without store buffering a writer is
  alone. `Accounting` alone does not give this: `RevokedInv` adds that while a
  writer scans or writes the bias is off, and that behind its scan position only
  readers that will fail the second test of the bias have slots.
* `Refinement`: under the same two conditions `Bravo` implements `RWLock`, step by
  step; the abstract reader and writer steps are those that end an acquisition.

`LogRangeProofs`: `RangeIsHull`, the six cases of `check_log` compute the hull of the
two intervals, and the lemmas about single cases that the other proofs use.

`LogEntryProofs`: blocks of any size and any set of writes, as long as the epoch
fits its field (`NoWrap`).

* `TypeCorrect`, `LogsFilled`: from the invariant `LogInv` (entries are bounded,
  filled where in use, no younger than the epoch, and carry the policy).
* `RedoFailureAtomic`, `UndoFailureAtomic`: `LogEntry` implements `AtomicBlock`, so
  what a crash leaves changes in the step that increments the epoch and in no other.
  A checkpoint maps to a stutter because it applies committed logs only.
  For undo logging `UndoInv` adds that the log of the running epoch covers
  exactly what is needed to undo: cells outside `dirty` agree with the file.
* `RedoReads`: `read_redolog` is right in all cases but the tail of case 3.

`PmemLogProofs`: blocks of any size, both policies, any set of writes. The theorems
have no hypotheses: the stores of `free_idx_entry` may reach memory at any time.

* `CrashLeavesFsync`, `FsyncIsDurable`, `TypeCorrect`. What a crash leaves is one of
  many images, so the invariant speaks of all of them (`Images`): outside the two
  windows (`Excused`), every mixture of persistent memory with the stores still
  under way recovers to the last `fsync`. `Waiting` and `Settled` say at each point of
  a call which stores can be under way at all, which is what the fences of the code
  are for; `Progress` and `LogInv` what the call has found out and how far the log is
  filled. A header that `Free` cleared is the one store under way for which no fence
  answers: as long as `stale` holds, the header in `pm` is of a past epoch, and if
  it is a redo header, its log agrees with the file until the first write after the
  checkpoint stores to it.

`FreeListProofs`: any batch size, number of batches, of threads and of objects.

* `BatchesWhole`: the skip lists are tied to the counters by `Padded` (every
  `Unit`-th node of a list is in its skip list, in order).
* `ObjectsInOnePlace`: the lists and what is in use partition the objects, and no
  list has one twice.
* `EndsWhenShort`, `TypeCorrect`: from both.

`FileTableProofs`: any number of threads, files, descriptors and mmios. The invariant
has three layers.

* `TypeCorrect`, `DescriptorsAgree` need nothing: `FdInv` says who owns a
  descriptor and an unpublished mmio.
* `ReferencesCount`, `FilesLive`, `PositionsInFile` need `SerialOpens`: `UseInv` says
  that the hash has one mmio for an inode, that a thread which looked up in vain is
  the only one that can add it, and that `ref` is the number of its users.
* `NeverCutOff` needs `FreshStat` too: `SizeInv` relates what an open has read with
  `fstat` to the size of the file on disk and in the mmio.

`RadixLogProofs`: any number of threads and tables, any fan-out and page size. The
provers know nothing about powers, so `PowersOfFan` and `PowersOfTwo` in `RadixLog`
state the arithmetic used; TLC evaluates them.

* `TypeCorrect`, `TreeOnlyGrows` need nothing. `RadixInv` says that a table leads to
  tables of the next type only and where a thread may be; `Grows` that no step takes
  anything back.
* `SizesFit`: `set_log_size` for every access. The loop of halvings is a recursive
  function; that it has a value for every length and is the number of bits is proved
  by least counterexample (`Least`, `HalvingsIs`, `HalvingsBits`).
* `SlotsFindable` needs `SameRegion`: `WayInv` says that a thread that walks is on
  the way of `find_log_table`, and that the two halves of the cache belong together
  except between their two stores, when all threads in a lookup want that table.
* `OneSlotPerBlock` needs moreover that offsets are within what `root->skip` tells
  apart (`InReach`, see `GrownLookups` above). `OneParent` (a table is linked in one
  place) makes the way to a table determine its region digit by digit; the rest is
  division: blocks of different sizes fit regions of one size.

`MmioProofs`: any number of threads, blocks and entries, any calls, both policies,
with or without a mapping that moves. The invariants build on each other; `Types`
says what every program counter implies about a thread's variables and who is in
`mmio->rwlock`.

* `WritesMapped` needs nothing: `MapInv` says that a write that is past `expend_mmio`
  lies in the mapping, which never shrinks. That enough doublings reach any length
  is `PowersOfTwo` of `Mmio`, which TLC evaluates.
* `EntriesInOnePlace` needs that a freed entry is not reused under a stale pointer
  (`~EagerReuse`, see the conditions above). `Reclaiming` adds to `OnePlace` that
  the entry the checkpoint thread works on stays in its slot.
* `TypeCorrect`, `EntriesLocked`, `LocksGivenBack` need moreover that calls stay
  within one log block (`OneBlock`). For longer calls they fail: `mmio_lists` shows
  that two readers of a block share the list node in it. `BlockInv` has three parts:
  `LocalInv` (a list has one entry, and how far the call has come), `SharedInv` (what
  a thread holds is what the table has for its block, and an entry it looked up
  either still is or can no longer be locked, because the checkpoint thread freed it
  with the lock held), and `LockInv` (the reader count and the writer of an entry's
  lock are exactly the threads at the program counters that hold it).
* `SizeCovers` under the same conditions: `mmio->fsize` is tested and set in two
  steps. `SizeInv` and `OneSetsSize` show that two threads cannot both be about to
  set it: in one block the entry's lock is in between, and of two blocks the later
  one starts within the file only when the earlier one does not grow it.
* `EntryFound` needs besides that the epoch fits the 20 bits of an entry (`NoWrap`;
  past that, entries of the running epoch look old). `EpochInv` says that a slot that
  a thread found empty can be filled only with entries of the running epoch, and that
  the checkpoint thread frees only older ones, since nobody can renew the entry it
  holds.

Only model-checked: liveness (under fairness, out of the prover's reach), and of
`Mmio` the refinement of `AtomicFile` (`Linearizable`) and `FailureAtomic`, which the
run `mmio_calls` checks, as it checks two-block writes. Undo logging of one block is not a run of its
own: `LogsFilled` and `UndoFailureAtomic` prove it for every size of block, and
`pmem` runs it.

## Not modelled

* Close against a running checkpoint thread. `release_mmio` cancels the thread and
  does not wait for it (`allocator.c:436`); its only cancellation point is
  `usleep`, so it may go through a whole scan of an mmio that is unmapped or
  another file's by then. `delete_mmio_hash` checkpoints before it releases, but
  only past epochs: redo logs without an `fsync` are dropped, and entries of the
  running epoch and all tables stay allocated.
* `checkpoint_mmio` subtracts `mmio->start` from `mmio->end` without a lock
  (`mmio.c:183`) and may catch `expend_mmio` between the two. `find_log_table` masks
  every offset, so a wrong difference changes the number of rounds only; `Mmio`
  scans its one table and `RadixLog` goes round for ever.
* `FileTable` keeps sizes and no data, seeks to no negative position (`lseek` takes
  one), and has no `O_TRUNC`.
* The compiler's choices: bit-fields of one word are one store in `PmemLog`.
  With `-O3` `mmio->fsize` is loaded once in `mmio_read` (`mmio.c:559`), and
  `CheckSize` does so; a build that loads it twice could return more than was
  asked for.
* `Mmio` has one log size and one table; that the index gives every block one slot
  is `RadixLog`.
* Log files: they are created, mapped and unlinked in `allocator.c:139-234`. The
  destructor `remove_logs` runs at every exit, that of `HANDLE_ERROR` included,
  and leaves nothing to recover from. `get_fnode` allocates the size of a pointer
  and not of an `fnode_t` (`allocator.c:73`), which only the smallest block of the
  C library's allocator makes good.
* Forwarding to libc: `dlsym`, `pread`, `pwrite`, `stat`, `truncate`, the
  constructor. Exhausted memory and failing system calls other than those of
  `FreeList` and `FileTable` end the process.

## Plan

`Mmio`: `FailureAtomic` and `Linearizable` for calls within one block, on the lock
discipline that `BlockInv` states: the log of an entry, its `dst` and the file change
only under the entry's lock, so that what `LogEntryProofs` shows for one block
carries over to each block of the table.
