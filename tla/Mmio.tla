-------------------------------- MODULE Mmio --------------------------------
(***************************************************************************)
(* One open file of src/src/mmio.c under concurrent mmio_write, mmio_read  *)
(* and commit_mmio calls and its checkpoint thread, with the table of      *)
(* index entries of radixlog.c and the entry allocation of allocator.c.    *)
(*                                                                         *)
(* mmio->rwlock is taken as the reader-writer lock RWLock specifies (see   *)
(* Bravo.tla for when bravo.c is one).  What runs under its writer side    *)
(* excludes every other access to what it touches and is one step.  An     *)
(* entry's pthread_rwlock_t is kept as glibc keeps it, a writer and a      *)
(* count of readers, because the code may unlock what it does not hold.    *)
(* All logs have the size LogSize, the file has one log table, and memory  *)
(* is strongly ordered.                                                    *)
(***************************************************************************)
EXTENDS LogRange, FiniteSets

CONSTANTS
    Threads,     \* client threads
    Ckpt,        \* the checkpoint thread
    NoThread,    \* nobody, as the holder of a lock
    NULL,
    Entries,     \* the index entries of the allocator, numbers
    MaxBlocks,   \* blocks the table has room for
    InitSize,    \* the size of the file at open, in cells
    DefaultMmap, \* DEFAULT_MMAP_SIZE, in cells
    BasicMmap,   \* BASIC_MMAP_SIZE, in cells
    Requests,    \* DEFAULT_POLICY -> the calls made: [kind, off, len, val]
    EpochMod,    \* 2^20, the range of idx_entry_t.epoch
    MaxCalls,    \* bound on the calls of a behaviour
    EagerReuse,  \* TRUE: an entry may be reallocated as soon as it is freed;
                 \* FALSE: only when nobody holds a stale pointer to it
    MayMove      \* TRUE: mremap may move the mapping

Blocks == 0 .. MaxBlocks - 1
Positions == 0 .. MaxBlocks * LogSize - 1
Agents == Threads \cup {Ckpt}
Policies == DOMAIN Requests
AllRequests == UNION {Requests[p] : p \in Policies}

ASSUME MmioAssumption ==
    /\ IsFiniteSet(Threads) /\ Ckpt \notin Threads /\ NoThread \notin Agents
    /\ IsFiniteSet(Entries) /\ Entries \subseteq Nat /\ NULL \notin Entries
    /\ MaxBlocks \in Nat \ {0} /\ BasicMmap > 0
    /\ {InitSize, DefaultMmap, BasicMmap} \subseteq 0 .. MaxBlocks * LogSize
    /\ \A p \in Policies : \A r \in Requests[p] :
          /\ r.kind \in {"read", "write", "fsync"}
          /\ r.off \in Nat /\ r.len \in Nat
          /\ r.kind # "fsync" => r.len > 0 /\ r.off + r.len - 1 \in Positions
    /\ Policies \subseteq {"UNDO", "REDO"}
    /\ EpochMod \in Nat \ {0} /\ MaxCalls \in Nat
    /\ {EagerReuse, MayMove} \subseteq BOOLEAN

\* Enough doublings reach any end of a request.
ASSUME PowersOfTwo == \A k \in 0 .. MaxBlocks * LogSize : 2^k \in Nat /\ 2^k > k

VARIABLES
    file,     \* the file's cells
    mapped,   \* mmio->end - mmio->start, in cells
    start,    \* mmio->start: how often the mapping has moved
    fsize,    \* mmio->fsize
    epoch,    \* mmio->epoch
    policy,   \* mmio->policy
    cnt,      \* mmio->read and mmio->write
    entries,  \* block -> table->entries[index], an entry or NULL
    ent,      \* entry -> its epoch, offset, len, policy, dst and log
    next,     \* entry -> entry->list.next
    elock,    \* entry -> [rd, wr], its rwlock: reader count and writer
    pool,     \* the free entries
    readers,  \* who holds mmio->rwlock as a reader
    pc,       \* agent -> where it is
    loc,      \* thread -> its local variables
    ck,       \* local variables of the checkpoint thread
    calls,    \* bound: calls made
    dirty,    \* history: cells written since the last commit
    twice,    \* history: a cell was written twice since the last commit
    wend      \* history: the furthest end of a write that returned

mapping == <<mapped, start>>
tables == <<entries, ent, next, elock, pool>>
counts == <<epoch, policy, cnt>>
history == <<calls, dirty, twice, wend>>
vars == <<file, mapping, fsize, counts, tables, readers, pc, loc, ck, history>>

FreeEntry == [epoch |-> 0, offset |-> 0, len |-> 0, policy |-> "UNDO",
              dst |-> NULL, log |-> [i \in Cells |-> Junk]]
Unlocked == [rd |-> 0, wr |-> NoThread]
NoLocals == [req |-> NULL,
             head |-> NULL,  \* the list of the entries locked
             cand |-> NULL,  \* the entry get_log_entry found or allocated
             cur |-> NULL,   \* the entry a loop over the list is at
             off |-> 0, n |-> 0, ret |-> 0,
             got |-> <<>>]   \* what a read has copied, position -> value
Asleep == [epoch |-> 0, i |-> 0, entry |-> NULL]

\* get_new_mmio, and the pool as init_allocator leaves it.
Init ==
    /\ file = [p \in Positions |-> 0]
    /\ mapped = (IF InitSize = 0 THEN DefaultMmap ELSE InitSize)
    /\ start = 0
    /\ fsize = InitSize
    /\ epoch = 0
    /\ policy \in Policies
    /\ cnt = [read |-> 0, write |-> 0]
    /\ entries = [b \in Blocks |-> NULL]
    /\ ent = [e \in Entries |-> FreeEntry]
    /\ next = [e \in Entries |-> NULL]
    /\ elock = [e \in Entries |-> Unlocked]
    /\ pool = Entries
    /\ readers = {}
    /\ pc = [a \in Agents |-> "idle"]
    /\ loc = [t \in Threads |-> NoLocals]
    /\ ck = Asleep
    /\ calls = 0 /\ dirty = {} /\ twice = FALSE /\ wend = 0

-----------------------------------------------------------------------------
(* Helpers.                                                                 *)

Block(p) == p \div LogSize
Base(b) == b * LogSize
End(r) == r.off + r.len
Written(r) == r.off .. End(r) - 1
Span(r) == {Block(p) : p \in Written(r)}
Smaller(m, n) == IF m < n THEN m ELSE n
Larger(m, n) == IF m < n THEN n ELSE m
IsWrite(t) == loc[t].req.kind = "write"

Goto(a, to) == pc' = [pc EXCEPT ![a] = to]

\* The cells of block b, as the file has them.
FileBlock(b) == [i \in Cells |-> At(file, Base(b) + i)]

EpochForgotten == 0
Epoch20 == epoch % EpochMod
Committed(e) == ent[e].epoch < epoch

\* The cells of the file that the log of entry e is about.
Logged(e, p) ==
    /\ ent[e].dst # NULL
    /\ LET i == p - Base(ent[e].dst.block)
       IN  ent[e].offset <= i /\ i < ent[e].offset + ent[e].len
LoggedCell(e, p) == ent[e].log[p - Base(ent[e].dst.block)]

\* NTSTORE of a redo log to its place in the file.  If the mapping has moved
\* since dst was computed, the store does not reach the file.
Applied(e) ==
    IF ent[e].policy = "REDO" /\ ent[e].dst # NULL /\ ent[e].dst.start = start
    THEN [p \in Positions |-> IF Logged(e, p) THEN LoggedCell(e, p) ELSE file[p]]
    ELSE file

\* pthread_rwlock_try{rd,wr}lock and pthread_rwlock_unlock on an entry.
CanRead(e) == elock[e].wr = NoThread
WriteAmongReaders(e) == elock[e].wr = NoThread
CanWrite(e) == elock[e] = Unlocked
ReadLocked(e) == [elock EXCEPT ![e].rd = @ + 1]
WriteLocked(e, a) == [elock EXCEPT ![e].wr = a]
ReleasedAsReader(e) == [elock EXCEPT ![e].rd = @ - 1]
Released(e) == IF elock[e].wr # NoThread
               THEN [elock EXCEPT ![e].wr = NoThread]
               ELSE [elock EXCEPT ![e].rd = @ - 1]

\* free_idx_entry.  Destroying the rwlock leaves its state in memory.
free_idx_entry(e) == /\ ent' = [ent EXCEPT ![e] = FreeEntry]
                     /\ pool' = pool \cup {e}

\* alloc_idx_entry and the epoch get_log_entry gives the entry.
alloc_idx_entry(e) ==
    /\ pool' = pool \ {e}
    /\ ent' = [ent EXCEPT ![e].epoch = Epoch20]
    /\ next' = [next EXCEPT ![e] = NULL]
    /\ elock' = [elock EXCEPT ![e] = Unlocked]

Reusable == {e \in pool : EagerReuse \/ \A t \in Threads : loc[t].cand # e}

-----------------------------------------------------------------------------
(* A client thread: the call, mmio->rwlock and expend_mmio.                 *)

\* read, write or fsync on a file descriptor of the thread.  lseek keeps the
\* position within the file size.
Call(t) ==
    /\ pc[t] = "idle"
    /\ calls < MaxCalls
    /\ \E r \in Requests[policy] :
          /\ r.kind # "fsync" => r.off <= fsize
          /\ IF r.kind = "write"
             THEN /\ dirty' = dirty \cup Written(r)
                  /\ twice' = (twice \/ dirty \cap Written(r) # {})
             ELSE UNCHANGED <<dirty, twice>>
          /\ loc' = [loc EXCEPT ![t] = [NoLocals EXCEPT !.req = r, !.off = r.off]]
          /\ Goto(t, IF r.kind = "fsync" THEN "commit" ELSE "enter")
    /\ calls' = calls + 1
    /\ UNCHANGED <<file, mapping, fsize, counts, tables, readers, ck, wend>>

check_expend_short(r) == mapped < End(r) - 1
check_expend(r) == mapped < End(r)

\* bravo_read_lock and the test for expend_mmio.
Enter(t) ==
    /\ pc[t] = "enter"
    /\ readers' = readers \cup {t}
    /\ Goto(t, IF IsWrite(t) /\ check_expend(loc[t].req) THEN "expend" ELSE "get")
    /\ UNCHANGED <<file, mapping, fsize, counts, tables, loc, ck, history>>

\* expend_mmio gives up the reader lock before it takes the writer lock.
ExpendUnlock(t) ==
    /\ pc[t] = "expend"
    /\ readers' = readers \ {t}
    /\ Goto(t, "grow")
    /\ UNCHANGED <<file, mapping, fsize, counts, tables, loc, ck, history>>

\* The length after the loop of expend_mmio.
Expended(r) ==
    LET first == IF mapped >= BasicMmap THEN 2 * mapped ELSE BasicMmap
        sizes == {mapped} \cup {first * 2^k : k \in 0 .. End(r)}
    IN  CHOOSE m \in sizes : /\ m >= End(r)
                             /\ \A l \in sizes : l >= End(r) => m <= l

Expend(t) ==
    /\ pc[t] = "grow"
    /\ readers = {}
    /\ mapped' = Expended(loc[t].req)
    /\ \/ UNCHANGED start
       \/ MayMove /\ mapped' # mapped /\ start' = start + 1
    /\ Goto(t, "relock")
    /\ UNCHANGED <<file, fsize, counts, tables, readers, loc, ck, history>>

ExpendRelock(t) ==
    /\ pc[t] = "relock"
    /\ readers' = readers \cup {t}
    /\ Goto(t, "get")
    /\ UNCHANGED <<file, mapping, fsize, counts, tables, loc, ck, history>>

-----------------------------------------------------------------------------
(* LOCK_ENTRIES and get_log_entry.                                          *)

Index(t) == Block(loc[t].off)

\* get_log_entry: use the entry in the table, or allocate one.
GetEntry(t) ==
    /\ pc[t] = "get"
    /\ LET e == entries[Index(t)]
       IN  \/ /\ e # NULL
              /\ loc' = [loc EXCEPT ![t].cand = e]
              /\ Goto(t, "trylock")
              /\ UNCHANGED <<ent, next, elock, pool>>
           \/ /\ e = NULL
              /\ Reusable # {}
              /\ LET new == CHOOSE f \in Reusable : \A g \in Reusable : f <= g
                 IN  /\ alloc_idx_entry(new)
                     /\ loc' = [loc EXCEPT ![t].cand = new]
              /\ Goto(t, "publish")
    /\ UNCHANGED <<file, mapping, fsize, counts, entries, readers, ck, history>>

\* The compare-and-swap of get_log_entry.  The loser frees its entry.
BlindStore(t) == TRUE
CasWins(t) == entries[Index(t)] = NULL

Publish(t) ==
    /\ pc[t] = "publish"
    /\ \/ /\ CasWins(t)
          /\ entries' = [entries EXCEPT ![Index(t)] = loc[t].cand]
          /\ Goto(t, "trylock")
          /\ UNCHANGED <<ent, pool, loc>>
       \/ /\ ~CasWins(t)
          /\ free_idx_entry(loc[t].cand)
          /\ loc' = [loc EXCEPT ![t].cand = NULL]
          /\ Goto(t, "reload")
          /\ UNCHANGED entries
    /\ UNCHANGED <<file, mapping, fsize, counts, next, elock, readers, ck, history>>

Reload(t) ==
    /\ pc[t] = "reload"
    /\ loc' = [loc EXCEPT ![t].cand = entries[Index(t)]]
    /\ Goto(t, "trylock")
    /\ UNCHANGED <<file, mapping, fsize, counts, tables, readers, ck, history>>

\* The entry is locked and pushed on the thread's list; then the next block,
\* or back to the start of the request to perform it.
LockEntry(t) ==
    LET e    == loc[t].cand
        more == Base(Index(t) + 1) < End(loc[t].req)
    IN  /\ pc[t] = "trylock"
        /\ e # NULL
        /\ IF IsWrite(t) THEN CanWrite(e) /\ elock' = WriteLocked(e, t)
                         ELSE CanRead(e) /\ elock' = ReadLocked(e)
        /\ next' = [next EXCEPT ![e] = loc[t].head]
        /\ loc' = [loc EXCEPT ![t].head = e, ![t].cand = NULL, ![t].cur = e,
                              ![t].n = loc[t].req.len,
                              ![t].off = IF more THEN Base(Index(t) + 1)
                                                 ELSE loc[t].req.off]
        /\ Goto(t, IF more THEN "get" ELSE IF IsWrite(t) THEN "log" ELSE "check")
        /\ UNCHANGED <<file, mapping, fsize, counts, entries, ent, pool, readers,
                       ck, history>>

\* The try-lock fails and the loop starts over.
LockBusy(t) ==
    /\ pc[t] = "trylock"
    /\ loc[t].cand # NULL
    /\ ~(IF IsWrite(t) THEN CanWrite(loc[t].cand) ELSE CanRead(loc[t].cand))
    /\ loc' = [loc EXCEPT ![t].cand = NULL]
    /\ Goto(t, "get")
    /\ UNCHANGED <<file, mapping, fsize, counts, tables, readers, ck, history>>

-----------------------------------------------------------------------------
(* mmio_write.                                                              *)

\* checkpoint_entry, when the log holds data of a past epoch.
CheckpointEntry(t) ==
    LET e == loc[t].cur
    IN  /\ pc[t] = "log"
        /\ Committed(e)
        /\ file' = Applied(e)
        /\ ent' = [ent EXCEPT ![e].epoch = Epoch20, ![e].policy = policy,
                              ![e].len = 0, ![e].offset = 0]
        /\ Goto(t, "append")
        /\ UNCHANGED <<mapping, fsize, counts, entries, next, elock, pool,
                       readers, loc, ck, history>>

\* What is logged: the old data of the block, or the new data (past the end
\* of the caller's buffer, whatever is there).
LogSource(t) ==
    IF policy = "UNDO"
    THEN FileBlock(Index(t))
    ELSE [i \in Cells |-> IF Base(Index(t)) + i < End(loc[t].req)
                          THEN loc[t].req.val ELSE Junk]

\* The rest of the loop body for the entry the loop is at.  n only shrinks.
LogOne(t) ==
    LET e    == loc[t].cur
        lo   == loc[t].off % LogSize
        n    == Smaller(loc[t].n, LogSize - lo)
        fresh == ~(ent[e].len > 0 /\ n # LogSize)
        e1   == LogWrite(ent[e], lo, n, LogSource(t), FileBlock(Index(t)), policy)
    IN  /\ pc[t] = "append" \/ (pc[t] = "log" /\ ~Committed(e))
        /\ ent' = [ent EXCEPT ![e] =
                      IF fresh
                      THEN [e1 EXCEPT !.dst = [start |-> start, block |-> Index(t)]]
                      ELSE e1]
        /\ loc' = [loc EXCEPT ![t].cur = next[e], ![t].n = n,
                              ![t].ret = @ + n, ![t].off = @ + n]
        /\ Goto(t, IF next[e] = NULL THEN "count" ELSE "log")
        /\ UNCHANGED <<file, mapping, fsize, counts, entries, next, elock, pool,
                       readers, ck, history>>

\* increase_counter, in mmio_write and in mmio_read.
Count(t) ==
    /\ pc[t] = "count"
    /\ cnt' = [cnt EXCEPT ![loc[t].req.kind] = @ + 1]
    /\ loc' = [loc EXCEPT ![t].n = 0, ![t].cur = loc[t].head]
    /\ Goto(t, IF ~IsWrite(t) THEN "unlock"
               ELSE IF policy = "UNDO" THEN "store" ELSE "size")
    /\ UNCHANGED <<file, mapping, fsize, epoch, policy, tables, readers, ck, history>>

\* With undo logging the file itself is written next, cell by cell.
StoreCell(t) ==
    LET r == loc[t].req
        n == loc[t].n
    IN  /\ pc[t] = "store"
        /\ file' = [file EXCEPT ![r.off + n] = r.val]
        /\ loc' = [loc EXCEPT ![t].n = n + 1]
        /\ Goto(t, IF n + 1 = r.len THEN "size" ELSE "store")
        /\ UNCHANGED <<mapping, fsize, counts, tables, readers, ck, history>>

\* The new size is tested and set without a lock that excludes other writers.
SizeOfWrite(t) == loc[t].ret
NewSize(t) == loc[t].req.off + loc[t].ret

TestSize(t) ==
    /\ pc[t] = "size"
    /\ Goto(t, IF fsize < NewSize(t) THEN "setsize" ELSE "unlock")
    /\ UNCHANGED <<file, mapping, fsize, counts, tables, readers, loc, ck, history>>

SetSize(t) ==
    /\ pc[t] = "setsize"
    /\ fsize' = NewSize(t)
    /\ Goto(t, "unlock")
    /\ UNCHANGED <<file, mapping, counts, tables, readers, loc, ck, history>>

-----------------------------------------------------------------------------
(* mmio_read.                                                               *)

\* check_fsize: the length left to read.
CheckSize(t) ==
    LET r == loc[t].req
        n == IF fsize < End(r) THEN fsize - r.off ELSE r.len
    IN  /\ pc[t] = "check"
        /\ loc' = [loc EXCEPT ![t].n = n]
        /\ Goto(t, IF n > 0 THEN "copy" ELSE "count")
        /\ UNCHANGED <<file, mapping, fsize, counts, tables, readers, ck, history>>

\* The read is copied to the caller's buffer cell by cell: ret cells of the
\* part that starts at off are copied, n cells are left from off on.  With
\* undo logging that part is the whole request, with redo logging the share
\* of the entry the loop is at.
CopyCell(t) ==
    LET off  == loc[t].off
        lo   == off % LogSize
        part == IF policy = "UNDO" THEN loc[t].n
                ELSE Smaller(loc[t].n, LogSize - lo)
        i    == loc[t].ret
        cell == IF policy = "UNDO" THEN file[off + i]
                ELSE RedoCell(ent[loc[t].cur], file, Base(Index(t)), lo, part, lo + i)
        rest == loc[t].n - part
        to   == next[loc[t].cur]
        got  == [p \in DOMAIN loc[t].got \cup {off + i} |->
                    IF p = off + i THEN cell ELSE loc[t].got[p]]
    IN  /\ pc[t] = "copy"
        /\ IF i + 1 < part
           THEN /\ loc' = [loc EXCEPT ![t].got = got, ![t].ret = i + 1]
                /\ UNCHANGED pc
           ELSE /\ loc' = [loc EXCEPT ![t].got = got, ![t].ret = 0,
                                      ![t].off = off + part, ![t].n = rest,
                                      ![t].cur = to]
                /\ Goto(t, IF rest > 0 /\ to # NULL THEN "copy" ELSE "count")
        /\ UNCHANGED <<file, mapping, fsize, counts, tables, readers, ck, history>>

-----------------------------------------------------------------------------
(* UNLOCK_ENTRIES and bravo_read_unlock.                                    *)

UnlockEntry(t) ==
    /\ pc[t] = "unlock"
    /\ elock' = Released(loc[t].cur)
    /\ Goto(t, "advance")
    /\ UNCHANGED <<file, mapping, fsize, counts, entries, ent, next, pool,
                   readers, loc, ck, history>>

\* The next pointer is read from the entry after its lock is released.
OnlyFirst(t) == NULL
ListNext(t) == next[loc[t].cur]

Advance(t) ==
    /\ pc[t] = "advance"
    /\ loc' = [loc EXCEPT ![t].cur = ListNext(t)]
    /\ Goto(t, IF ListNext(t) = NULL THEN "leave" ELSE "unlock")
    /\ UNCHANGED <<file, mapping, fsize, counts, tables, readers, ck, history>>

Leave(t) ==
    /\ pc[t] = "leave"
    /\ readers' = readers \ {t}
    /\ Goto(t, "idle")
    /\ loc' = [loc EXCEPT ![t] = NoLocals]
    /\ wend' = IF IsWrite(t) THEN Larger(wend, End(loc[t].req)) ELSE wend
    /\ UNCHANGED <<file, mapping, fsize, counts, tables, ck, calls, dirty, twice>>

-----------------------------------------------------------------------------
(* commit_mmio, under the writer lock of the mmio.                          *)

\* The writes that will be performed after a commit that is next.
Pending == {t \in Threads : pc[t] # "idle" /\ IsWrite(t)}

HybridWriteRatio == 40

\* determine_policy: the policy it arrives at.
NewPolicy ==
    IF (cnt.write \div (cnt.read + cnt.write)) * 100 > HybridWriteRatio
    THEN "REDO" ELSE "UNDO"

\* The epoch is increased and the counters start over.  mmio->policy is not
\* assigned; the call of checkpoint_mmio when NewPolicy differs from it does
\* nothing, because its bravo_read_trylock fails under our writer lock.
Commit(t) ==
    /\ pc[t] = "commit"
    /\ readers = {}
    /\ epoch' = epoch + 1
    /\ cnt' = [read |-> 0, write |-> 0]
    /\ dirty' = UNION {Written(loc[u].req) : u \in Pending}
    /\ twice' = \E u, v \in Pending :
                   u # v /\ Written(loc[u].req) \cap Written(loc[v].req) # {}
    /\ loc' = [loc EXCEPT ![t] = NoLocals]
    /\ Goto(t, "idle")
    /\ UNCHANGED <<file, mapping, fsize, policy, tables, readers, ck, calls, wend>>

-----------------------------------------------------------------------------
(* The checkpoint thread.                                                   *)

\* It wakes up and reads the current epoch, without a lock.
CkptWake ==
    /\ pc[Ckpt] = "idle"
    /\ ck' = [Asleep EXCEPT !.epoch = epoch]
    /\ Goto(Ckpt, "try")
    /\ UNCHANGED <<file, mapping, fsize, counts, tables, readers, loc, history>>

\* bravo_read_trylock fails only while somebody has the writer lock.
CkptTry ==
    /\ pc[Ckpt] = "try"
    /\ \/ /\ readers' = readers \cup {Ckpt}
          /\ Goto(Ckpt, "scan")
          /\ UNCHANGED ck
       \/ /\ readers = {} /\ \E t \in Threads : pc[t] \in {"commit", "grow"}
          /\ ck' = Asleep
          /\ Goto(Ckpt, "idle")
          /\ UNCHANGED readers
    /\ UNCHANGED <<file, mapping, fsize, counts, tables, loc, history>>

NextIndexKeepsLock ==
    /\ ck' = IF ck.i + 1 \in Blocks THEN [ck EXCEPT !.i = @ + 1, !.entry = NULL]
             ELSE Asleep
    /\ Goto(Ckpt, IF ck.i + 1 \in Blocks THEN "scan" ELSE "idle")
    /\ UNCHANGED readers

\* On to the next index, or release the mmio's reader lock and sleep.
NextIndex ==
    IF ck.i + 1 \in Blocks
    THEN /\ ck' = [ck EXCEPT !.i = @ + 1, !.entry = NULL]
         /\ Goto(Ckpt, "scan")
         /\ UNCHANGED readers
    ELSE /\ ck' = Asleep
         /\ Goto(Ckpt, "idle")
         /\ readers' = readers \ {Ckpt}

StaleOrCurrent(e) == e # NULL /\ ent[e].epoch <= ck.epoch
StaleTwice(e) == e # NULL /\ ent[e].epoch + 1 < ck.epoch
Stale(e) == e # NULL /\ ent[e].epoch < ck.epoch

CkptScan ==
    /\ pc[Ckpt] = "scan"
    /\ \/ /\ Stale(entries[ck.i])
          /\ ck' = [ck EXCEPT !.entry = entries[ck.i]]
          /\ Goto(Ckpt, "lock")
          /\ UNCHANGED readers
       \/ ~Stale(entries[ck.i]) /\ NextIndex
    /\ UNCHANGED <<file, mapping, fsize, counts, tables, loc, history>>

CkptLock ==
    /\ pc[Ckpt] = "lock"
    /\ \/ /\ CanWrite(ck.entry)
          /\ elock' = WriteLocked(ck.entry, Ckpt)
          /\ Goto(Ckpt, "recheck")
          /\ UNCHANGED <<readers, ck>>
       \/ ~CanWrite(ck.entry) /\ NextIndex /\ UNCHANGED elock
    /\ UNCHANGED <<file, mapping, fsize, counts, entries, ent, next, pool,
                   loc, history>>

\* The test is repeated under the lock; a redo log goes to the file.
CkptApply ==
    /\ pc[Ckpt] = "recheck"
    /\ \/ /\ Stale(ck.entry)
          /\ file' = Applied(ck.entry)
          /\ Goto(Ckpt, "free")
          /\ UNCHANGED <<elock, readers, ck>>
       \/ /\ ~Stale(ck.entry)
          /\ elock' = Released(ck.entry)
          /\ NextIndex
          /\ UNCHANGED file
    /\ UNCHANGED <<mapping, fsize, counts, entries, ent, next, pool, loc, history>>

\* The entry leaves the table and is freed with its lock still held.
StillInTable(i) == entries
OutOfTable(i) == [entries EXCEPT ![i] = NULL]

CkptFree ==
    /\ pc[Ckpt] = "free"
    /\ entries' = OutOfTable(ck.i)
    /\ free_idx_entry(ck.entry)
    /\ NextIndex
    /\ UNCHANGED <<file, mapping, fsize, counts, next, elock, loc, history>>

-----------------------------------------------------------------------------
ThreadStep(t) ==
    \/ Enter(t) \/ ExpendUnlock(t) \/ Expend(t) \/ ExpendRelock(t)
    \/ GetEntry(t) \/ Publish(t) \/ Reload(t) \/ LockEntry(t) \/ LockBusy(t)
    \/ CheckpointEntry(t) \/ LogOne(t) \/ Count(t) \/ StoreCell(t)
    \/ TestSize(t) \/ SetSize(t) \/ CheckSize(t) \/ CopyCell(t)
    \/ UnlockEntry(t) \/ Advance(t) \/ Leave(t) \/ Commit(t)

CkptStep == CkptWake \/ CkptTry \/ CkptScan \/ CkptLock \/ CkptApply \/ CkptFree

Next == CkptStep \/ \E t \in Threads : Call(t) \/ ThreadStep(t)

Spec == Init /\ [][Next]_vars

\* A thread inside the library keeps running: it spins on entries, and takes
\* mmio->rwlock whenever it is free again and again (a writer makes readers
\* queue behind it, see Bravo.tla).
FairSpec == /\ Spec
            /\ \A t \in Threads : /\ WF_vars(ThreadStep(t))
                                  /\ SF_vars(Commit(t))
                                  /\ SF_vars(Expend(t))
            /\ WF_vars(CkptStep)

-----------------------------------------------------------------------------
(* Properties.                                                              *)

Finishing == {"size", "setsize", "unlock", "advance", "leave"}

\* Every variable has its type: entries, lists and locals hold entries or
\* NULL, lock counts are not negative, and the reader set and the program
\* counters agree.
TypeOK ==
    /\ DOMAIN file = Positions
    /\ mapped \in Nat /\ start \in Nat /\ fsize \in Nat /\ epoch \in Nat
    /\ policy \in {"UNDO", "REDO"}
    /\ entries \in [Blocks -> Entries \cup {NULL}]
    /\ next \in [Entries -> Entries \cup {NULL}]
    /\ \A e \in Entries : elock[e].rd \in Nat /\ elock[e].wr \in Agents \cup {NoThread}
    /\ pool \subseteq Entries
    /\ readers = {a \in Agents :
                     pc[a] \notin {"idle", "enter", "grow", "relock", "commit", "try"}}
    /\ \A t \in Threads :
          {loc[t].head, loc[t].cand, loc[t].cur} \subseteq Entries \cup {NULL}

\* A write takes effect for readers with its first cell stored to the file
\* (UNDO) or its first entry logged (REDO): until it has got to the last one,
\* the locks keep readers from the others.
Underway(t) ==
    /\ pc[t] # "idle"
    /\ IsWrite(t)
    /\ IF policy = "UNDO" THEN pc[t] = "store" /\ loc[t].n > 0
                          ELSE pc[t] \in {"log", "append"} /\ loc[t].ret > 0

Done(t) ==
    IF IsWrite(t)
    THEN Underway(t) \/ pc[t] \in Finishing \/ (policy = "REDO" /\ pc[t] = "count")
    ELSE pc[t] \in {"count"} \cup Finishing

\* The content of the file for readers.
View ==
    LET writing == {t \in Threads : Underway(t)}
    IN  [p \in Positions |->
            LET writers == {t \in writing : p \in Written(loc[t].req)}
                e == entries[Block(p)]
                i == p % LogSize
            IN  IF writers # {} THEN loc[CHOOSE t \in writers : TRUE].req.val
                ELSE IF /\ policy = "REDO" /\ e # NULL
                        /\ ent[e].offset <= i /\ i < ent[e].offset + ent[e].len
                THEN ent[e].log[i]
                ELSE file[p]]

\* What recovery makes of the file after a crash: committed redo logs are
\* applied and uncommitted undo logs are rolled back.
Recovered ==
    [p \in Positions |->
        LET due == {e \in {entries[b] : b \in Blocks} \ {NULL} :
                       /\ ent[e].policy = "REDO" <=> Committed(e)
                       /\ Logged(e, p)}
        IN  IF due # {} THEN LoggedCell(CHOOSE e \in due : TRUE, p) ELSE file[p]]

\* Reads and writes of concurrent threads are atomic: every call takes effect
\* at one instant, whatever the entries locked, allocated, checkpointed and
\* freed meanwhile.
Atomic == INSTANCE AtomicFile WITH
    Idle <- NULL,
    Requests <- AllRequests,
    content <- View,
    op <- [t \in Threads |->
              IF pc[t] = "idle" THEN NULL
              ELSE [req |-> loc[t].req, done |-> Done(t),
                    got |-> IF Done(t) THEN loc[t].got ELSE <<>>]]
Linearizable == Atomic!Spec

\* Failure-atomicity: what a crash would leave changes only at fsync, and
\* there to what readers see.  Undo logs promise it only until a cell is
\* written a second time in the same epoch (LogEntry.tla shows why).
FailureAtomic ==
    [][IF epoch' # epoch THEN Recovered' = View
       ELSE Recovered' = Recovered \/ (policy = "UNDO" /\ twice')]_vars

\* "Acquire all writer-locks of required logs": a thread that performs its
\* request holds the entry that the table has for every block of it.
Performing == {"log", "append", "store", "size", "setsize", "check", "copy"}
LockedEntries ==
    \A t \in Threads : pc[t] \in Performing =>
        \A b \in Span(loc[t].req) :
            /\ entries[b] # NULL
            /\ IF IsWrite(t) THEN elock[entries[b]] = [rd |-> 0, wr |-> t]
               ELSE elock[entries[b]].rd > 0 /\ elock[entries[b]].wr = NoThread

\* "Release all writer-locks", "Release all reader-locks": when nobody is
\* inside the library, no entry in the table is locked.
NoLockLeft ==
    (\A a \in Agents : pc[a] = "idle") =>
        \A b \in Blocks : entries[b] # NULL => elock[entries[b]] = Unlocked

\* The entry a thread is about to lock exists: after a lost race to publish
\* an entry, get_log_entry finds the winner's, because no epoch can end while
\* the thread holds mmio->rwlock and the checkpoint thread leaves the entries
\* of the running epoch alone.
NoNullEntry == \A t \in Threads : pc[t] = "trylock" => loc[t].cand # NULL

\* An entry is in one place at most: in one slot of the table, or taken by one
\* thread to be published, or free.
OnePlace ==
    /\ \A b \in Blocks : entries[b] \notin pool
    /\ \A b, c \in Blocks : b # c => entries[b] = NULL \/ entries[b] # entries[c]
    /\ \A t \in Threads : pc[t] = "publish" =>
          /\ loc[t].cand \notin pool
          /\ \A b \in Blocks : entries[b] # loc[t].cand
          /\ \A u \in Threads \ {t} : loc[u].cand # loc[t].cand

\* The file size covers every write that has returned.
SizeCoversWrites == (\A t \in Threads : pc[t] = "idle") => wend <= fsize

\* A write past the mapping is made only after the mapping covers it, also
\* when another thread or a commit got in between the two locks.
MappedWrites ==
    \A t \in Threads : pc[t] # "idle" /\ IsWrite(t) /\ pc[t] \in Performing => End(loc[t].req) <= mapped

\* Every fsync sets the policy the ratio of reads and writes calls for.
PolicyFollowsRatio ==
    [][epoch' # epoch /\ cnt.read + cnt.write > 0 => policy' = NewPolicy]_vars

\* Every call returns.
CallsReturn == \A t \in Threads : pc[t] # "idle" ~> pc[t] = "idle"

\* A log whose data is committed and not written again is checkpointed and
\* freed by the checkpoint thread.
LogsReclaimed == []<>(\A b \in Blocks : entries[b] # NULL => ~Committed(entries[b]))
=============================================================================
