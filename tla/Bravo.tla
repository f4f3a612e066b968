-------------------------------- MODULE Bravo --------------------------------
(***************************************************************************)
(* The biased reader-writer lock of src/src/bravo.c, one action per atomic *)
(* step of a thread.  A reader first tries to announce itself in the       *)
(* process-wide table visible_readers at the slot its (thread, lock) pair  *)
(* hashes to; if the lock is not biased, the slot is taken, or the bias is *)
(* revoked meanwhile, it falls back on the underlying pthread_rwlock_t.  A *)
(* writer takes the underlying lock and, if the lock is biased, revokes    *)
(* the bias and scans the table until no slot names its lock.              *)
(*                                                                         *)
(* The underlying lock is kept as glibc keeps it, a writer and a COUNT of  *)
(* readers, so that an unlock by a thread that does not hold it has the    *)
(* effect it has in the build: the count drops by one all the same.  Clock *)
(* readings are abstracted: whether now_time >= inhibit_until is a choice. *)
(***************************************************************************)
EXTENDS Integers, FiniteSets

CONSTANTS
    Threads,         \* threads that use the locks
    Locks,           \* the bravo_rwlock_t objects (one per mmio_t)
    NrEntries,       \* NR_ENTRIES, the size of visible_readers
    Hash,            \* bravo_hash: slot of a <<thread, lock>> pair
    StoreBuffering,  \* TRUE: the plain store rbias = false may sit in the
                     \* writer's store buffer while it scans (x86-TSO)
    MaxReaders,      \* bound: no new read call once an underlying reader
                     \* count has drifted this far from zero
    NoThread,        \* "no writer" in the underlying lock
    NULL             \* an empty slot

Slots == 0 .. NrEntries - 1

ASSUME ConstantsAssumption ==
    /\ IsFiniteSet(Threads)
    /\ NoThread \notin Threads
    /\ NULL \notin Locks
    /\ NrEntries \in Nat \ {0}
    /\ Hash \in [Threads \X Locks -> Slots]
    /\ StoreBuffering \in BOOLEAN
    /\ MaxReaders \in Nat

VARIABLES
    rbias,           \* rbias[l]: l->rbias
    readers,         \* readers[l]: reader count of l->underlying
    writer,          \* writer[l]: thread that holds l->underlying for writing
    visible_readers, \* slot -> the lock announced there, or NULL
    pc,              \* where each thread is
    lk,              \* the lock of each thread's current or last call
    try,             \* TRUE when that call is a trylock
    scan,            \* i, the next slot of a thread in revocate()
    buffered         \* TRUE while a thread's rbias = false is not visible yet

vars == <<rbias, readers, writer, visible_readers, pc, lk, try, scan, buffered>>

PCs == {"idle",
        "r_cas", "r_check", "r_clear", "r_slow", "r_rebias", "reading",
        "u_clear", "u_slow",
        "w_lock", "w_bias", "w_revoke", "w_scan", "writing"}

\* The slot of thread t for lock l, and for the lock of its current call.
Slot(t, l) == Hash[<<t, l>>]
MySlot(t) == Slot(t, lk[t])

Goto(t, to) == pc' = [pc EXCEPT ![t] = to]

\* bravo_rwlock_init on every lock; visible_readers is zero-initialised.
Init ==
    /\ rbias = [l \in Locks |-> TRUE]
    /\ readers = [l \in Locks |-> 0]
    /\ writer = [l \in Locks |-> NoThread]
    /\ visible_readers = [s \in Slots |-> NULL]
    /\ pc = [t \in Threads |-> "idle"]
    /\ lk \in [Threads -> Locks]
    /\ try = [t \in Threads |-> FALSE]
    /\ scan = [t \in Threads |-> 0]
    /\ buffered = [t \in Threads |-> FALSE]

-----------------------------------------------------------------------------
(* Readers.                                                                 *)

\* Entry of bravo_read_lock (try = FALSE) and bravo_read_trylock (TRUE):
\* the first test of l->rbias.
BeginRead(t, l, isTry) ==
    /\ pc[t] = "idle"
    /\ readers[l] \in -MaxReaders .. MaxReaders
    /\ lk' = [lk EXCEPT ![t] = l]
    /\ try' = [try EXCEPT ![t] = isTry]
    /\ Goto(t, IF rbias[l] THEN "r_cas" ELSE "r_slow")
    /\ UNCHANGED <<rbias, readers, writer, visible_readers, scan, buffered>>

\* __sync_bool_compare_and_swap(&visible_readers[slot], NULL, l)
CasSlot(t) ==
    /\ pc[t] = "r_cas"
    /\ IF visible_readers[MySlot(t)] = NULL
       THEN /\ visible_readers' = [visible_readers EXCEPT ![MySlot(t)] = lk[t]]
            /\ Goto(t, "r_check")
       ELSE /\ Goto(t, "r_slow")
            /\ UNCHANGED visible_readers
    /\ UNCHANGED <<rbias, readers, writer, lk, try, scan, buffered>>

CheckBiasSkipped(t) ==
    /\ pc[t] = "r_check"
    /\ Goto(t, "reading")
    /\ UNCHANGED <<rbias, readers, writer, visible_readers, lk, try, scan, buffered>>

\* The second test of l->rbias, after the slot is published.
CheckBias(t) ==
    /\ pc[t] = "r_check"
    /\ Goto(t, IF rbias[lk[t]] THEN "reading" ELSE "r_clear")
    /\ UNCHANGED <<rbias, readers, writer, visible_readers, lk, try, scan, buffered>>

ClearSlotForgotten(t) ==
    /\ pc[t] = "r_clear"
    /\ Goto(t, "r_slow")
    /\ UNCHANGED <<rbias, readers, writer, visible_readers, lk, try, scan, buffered>>

ClearSlotRetries(t) ==
    /\ pc[t] = "r_clear"
    /\ visible_readers' = [visible_readers EXCEPT ![MySlot(t)] = NULL]
    /\ Goto(t, "r_cas")
    /\ UNCHANGED <<rbias, readers, writer, lk, try, scan, buffered>>

\* The bias was revoked: withdraw the announcement.
ClearSlot(t) ==
    /\ pc[t] = "r_clear"
    /\ visible_readers' = [visible_readers EXCEPT ![MySlot(t)] = NULL]
    /\ Goto(t, "r_slow")
    /\ UNCHANGED <<rbias, readers, writer, lk, try, scan, buffered>>

\* pthread_rwlock_rdlock, or a pthread_rwlock_tryrdlock that succeeds.
SlowRead(t) ==
    /\ pc[t] = "r_slow"
    /\ writer[lk[t]] = NoThread
    /\ readers' = [readers EXCEPT ![lk[t]] = @ + 1]
    /\ Goto(t, "r_rebias")
    /\ UNCHANGED <<rbias, writer, visible_readers, lk, try, scan, buffered>>

\* pthread_rwlock_tryrdlock fails: bravo_read_trylock returns its error.
SlowReadBusy(t) ==
    /\ pc[t] = "r_slow"
    /\ try[t]
    /\ writer[lk[t]] # NoThread
    /\ Goto(t, "idle")
    /\ UNCHANGED <<rbias, readers, writer, visible_readers, lk, try, scan, buffered>>

\* Set the bias again if it is off and the inhibition period is over.
Rebias(t) ==
    /\ pc[t] = "r_rebias"
    /\ \/ rbias' = [rbias EXCEPT ![lk[t]] = TRUE]
       \/ UNCHANGED rbias
    /\ Goto(t, "reading")
    /\ UNCHANGED <<readers, writer, visible_readers, lk, try, scan, buffered>>

\* Entry of bravo_read_unlock: visible_readers[slot] != NULL.
TestSlot(t) ==
    /\ pc[t] = "reading"
    /\ Goto(t, IF visible_readers[MySlot(t)] # NULL THEN "u_clear" ELSE "u_slow")
    /\ UNCHANGED <<rbias, readers, writer, visible_readers, lk, try, scan, buffered>>

\* ... then visible_readers[slot] = NULL, whichever lock the slot names.
FastUnlock(t) ==
    /\ pc[t] = "u_clear"
    /\ visible_readers' = [visible_readers EXCEPT ![MySlot(t)] = NULL]
    /\ Goto(t, "idle")
    /\ UNCHANGED <<rbias, readers, writer, lk, try, scan, buffered>>

\* ... else pthread_rwlock_unlock, whether or not the thread holds it.
SlowUnlock(t) ==
    /\ pc[t] = "u_slow"
    /\ readers' = [readers EXCEPT ![lk[t]] = @ - 1]
    /\ Goto(t, "idle")
    /\ UNCHANGED <<rbias, writer, visible_readers, lk, try, scan, buffered>>

-----------------------------------------------------------------------------
(* Writers.                                                                 *)

\* Entry of bravo_write_lock and bravo_write_trylock.
BeginWrite(t, l, isTry) ==
    /\ pc[t] = "idle"
    /\ lk' = [lk EXCEPT ![t] = l]
    /\ try' = [try EXCEPT ![t] = isTry]
    /\ Goto(t, "w_lock")
    /\ UNCHANGED <<rbias, readers, writer, visible_readers, scan, buffered>>

UnderlyingFree(l) == writer[l] = NoThread /\ readers[l] = 0

\* pthread_rwlock_wrlock, or a pthread_rwlock_trywrlock that succeeds.
UnderlyingWrite(t) ==
    /\ pc[t] = "w_lock"
    /\ UnderlyingFree(lk[t])
    /\ writer' = [writer EXCEPT ![lk[t]] = t]
    /\ Goto(t, "w_bias")
    /\ UNCHANGED <<rbias, readers, visible_readers, lk, try, scan, buffered>>

\* pthread_rwlock_trywrlock fails: bravo_write_trylock returns its error.
WriteBusy(t) ==
    /\ pc[t] = "w_lock"
    /\ try[t]
    /\ ~UnderlyingFree(lk[t])
    /\ Goto(t, "idle")
    /\ UNCHANGED <<rbias, readers, writer, visible_readers, lk, try, scan, buffered>>

TestBiasSkipped(t) ==
    /\ pc[t] = "w_bias"
    /\ Goto(t, "writing")
    /\ UNCHANGED <<rbias, readers, writer, visible_readers, lk, try, scan, buffered>>

\* if (l->rbias) revocate(l)
TestBias(t) ==
    /\ pc[t] = "w_bias"
    /\ Goto(t, IF rbias[lk[t]] THEN "w_revoke" ELSE "writing")
    /\ UNCHANGED <<rbias, readers, writer, visible_readers, lk, try, scan, buffered>>

RevokeKeepsBias(t) ==
    /\ pc[t] = "w_revoke"
    /\ scan' = [scan EXCEPT ![t] = 0]
    /\ Goto(t, "w_scan")
    /\ UNCHANGED <<rbias, readers, writer, visible_readers, lk, try, buffered>>

\* revocate: l->rbias = false, which may stay in the store buffer.
Revoke(t) ==
    /\ pc[t] = "w_revoke"
    /\ IF StoreBuffering
       THEN /\ buffered' = [buffered EXCEPT ![t] = TRUE]
            /\ UNCHANGED rbias
       ELSE /\ rbias' = [rbias EXCEPT ![lk[t]] = FALSE]
            /\ UNCHANGED buffered
    /\ scan' = [scan EXCEPT ![t] = 0]
    /\ Goto(t, "w_scan")
    /\ UNCHANGED <<readers, writer, visible_readers, lk, try>>

\* The buffered store reaches memory.
Drain(t) ==
    /\ buffered[t]
    /\ rbias' = [rbias EXCEPT ![lk[t]] = FALSE]
    /\ buffered' = [buffered EXCEPT ![t] = FALSE]
    /\ UNCHANGED <<readers, writer, visible_readers, pc, lk, try, scan>>

ScanPastEnd(t) ==
    /\ pc[t] = "w_scan"
    /\ visible_readers[scan[t]] # lk[t]
    /\ scan' = [scan EXCEPT ![t] = @ + 1]
    /\ Goto(t, IF scan[t] = NrEntries THEN "writing" ELSE "w_scan")
    /\ UNCHANGED <<rbias, readers, writer, visible_readers, lk, try, buffered>>

\* revocate: leave slot i once it does not name l; after the last one the
\* writer is in.
ScanSlot(t) ==
    /\ pc[t] = "w_scan"
    /\ visible_readers[scan[t]] # lk[t]
    /\ IF scan[t] = NrEntries - 1
       THEN /\ Goto(t, "writing")
            /\ UNCHANGED scan
       ELSE /\ scan' = [scan EXCEPT ![t] = @ + 1]
            /\ UNCHANGED pc
    /\ UNCHANGED <<rbias, readers, writer, visible_readers, lk, try, buffered>>

\* bravo_write_unlock.  The atomic instruction in pthread_rwlock_unlock
\* drains the store buffer first.
WriteUnlock(t) ==
    /\ pc[t] = "writing"
    /\ ~buffered[t]
    /\ writer' = [writer EXCEPT ![lk[t]] = NoThread]
    /\ Goto(t, "idle")
    /\ UNCHANGED <<rbias, readers, visible_readers, lk, try, scan, buffered>>

\* bravo_rwlock_destroy, which takes the lock for writing (the actions
\* above) and destroys it, followed by the bravo_rwlock_init that
\* release_mmio calls next.
Reinit(t) ==
    /\ pc[t] = "writing"
    /\ ~buffered[t]
    /\ rbias' = [rbias EXCEPT ![lk[t]] = TRUE]
    /\ readers' = [readers EXCEPT ![lk[t]] = 0]
    /\ writer' = [writer EXCEPT ![lk[t]] = NoThread]
    /\ Goto(t, "idle")
    /\ UNCHANGED <<visible_readers, lk, try, scan, buffered>>

-----------------------------------------------------------------------------
\* The steps of a call in progress and the end of the caller's critical
\* section; a call itself is the caller's choice.
ReaderStep(t) == \/ CasSlot(t)   \/ CheckBias(t) \/ ClearSlot(t)
                 \/ SlowRead(t)  \/ SlowReadBusy(t) \/ Rebias(t)
                 \/ TestSlot(t)  \/ FastUnlock(t) \/ SlowUnlock(t)

WriterStep(t) == \/ UnderlyingWrite(t) \/ WriteBusy(t) \/ TestBias(t)
                 \/ Revoke(t) \/ Drain(t) \/ ScanSlot(t)
                 \/ WriteUnlock(t) \/ Reinit(t)

Next == \E t \in Threads :
           \/ \E l \in Locks, isTry \in BOOLEAN :
                 BeginRead(t, l, isTry) \/ BeginWrite(t, l, isTry)
           \/ ReaderStep(t)
           \/ WriterStep(t)

Spec == Init /\ [][Next]_vars

(***************************************************************************)
(* Every running thread keeps taking steps and every critical section of   *)
(* the library ends (mmio.c holds the lock over a bounded loop).  glibc's  *)
(* default rwlock prefers readers, so a blocked reader is not starved by a *)
(* stream of writers: strong fairness on SlowRead.  Writers get no such    *)
(* promise.                                                                *)
(***************************************************************************)
Fairness == \A t \in Threads : /\ WF_vars(ReaderStep(t))
                               /\ WF_vars(WriterStep(t))
                               /\ SF_vars(SlowRead(t))

FairSpec == Spec /\ Fairness

-----------------------------------------------------------------------------
(* Properties.                                                              *)

\* Every variable has its type; a scan of revocate never leaves the table.
TypeOK ==
    /\ rbias \in [Locks -> BOOLEAN]
    /\ readers \in [Locks -> Int]
    /\ writer \in [Locks -> Threads \cup {NoThread}]
    /\ visible_readers \in [Slots -> Locks \cup {NULL}]
    /\ pc \in [Threads -> PCs]
    /\ lk \in [Threads -> Locks]
    /\ try \in [Threads -> BOOLEAN]
    /\ scan \in [Threads -> Slots]
    /\ buffered \in [Threads -> BOOLEAN]

Reading(t, l) == lk[t] = l /\ pc[t] = "reading"
Writing(t, l) == lk[t] = l /\ pc[t] = "writing"

\* bravo.c is a reader-writer lock: while a thread is between
\* bravo_write_lock and bravo_write_unlock no other thread is between
\* bravo_read_lock (either path) and bravo_read_unlock of the same lock, nor
\* writing under it.
Exclusion ==
    \A t, u \in Threads : \A l \in Locks :
        t # u /\ Writing(t, l) => ~Reading(u, l) /\ ~Writing(u, l)

\* Every lock operation is undone by its unlock: when no call is in
\* progress, no slot of visible_readers is taken and no underlying lock is
\* held, so the next bravo_write_lock does not wait for a reader that left.
NothingLeaks ==
    (\A t \in Threads : pc[t] = "idle") =>
        /\ visible_readers = [s \in Slots |-> NULL]
        /\ readers = [l \in Locks |-> 0]
        /\ writer = [l \in Locks |-> NoThread]

\* The lock implements the abstract reader-writer lock: a thread becomes a
\* reader or a writer, and stops being one, only as RWLock allows.
RW == INSTANCE RWLock WITH
        rd <- [l \in Locks |-> {t \in Threads : Reading(t, l)}],
        wr <- [l \in Locks |-> IF \E t \in Threads : Writing(t, l)
                               THEN CHOOSE t \in Threads : Writing(t, l)
                               ELSE NoThread]
ImplementsRWLock == RW!Spec

\* revocate() terminates: once the bias is off, the readers announced in
\* the table leave and no new one settles there.
RevocationEnds == \A t \in Threads : pc[t] = "w_scan" ~> pc[t] = "writing"

\* A reader that starts bravo_read_lock or bravo_read_trylock gets the lock
\* or (trylock) its error.
ReadReturns == \A t \in Threads :
    pc[t] \in {"r_cas", "r_slow"} ~> pc[t] \in {"reading", "idle"}
=============================================================================
