------------------------------ MODULE LogEntry ------------------------------
(***************************************************************************)
(* The life of the log of one block, as the threads that hold its lock     *)
(* move it on: get_log_entry, the per-entry part of mmio_write with        *)
(* checkpoint_entry, the epoch increment of commit_mmio, and the per-entry *)
(* part of checkpoint_mmio.  Every action is the whole critical section,   *)
(* so the module is sequential: Mmio.tla adds the locks and the threads.   *)
(*                                                                         *)
(* mmio->policy never changes (determine_policy computes a new policy and  *)
(* drops it), so it is the constant Policy, i.e. DEFAULT_POLICY.           *)
(***************************************************************************)
EXTENDS LogRange

CONSTANTS Val,         \* values of a cell
          Policy,      \* mmio->policy, "UNDO" or "REDO"
          EpochMod,    \* 2^20: idx_entry_t.epoch is a 20-bit field
          MaxEpoch,    \* bound on the number of commits
          Requests,    \* the writes a client may make: [lo, n, data]
          Rewrites,    \* FALSE: no cell is written twice between two fsyncs
          NULL         \* no entry in the table

Entries == [epoch : 0 .. EpochMod - 1, policy : {"UNDO", "REDO"},
            offset : 0 .. LogSize, len : 0 .. LogSize,
            log : [Cells -> Val \cup {Junk}]]

ASSUME LogEntryAssumption ==
    /\ Junk \notin Val
    /\ NULL \notin Entries
    /\ Policy \in {"UNDO", "REDO"}
    /\ EpochMod \in Nat \ {0}
    /\ MaxEpoch \in Nat
    /\ Requests \subseteq [lo : Cells, n : 1 .. LogSize, data : [Cells -> Val]]
    /\ \A r \in Requests : r.lo + r.n <= LogSize
    /\ Rewrites \in BOOLEAN

VARIABLES file,    \* the block in the mapped file
          entry,   \* table->entries[index]: the log of the block, or NULL
          epoch,   \* mmio->epoch
          dirty    \* history: the cells written since the last commit

vars == <<file, entry, epoch, dirty>>

Init == /\ file \in [Cells -> Val]
        /\ entry = NULL
        /\ epoch = 0
        /\ dirty = {}

\* mmio->epoch as the bit-field of an entry keeps it.
Epoch20 == epoch % EpochMod

\* alloc_idx_entry, then entry->epoch = epoch in get_log_entry.  The policy
\* bit of a free entry is 0, which is UNDO.
NewEntry == [epoch |-> Epoch20, policy |-> "UNDO", offset |-> 0, len |-> 0,
             log |-> [i \in Cells |-> Junk]]

get_log_entry == IF entry = NULL THEN NewEntry ELSE entry

CommittedAtOnce(e) == e.epoch <= epoch

\* The library takes an entry for committed when its epoch is a past one.
Committed(e) == e.epoch < epoch

ApplyWholeLog(e) == IF e.policy = "REDO" THEN e.log ELSE file

\* A redo log is copied to the file before its entry is reused or freed.
Applied(e) == IF e.policy = "REDO" THEN Overlay(file, e) ELSE file

\* checkpoint_entry: what the entry becomes.
Renewed(e) == [e EXCEPT !.epoch = Epoch20, !.policy = Policy,
                        !.len = 0, !.offset = 0]

\* The body of the loop in mmio_write and, for undo logging, the store to
\* the file that follows it.
Write(r) ==
    /\ Rewrites \/ dirty \cap (r.lo .. r.lo + r.n - 1) = {}
    /\ LET e0 == get_log_entry
           e1 == IF Committed(e0) THEN Renewed(e0) ELSE e0
           f1 == IF Committed(e0) THEN Applied(e0) ELSE file
       IN  /\ entry' = LogWrite(e1, r.lo, r.n,
                                IF Policy = "UNDO" THEN f1 ELSE r.data,
                                f1, Policy)
           /\ file' = IF Policy = "UNDO"
                      THEN Store(f1, r.lo, r.lo + r.n, r.data) ELSE f1
    /\ dirty' = dirty \cup (r.lo .. r.lo + r.n - 1)
    /\ UNCHANGED epoch

\* mmio_read leaves an entry behind, even for a block never written.
Read == /\ entry' = get_log_entry
        /\ UNCHANGED <<file, epoch, dirty>>

\* commit_mmio
Commit == /\ epoch < MaxEpoch
          /\ epoch' = epoch + 1
          /\ dirty' = {}
          /\ UNCHANGED <<file, entry>>

\* checkpoint_mmio, for this entry.
Checkpoint == /\ entry # NULL
              /\ Committed(entry)
              /\ file' = Applied(entry)
              /\ entry' = NULL
              /\ UNCHANGED <<epoch, dirty>>

Next == Commit \/ Checkpoint \/ Read \/ \E r \in Requests : Write(r)

Spec == Init /\ [][Next]_vars

-----------------------------------------------------------------------------
\* Every variable has its type; no cell of the file ever holds uninitialised
\* log memory.
TypeOK == /\ file \in [Cells -> Val]
          /\ entry \in Entries \cup {NULL}
          /\ epoch \in 0 .. MaxEpoch
          /\ dirty \subseteq Cells

\* What mmio_read returns for the block: under redo logging the log is laid
\* over the file.
View == IF entry # NULL /\ Policy = "REDO" THEN Overlay(file, entry) ELSE file

\* What recovery makes of the file after a crash: committed redo logs are
\* applied and uncommitted undo logs are rolled back.
Recovered ==
    IF entry # NULL /\ (entry.policy = "REDO" <=> entry.epoch < epoch)
    THEN Overlay(file, entry) ELSE file

\* A log in use lies inside its block, holds no uninitialised memory, and
\* under REDO is marked so: whatever the sequence of overwrites was, the
\* merges of mmio_write filled every gap.
LogFilled ==
    entry # NULL =>
        /\ entry.offset + entry.len <= LogSize
        /\ entry.len > 0 => entry.policy = Policy
        /\ \A i \in entry.offset .. entry.offset + entry.len - 1 :
              entry.log[i] # Junk

\* Failure-atomicity: through any sequence of writes, overwrites, commits
\* and checkpoints the block a reader sees changes exactly by the writes;
\* what a crash would leave changes only when commit_mmio moves the epoch on,
\* and then to what a reader sees; and no commit leaves a write behind.
Block == INSTANCE AtomicBlock WITH content <- View, unsynced <- dirty,
                                   committed <- Recovered, fsyncs <- epoch
FailureAtomic == Block!Spec

\* read_redolog pieces every request together from log and file without
\* loss or mix-up, whatever part of the block the log covers.
ReadExact ==
    Policy = "REDO" /\ entry # NULL =>
        \A lo \in Cells : \A n \in 1 .. LogSize - lo :
            ReadRedo(entry, file, 0, lo, n) = [i \in lo .. lo + n - 1 |-> View[i]]

\* The same for every request that does not stick out on the right of a log
\* it starts before: all cases of read_redolog but the tail of case 3.
ReadExactButTail ==
    Policy = "REDO" /\ entry # NULL =>
        \A lo \in Cells : \A n \in 1 .. LogSize - lo :
            \/ lo <= entry.offset /\ lo + n > entry.offset + entry.len
            \/ ReadRedo(entry, file, 0, lo, n) = [i \in lo .. lo + n - 1 |-> View[i]]
=============================================================================
