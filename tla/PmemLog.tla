------------------------------ MODULE PmemLog -------------------------------
(***************************************************************************)
(* The log of one block on persistent memory: the stores, flushes and      *)
(* fences of mmio_write, checkpoint_entry, commit_mmio and checkpoint_mmio *)
(* in src/src/mmio.c and of free_idx_entry in allocator.c, in the order in *)
(* which the code issues them, with a crash between any two of them.       *)
(*                                                                         *)
(* mem is what the processor sees, pm what a crash leaves.  A store reaches*)
(* pm at any time after it; a location stored by NTSTORE or flushed by     *)
(* FLUSH has reached it once a FENCE is over.  The calls hold the locks of *)
(* Mmio, so they follow each other.  The bit-fields that idx_entry_t keeps *)
(* in one word (united) are one location and are updated by one store, as  *)
(* an optimising compiler merges them.  The allocator hands the block the  *)
(* entry and the log that it has freed, as FreeList allows.                *)
(***************************************************************************)
EXTENDS LogRange, Sequences

CONSTANTS Val,          \* values of a cell
          Policies,     \* mmio->policy is one of these
          MaxEpoch,     \* bound on the number of commits
          Requests      \* the writes a client may make: [lo, n, data]

ASSUME PmemLogAssumption ==
    /\ Junk \notin Val
    /\ Policies \subseteq {"UNDO", "REDO"}
    /\ MaxEpoch \in Nat
    /\ Requests \subseteq [lo : Cells, n : 1 .. LogSize, data : [Cells -> Val]]
    /\ \A r \in Requests : r.lo + r.n <= LogSize

\* Locations: the cells of the block in the file and of its log, the header
\* of the entry, and mmio->epoch.
FileCells(S) == {<<"file", i>> : i \in S}
LogCells(S) == {<<"log", i>> : i \in S}
Hdr == <<"hdr">>
Epoch == <<"epoch">>
Locations == FileCells(Cells) \cup LogCells(Cells) \cup {Hdr, Epoch}

VARIABLES mem, pm,   \* location -> value
          nt,        \* locations that the next FENCE waits for
          policy,    \* mmio->policy
          used,      \* the table has an entry for the block
          pc, req,   \* the call at work: where it is, and its write
          dirty,     \* history: the cells written since the last commit
          saved,     \* history: epoch -> the block that its fsync saw
          stale      \* history: the header cleared by free_idx_entry has
                     \* not reached pm yet, nor has a later one

vars == <<mem, pm, nt, policy, used, pc, req, dirty, saved, stale>>

FreeHdr == [epoch |-> 0, offset |-> 0, len |-> 0, policy |-> "UNDO"]

File(m) == [i \in Cells |-> m[<<"file", i>>]]
Log(m) == [i \in Cells |-> m[<<"log", i>>]]
Entry(m) == [offset |-> m[Hdr].offset, len |-> m[Hdr].len,
             policy |-> m[Hdr].policy, epoch |-> m[Hdr].epoch, log |-> Log(m)]

Init ==
    /\ mem \in {[l \in Locations |-> CASE l = Hdr -> FreeHdr
                                       [] l = Epoch -> 0
                                       [] l[1] = "log" -> Junk
                                       [] l[1] = "file" -> v] : v \in Val}
    /\ pm = mem
    /\ nt = {}
    /\ policy \in Policies
    /\ used = FALSE
    /\ pc = "idle"
    /\ req = {}
    /\ dirty = {}
    /\ saved = <<File(mem)>>
    /\ stale = FALSE

-----------------------------------------------------------------------------
(* Memory.                                                                  *)

\* Stores of the values in new, whose domain is the locations.
Stores(new) == mem' = [l \in Locations |-> IF l \in DOMAIN new THEN new[l] ELSE mem[l]]

\* NTSTORE, or stores followed by FLUSH.
NtStores(new) == Stores(new) /\ nt' = nt \cup DOMAIN new

OneStore(l, v) == [x \in {l} |-> v]

\* A store reaches persistent memory on its own.
Persist(l) ==
    /\ pm[l] # mem[l]
    /\ pm' = [pm EXCEPT ![l] = mem[l]]
    /\ stale' = (stale /\ l # Hdr)
    /\ UNCHANGED <<mem, nt, policy, used, pc, req, dirty, saved>>

NoFenceBehindLog(at) == IF at = "headed" THEN {} ELSE nt
NoFenceInCommit(at) == IF at = "committing" THEN {} ELSE nt

\* What the FENCE at which a call is waits for.
Drained(at) == nt

\* What follows the FENCE at which a call is.
AfterFence(at) ==
    CASE at = "applied"                       -> "renew"
      [] at = "renewed"                       -> "log"
      [] at = "headed" /\ policy = "UNDO"     -> "store"
      [] at = "headed" /\ policy = "REDO"     -> "idle"
      [] at \in {"stored", "committing"}      -> "idle"
      [] at = "swept"                         -> "free"

Fence ==
    /\ pc \in {"applied", "renewed", "headed", "stored", "committing", "swept"}
    /\ pm' = [l \in Locations |-> IF l \in Drained(pc) THEN mem[l] ELSE pm[l]]
    /\ nt' = nt \ Drained(pc)
    /\ stale' = (stale /\ Hdr \notin Drained(pc))
    /\ pc' = AfterFence(pc)
    /\ req' = IF pc' = "idle" THEN {} ELSE req
    /\ UNCHANGED <<mem, policy, used, dirty, saved>>

-----------------------------------------------------------------------------
(* mmio_write.                                                              *)

Written(r) == r.lo .. r.lo + r.n - 1
Committed == mem[Hdr].epoch < mem[Epoch]

\* get_log_entry stores the epoch of a new entry and does not flush it.
GetLogEntry == IF used THEN UNCHANGED mem
               ELSE Stores(OneStore(Hdr, [mem[Hdr] EXCEPT !.epoch = mem[Epoch]]))

\* mmio_read leaves an entry behind.
Read ==
    /\ pc = "idle"
    /\ ~used
    /\ GetLogEntry
    /\ used' = TRUE
    /\ UNCHANGED <<pm, nt, policy, pc, req, dirty, saved, stale>>

\* Under undo logging no cell is written twice between two fsyncs.
Begin(r) ==
    /\ pc = "idle"
    /\ policy = "UNDO" => dirty \cap Written(r) = {}
    /\ GetLogEntry
    /\ used' = TRUE
    /\ pc' = "check"
    /\ req' = {r}
    /\ UNCHANGED <<pm, nt, policy, dirty, saved, stale>>

Check ==
    /\ pc = "check"
    /\ pc' = IF ~Committed THEN "log" ELSE IF mem[Hdr].policy = "REDO" THEN "apply" ELSE "renew"
    /\ UNCHANGED <<mem, pm, nt, policy, used, req, dirty, saved, stale>>

WholeLog(e) == Cells
InUse(e) == e.offset .. e.offset + e.len - 1

\* The redo log is copied to the file, in checkpoint_entry or checkpoint_mmio.
Applied == [l \in FileCells(InUse(Entry(mem))) |-> mem[<<"log", l[2]>>]]

Apply ==
    /\ pc = "apply"
    /\ NtStores(Applied)
    /\ pc' = "applied"
    /\ UNCHANGED <<pm, policy, used, req, dirty, saved, stale>>

Renew ==
    /\ pc = "renew"
    /\ NtStores(OneStore(Hdr, [FreeHdr EXCEPT !.epoch = mem[Epoch], !.policy = policy]))
    /\ pc' = "renewed"
    /\ UNCHANGED <<pm, policy, used, req, dirty, saved, stale>>

\* The entry after the write is logged.
Logged(r) == LogWrite(Entry(mem), r.lo, r.n,
                      IF policy = "UNDO" THEN File(mem) ELSE r.data, File(mem), policy)

\* The cells of the log that get a new value; to store an old one again
\* changes nothing.
LogData(r) ==
    /\ pc = "log"
    /\ LET new == {i \in Cells : Logged(r).log[i] # mem[<<"log", i>>]}
       IN  NtStores([l \in LogCells(new) |-> Logged(r).log[l[2]]])
    /\ pc' = "head"
    /\ UNCHANGED <<pm, policy, used, req, dirty, saved, stale>>

LogHeader(r) ==
    LET e == Logged(r)
    IN  /\ pc = "head"
        /\ NtStores(OneStore(Hdr, [epoch |-> e.epoch, offset |-> e.offset,
                                   len |-> e.len, policy |-> e.policy]))
        /\ pc' = "headed"
        /\ dirty' = dirty \cup Written(r)
        /\ UNCHANGED <<pm, policy, used, req, saved, stale>>

\* Undo logging: the file is written after the fence.
StoreFile(r) ==
    /\ pc = "store"
    /\ NtStores([l \in FileCells(Written(r)) |-> r.data[l[2]]])
    /\ pc' = "stored"
    /\ UNCHANGED <<pm, policy, used, req, dirty, saved, stale>>

-----------------------------------------------------------------------------
(* commit_mmio and checkpoint_mmio.                                         *)

\* What a read sees.
View == IF policy = "REDO" THEN Overlay(File(mem), Entry(mem)) ELSE File(mem)

Commit ==
    /\ pc = "idle"
    /\ mem[Epoch] < MaxEpoch
    /\ NtStores(OneStore(Epoch, mem[Epoch] + 1))
    /\ pc' = "committing"
    /\ dirty' = {}
    /\ saved' = Append(saved, View)
    /\ UNCHANGED <<pm, policy, used, req, stale>>

Checkpoint ==
    /\ pc = "idle"
    /\ used /\ Committed
    /\ \/ /\ mem[Hdr].policy = "REDO"
          /\ NtStores(Applied)
          /\ pc' = "swept"
       \/ /\ mem[Hdr].policy = "UNDO"
          /\ pc' = "free"
          /\ UNCHANGED <<mem, nt>>
    /\ UNCHANGED <<pm, policy, used, req, dirty, saved, stale>>

\* free_idx_entry clears the header and does not flush it.
Free ==
    /\ pc = "free"
    /\ Stores(OneStore(Hdr, FreeHdr))
    /\ used' = FALSE
    /\ pc' = "idle"
    /\ stale' = (pm[Hdr] # FreeHdr)
    /\ UNCHANGED <<pm, nt, policy, req, dirty, saved>>

Next ==
    \/ Fence \/ Read \/ Check \/ Apply \/ Renew \/ Commit \/ Checkpoint \/ Free
    \/ \E r \in Requests : Begin(r)
    \/ \E r \in req : LogData(r) \/ LogHeader(r) \/ StoreFile(r)
    \/ \E l \in Locations : Persist(l)

Spec == Init /\ [][Next]_vars

-----------------------------------------------------------------------------
\* Every variable has its type; neither the file nor what a crash leaves of
\* it ever holds uninitialised log memory.
TypeOK ==
    /\ \A m \in {mem, pm} :
          /\ DOMAIN m = Locations
          /\ \A i \in Cells : m[<<"file", i>>] \in Val /\ m[<<"log", i>>] \in Val \cup {Junk}
          /\ m[Epoch] \in 0 .. MaxEpoch
          /\ m[Hdr].epoch \in 0 .. MaxEpoch
          /\ m[Hdr].offset + m[Hdr].len \in 0 .. LogSize
    /\ nt \subseteq Locations /\ req \subseteq Requests /\ dirty \subseteq Cells

\* What recovery makes of the block: a committed redo log is applied, an
\* uncommitted undo log rolled back.
Recovered ==
    IF (pm[Hdr].policy = "REDO") <=> (pm[Hdr].epoch < pm[Epoch])
    THEN Overlay(File(pm), Entry(pm)) ELSE File(pm)

\* A crash at any point, with any part of what is not fenced lost, leaves
\* the block as the last fsync that reached persistent memory saw it.
FailureAtomic == Recovered = saved[pm[Epoch] + 1]

\* Two windows in which the code does not order its stores: an undo log
\* between the flush of its header and the fence behind it; and the first
\* redo log after a checkpoint, until its header reaches pm: what is there
\* may be the committed header that free_idx_entry cleared.
LogUnordered == policy = "UNDO" /\ pc = "headed"
OldHeader == policy = "REDO" /\ stale /\ pc \in {"head", "headed"}

\* Outside of these windows a crash at any point, with any part of what is
\* not fenced lost, leaves the block as the last fsync that reached
\* persistent memory saw it.
FailureAtomicButLogging == LogUnordered \/ OldHeader \/ FailureAtomic

\* When no call is at work a crash loses nothing of what the last fsync saw,
\* whether the headers that free_idx_entry cleared have reached pm or not.
DurableFsync == pc = "idle" => Recovered = saved[mem[Epoch] + 1]
=============================================================================
