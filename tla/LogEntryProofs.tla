--------------------------- MODULE LogEntryProofs ---------------------------
(***************************************************************************)
(* TLAPS proofs about the log of one block, for every block size and every *)
(* set of write requests: logs have no gap, redo logging is failure-atomic *)
(* as long as the epoch fits its bit-field, and undo logging is when,      *)
(* besides, no cell is written twice between two fsyncs.                   *)
(***************************************************************************)
EXTENDS LogEntry, LogRangeProofs

-----------------------------------------------------------------------------
(* Entries.                                                                 *)

\* Entries whose log, if in use, is an interval of the block.
Bounded(e) == e \in Entries /\ e.offset + e.len <= LogSize

LEMMA EntryFields ==
    ASSUME NEW e \in Entries
    PROVE  /\ e.epoch \in 0 .. EpochMod - 1 /\ e.policy \in {"UNDO", "REDO"}
           /\ e.offset \in 0 .. LogSize /\ e.len \in 0 .. LogSize
           /\ e.log \in [Cells -> Val \cup {Junk}]
BY DEF Entries

LEMMA InRange ==
    ASSUME NEW e
    PROVE  Bounded(e) <=> InBlock(e, 0 .. EpochMod - 1, Val \cup {Junk})
BY DEF Bounded, InBlock, Entries, LogRecords

\* What mmio_write makes of an entry, field by field.
LEMMA LogWriteFields ==
    ASSUME NEW e, Bounded(e), NEW lo \in Int, NEW n \in Int, Interval(lo, lo + n),
           NEW data \in [Cells -> Val], NEW blk \in [Cells -> Val],
           NEW p \in {"UNDO", "REDO"}
    PROVE  LET w == LogWrite(e, lo, n, data, blk, p)
               merge == e.len > 0 /\ n # LogSize
           IN  /\ Bounded(w)
               /\ w.len > 0
               /\ w.epoch = e.epoch
               /\ w.policy = IF merge THEN e.policy ELSE p
               /\ w.offset = IF merge /\ e.offset < lo THEN e.offset ELSE lo
               /\ w.offset + w.len = IF merge /\ e.offset + e.len > lo + n
                                     THEN e.offset + e.len ELSE lo + n
<1>1. data \in [Cells -> Val \cup {Junk}] /\ blk \in [Cells -> Val \cup {Junk}]
  OBVIOUS
<1>2. InBlock(e, 0 .. EpochMod - 1, Val \cup {Junk})
  BY InRange
<1> QED
  BY <1>1, <1>2, WriteFields, InRange

\* ... and cell by cell, over the interval in use.
LEMMA LogWriteCell ==
    ASSUME NEW e, Bounded(e), NEW lo \in Int, NEW n \in Int, Interval(lo, lo + n),
           NEW data \in [Cells -> Val], NEW blk \in [Cells -> Val],
           NEW p \in {"UNDO", "REDO"}, NEW i \in Cells,
           LET w == LogWrite(e, lo, n, data, blk, p)
           IN  w.offset <= i /\ i < w.offset + w.len
    PROVE  LogWrite(e, lo, n, data, blk, p).log[i] =
               IF lo <= i /\ i < lo + n THEN data[i]
               ELSE IF e.offset <= i /\ i < e.offset + e.len THEN e.log[i]
               ELSE blk[i]
<1>1. data \in [Cells -> Val \cup {Junk}] /\ blk \in [Cells -> Val \cup {Junk}]
  OBVIOUS
<1>2. InBlock(e, 0 .. EpochMod - 1, Val \cup {Junk})
  BY InRange
<1> QED
  BY <1>1, <1>2, WriteCell

\* The interval in use covers the write and what was in use before.
LEMMA LogWriteCovers ==
    ASSUME NEW e, Bounded(e), NEW lo \in Int, NEW n \in Int, Interval(lo, lo + n),
           NEW data \in [Cells -> Val], NEW blk \in [Cells -> Val],
           NEW p \in {"UNDO", "REDO"}, NEW i \in Cells,
           LET w == LogWrite(e, lo, n, data, blk, p)
           IN  ~(w.offset <= i /\ i < w.offset + w.len)
    PROVE  ~(lo <= i /\ i < lo + n) /\ ~(e.offset <= i /\ i < e.offset + e.len)
<1>1. data \in [Cells -> Val \cup {Junk}] /\ blk \in [Cells -> Val \cup {Junk}]
  OBVIOUS
<1>2. InBlock(e, 0 .. EpochMod - 1, Val \cup {Junk})
  BY InRange
<1> QED
  BY <1>1, <1>2, WriteCovers

\* Redo logging: laid over the file, the log after a write shows the block
\* before it with the written cells replaced.
LEMMA RedoOverlay ==
    ASSUME NEW e, Bounded(e), NEW lo \in Int, NEW n \in Int, Interval(lo, lo + n),
           NEW data \in [Cells -> Val], NEW blk \in [Cells -> Val],
           NEW p \in {"UNDO", "REDO"}
    PROVE  Overlay(blk, LogWrite(e, lo, n, data, blk, p))
               = Store(Overlay(blk, e), lo, lo + n, data)
<1> DEFINE w == LogWrite(e, lo, n, data, blk, p)
<1>1. \A i \in Cells : w.offset <= i /\ i < w.offset + w.len =>
          w.log[i] = IF lo <= i /\ i < lo + n THEN data[i]
                     ELSE IF e.offset <= i /\ i < e.offset + e.len THEN e.log[i]
                     ELSE blk[i]
  BY LogWriteCell
<1>3. \A i \in Cells : ~(w.offset <= i /\ i < w.offset + w.len) =>
          ~(lo <= i /\ i < lo + n) /\ ~(e.offset <= i /\ i < e.offset + e.len)
  BY LogWriteCovers
<1> HIDE DEF w
<1>4. Overlay(blk, w) = Store(Overlay(blk, e), lo, lo + n, data)
  BY <1>1, <1>3 DEF Overlay, Store
<1> QED
  BY <1>4 DEF w

LEMMA OverlayType ==
    ASSUME NEW e, Bounded(e), NEW blk \in [Cells -> Val],
           \A i \in e.offset .. e.offset + e.len - 1 : e.log[i] # Junk
    PROVE  Overlay(blk, e) \in [Cells -> Val]
<1>1. /\ e.offset \in 0 .. LogSize /\ e.len \in 0 .. LogSize
      /\ e.log \in [Cells -> Val \cup {Junk}]
  BY EntryFields DEF Bounded
<1>2. \A i \in Cells : e.offset <= i /\ i < e.offset + e.len => e.log[i] \in Val
  <2> SUFFICES ASSUME NEW i \in Cells, e.offset <= i, i < e.offset + e.len
               PROVE  e.log[i] \in Val
    OBVIOUS
  <2>1. i \in e.offset .. e.offset + e.len - 1
    BY <1>1 DEF Cells
  <2>2. e.log[i] \in Val \cup {Junk}
    BY <1>1
  <2> QED
    BY <2>1, <2>2
<1> QED
  BY <1>2 DEF Overlay, Store

LEMMA EmptyOverlay ==
    ASSUME NEW e, Bounded(e), e.len = 0, NEW blk \in [Cells -> Val]
    PROVE  Overlay(blk, e) = blk
<1>1. e.offset \in 0 .. LogSize
  BY EntryFields DEF Bounded
<1> QED
  BY <1>1 DEF Overlay, Store, Cells

-----------------------------------------------------------------------------
(* The inductive invariant.                                                 *)

\* The epoch never outgrows the 20 bits an entry has for it.
NoWrap == MaxEpoch < EpochMod

\* What redo and undo logging have in common.  An entry's epoch is not in
\* the future, and its log is what LogFilled says.
LogInv == /\ TypeOK
          /\ LogFilled
          /\ entry # NULL => entry.epoch <= epoch

LEMMA EpochFits == ASSUME NoWrap, TypeOK PROVE Epoch20 = epoch /\ epoch \in Nat
BY LogEntryAssumption DEF NoWrap, TypeOK, Epoch20

\* The entry mmio_write works on, whether found or new, and after a
\* checkpoint_entry.
LEMMA EntryAtHand ==
    ASSUME NoWrap, LogInv
    PROVE  LET e0 == get_log_entry
               e1 == IF Committed(e0) THEN Renewed(e0) ELSE e0
           IN  /\ Bounded(e0) /\ Bounded(e1)
               /\ e0.len > 0 => e0.policy = Policy /\ entry = e0
               /\ e1.len > 0 => e1.policy = Policy /\ e1 = e0
               /\ Committed(e0) => e1.len = 0 /\ e0 = entry /\ entry # NULL
               /\ e1.epoch = epoch
               /\ entry = NULL => e0.len = 0
               /\ entry # NULL => e0 = entry
               /\ \A i \in e0.offset .. e0.offset + e0.len - 1 : e0.log[i] # Junk
<1> DEFINE e0 == get_log_entry
           e1 == IF Committed(e0) THEN Renewed(e0) ELSE e0
<1>0. Epoch20 = epoch /\ epoch \in Nat /\ epoch \in 0 .. EpochMod - 1
  BY EpochFits, LogEntryAssumption DEF LogInv, TypeOK, NoWrap
<1>1. Bounded(NewEntry) /\ NewEntry.len = 0 /\ NewEntry.epoch = epoch /\ NewEntry.offset = 0
  BY <1>0, LogSizeAssumption DEF NewEntry, Bounded, Entries
<1>2. CASE entry = NULL
  <2>1. e0 = NewEntry /\ ~Committed(e0) /\ e1 = NewEntry
    BY <1>0, <1>1, <1>2 DEF get_log_entry, Committed
  <2> HIDE DEF e0, e1
  <2>2. \A i \in e0.offset .. e0.offset + e0.len - 1 : e0.log[i] # Junk
    BY <1>1, <2>1
  <2> QED
    BY <1>0, <1>1, <1>2, <2>1, <2>2 DEF e0, e1
<1>3. CASE entry # NULL
  <2>1. e0 = entry /\ Bounded(entry)
    BY <1>3 DEF get_log_entry, Bounded, LogInv, TypeOK, LogFilled
  <2>2. /\ entry.len > 0 => entry.policy = Policy
        /\ \A i \in entry.offset .. entry.offset + entry.len - 1 : entry.log[i] # Junk
        /\ entry.epoch <= epoch /\ entry.epoch \in 0 .. EpochMod - 1
    BY <1>3, <2>1, EntryFields DEF LogInv, LogFilled, Bounded
  <2>3. CASE Committed(entry)
    <3>1. e1 = Renewed(entry)
      BY <2>1, <2>3
    <3>2. Bounded(Renewed(entry)) /\ Renewed(entry).len = 0 /\ Renewed(entry).epoch = epoch
      <4>1. entry \in Entries /\ Policy \in {"UNDO", "REDO"} /\ 0 \in 0 .. LogSize
        BY <2>1, LogSizeAssumption, LogEntryAssumption DEF Bounded
      <4>2. /\ Renewed(entry) \in Entries /\ Renewed(entry).epoch = epoch
            /\ Renewed(entry).len = 0 /\ Renewed(entry).offset = 0
        BY ONLY <1>0, <4>1 DEF Renewed, Entries
      <4> QED
        BY <4>2, LogSizeAssumption DEF Bounded
    <3> HIDE DEF e0, e1
    <3> QED
      BY <1>3, <2>1, <2>2, <3>1, <3>2 DEF e0, e1
  <2>4. CASE ~Committed(entry)
    <3>1. e1 = entry
      BY <2>1, <2>4
    <3>2. entry.epoch = epoch
      BY <1>0, <2>2, <2>4 DEF Committed
    <3> HIDE DEF e0, e1
    <3> QED
      BY <1>3, <2>1, <2>2, <2>4, <3>1, <3>2 DEF e0, e1
  <2> QED
    BY <2>3, <2>4
<1> QED
  BY <1>2, <1>3

LEMMA RequestFacts ==
    ASSUME NEW r \in Requests
    PROVE  /\ r.lo \in Int /\ r.n \in Int /\ Interval(r.lo, r.lo + r.n)
           /\ r.data \in [Cells -> Val]
           /\ r.lo .. r.lo + r.n - 1 \subseteq Cells
<1>1. /\ r.lo \in 0 .. LogSize - 1 /\ r.n \in 1 .. LogSize
      /\ r.data \in [Cells -> Val] /\ r.lo + r.n <= LogSize
  BY LogEntryAssumption DEF Cells
<1> QED
  BY <1>1, LogSizeAssumption DEF Interval, Cells

\* Entry and file as a write finds them (after a checkpoint_entry, if it
\* has to make one) and as it leaves them.
E1 == IF Committed(get_log_entry) THEN Renewed(get_log_entry) ELSE get_log_entry
F1 == IF Committed(get_log_entry) THEN Applied(get_log_entry) ELSE file

LEMMA FileAtHand ==
    ASSUME NoWrap, LogInv
    PROVE  F1 \in [Cells -> Val]
<1>1. /\ Bounded(get_log_entry)
      /\ \A i \in get_log_entry.offset .. get_log_entry.offset + get_log_entry.len - 1 :
            get_log_entry.log[i] # Junk
  BY EntryAtHand
<1>2. file \in [Cells -> Val]
  BY DEF LogInv, TypeOK
<1>3. Overlay(file, get_log_entry) \in [Cells -> Val]
  BY <1>1, <1>2, OverlayType
<1> QED
  BY <1>2, <1>3 DEF F1, Applied

LEMMA WriteStep ==
    ASSUME NoWrap, LogInv, NEW r \in Requests, Write(r)
    PROVE  LET data == IF Policy = "UNDO" THEN F1 ELSE r.data
           IN  /\ data \in [Cells -> Val]
               /\ entry' = LogWrite(E1, r.lo, r.n, data, F1, Policy)
               /\ file' = IF Policy = "UNDO"
                          THEN Store(F1, r.lo, r.lo + r.n, r.data) ELSE F1
               /\ Bounded(entry') /\ entry' # NULL
               /\ entry'.policy = Policy /\ entry'.len > 0
               /\ entry'.epoch = epoch /\ epoch' = epoch
               /\ \A i \in Cells :
                    entry'.offset <= i /\ i < entry'.offset + entry'.len =>
                        entry'.log[i] = IF r.lo <= i /\ i < r.lo + r.n THEN data[i]
                                        ELSE IF E1.offset <= i /\ i < E1.offset + E1.len
                                        THEN E1.log[i] ELSE F1[i]
<1> DEFINE data == IF Policy = "UNDO" THEN F1 ELSE r.data
<1>1. /\ r.lo \in Int /\ r.n \in Int /\ Interval(r.lo, r.lo + r.n)
      /\ r.data \in [Cells -> Val]
  BY RequestFacts
<1>2. F1 \in [Cells -> Val] /\ data \in [Cells -> Val]
  BY <1>1, FileAtHand
<1>3. Bounded(E1) /\ E1.epoch = epoch /\ (E1.len > 0 => E1.policy = Policy)
  BY EntryAtHand DEF E1
<1>4. /\ entry' = LogWrite(E1, r.lo, r.n, data, F1, Policy)
      /\ file' = IF Policy = "UNDO"
                 THEN Store(F1, r.lo, r.lo + r.n, r.data) ELSE F1
      /\ epoch' = epoch
  BY DEF Write, E1, F1
<1>5. Policy \in {"UNDO", "REDO"}
  BY LogEntryAssumption
<1> HIDE DEF data
<1>6. /\ Bounded(entry') /\ entry'.len > 0 /\ entry'.epoch = epoch
      /\ entry'.policy = Policy
  BY <1>1, <1>2, <1>3, <1>4, <1>5, LogWriteFields
<1>7. entry' # NULL
  BY <1>6, LogEntryAssumption DEF Bounded
<1>8. ASSUME NEW i \in Cells, entry'.offset <= i, i < entry'.offset + entry'.len
      PROVE  entry'.log[i] = IF r.lo <= i /\ i < r.lo + r.n THEN data[i]
                             ELSE IF E1.offset <= i /\ i < E1.offset + E1.len
                             THEN E1.log[i] ELSE F1[i]
  BY <1>1, <1>2, <1>3, <1>4, <1>5, <1>8, LogWriteCell
<1> QED
  BY <1>2, <1>4, <1>6, <1>7, <1>8 DEF data

LEMMA LogInvStep ==
    ASSUME NoWrap, LogInv, [Next]_vars
    PROVE  LogInv'
<1>0. epoch \in Nat /\ MaxEpoch \in Nat /\ file \in [Cells -> Val] /\ dirty \subseteq Cells
  BY EpochFits, LogEntryAssumption DEF LogInv, TypeOK
<1>1. CASE UNCHANGED vars
  BY <1>1 DEF vars, LogInv, TypeOK, LogFilled
<1>2. CASE Commit
  <2>1. epoch' \in 0 .. MaxEpoch /\ epoch' = epoch + 1
    BY <1>0, <1>2 DEF Commit
  <2>2. entry # NULL => entry.epoch \in Int
    BY EntryFields DEF LogInv, TypeOK
  <2> QED
    BY <1>0, <1>2, <2>1, <2>2 DEF Commit, LogInv, TypeOK, LogFilled
<1>3. CASE Checkpoint
  <2>1. Bounded(entry) /\ \A i \in entry.offset .. entry.offset + entry.len - 1 : entry.log[i] # Junk
    BY <1>3 DEF Checkpoint, Bounded, LogInv, LogFilled, TypeOK
  <2>2. Applied(entry) \in [Cells -> Val]
    BY <1>0, <2>1, OverlayType DEF Applied
  <2> QED
    BY <1>3, <2>2 DEF Checkpoint, LogInv, TypeOK, LogFilled
<1>4. CASE Read
  <2>1. /\ Bounded(get_log_entry)
        /\ get_log_entry.len > 0 => get_log_entry.policy = Policy
        /\ \A i \in get_log_entry.offset .. get_log_entry.offset + get_log_entry.len - 1 :
               get_log_entry.log[i] # Junk
    BY EntryAtHand
  <2>2. get_log_entry.epoch <= epoch
    BY <1>0, EntryAtHand DEF Committed, LogInv
  <2> QED
    BY <1>4, <2>1, <2>2 DEF Read, LogInv, TypeOK, LogFilled, Bounded
<1>5. ASSUME NEW r \in Requests, Write(r)
      PROVE  LogInv'
  <2> DEFINE data == IF Policy = "UNDO" THEN F1 ELSE r.data
  <2>1. /\ data \in [Cells -> Val]
        /\ file' = IF Policy = "UNDO" THEN Store(F1, r.lo, r.lo + r.n, r.data) ELSE F1
        /\ Bounded(entry') /\ entry' # NULL
        /\ entry'.policy = Policy /\ entry'.epoch = epoch /\ epoch' = epoch
        /\ \A i \in Cells :
              entry'.offset <= i /\ i < entry'.offset + entry'.len =>
                  entry'.log[i] = IF r.lo <= i /\ i < r.lo + r.n THEN data[i]
                                  ELSE IF E1.offset <= i /\ i < E1.offset + E1.len
                                  THEN E1.log[i] ELSE F1[i]
    BY <1>5, WriteStep
  <2>2. F1 \in [Cells -> Val] /\ r.data \in [Cells -> Val]
    BY FileAtHand, RequestFacts
  <2>3. file' \in [Cells -> Val]
    BY <2>1, <2>2 DEF Store
  <2>4. dirty' \subseteq Cells
    BY <1>0, <1>5, RequestFacts DEF Write
  <2>5. entry' \in Entries /\ entry'.offset + entry'.len <= LogSize
    BY <2>1 DEF Bounded
  <2>6. /\ entry'.offset \in 0 .. LogSize /\ entry'.len \in 0 .. LogSize
    BY <2>5, EntryFields
  <2>7. /\ Bounded(E1)
        /\ \A j \in E1.offset .. E1.offset + E1.len - 1 : E1.log[j] # Junk
    <3>1. /\ Bounded(E1) /\ Bounded(get_log_entry)
          /\ E1.len > 0 => E1 = get_log_entry
          /\ \A j \in get_log_entry.offset .. get_log_entry.offset + get_log_entry.len - 1 :
                get_log_entry.log[j] # Junk
      BY EntryAtHand DEF E1
    <3>2. E1.offset \in Int /\ E1.len \in Nat
      BY <3>1, EntryFields DEF Bounded
    <3> QED
      BY <3>1, <3>2
  <2>8. ASSUME NEW i \in entry'.offset .. entry'.offset + entry'.len - 1
        PROVE  entry'.log[i] # Junk
    <3> HIDE DEF data
    <3>1. i \in Cells /\ entry'.offset <= i /\ i < entry'.offset + entry'.len
      BY <2>5, <2>6, <2>8, LogSizeAssumption DEF Cells
    <3>2. data[i] \in Val /\ F1[i] \in Val
      BY <2>1, <2>2, <3>1
    <3>3. E1.offset <= i /\ i < E1.offset + E1.len => E1.log[i] # Junk
      <4>1. E1.offset \in Int /\ E1.len \in Int /\ i \in Int
        BY <2>7, <3>1, EntryFields DEF Bounded, Cells
      <4> QED
        BY <2>7, <4>1
    <3> QED
      BY <2>1, <3>1, <3>2, <3>3, LogEntryAssumption
  <2>9. epoch' \in 0 .. MaxEpoch /\ entry'.epoch <= epoch'
    BY <1>0, <2>1 DEF LogInv, TypeOK
  <2> QED
    BY <2>1, <2>3, <2>4, <2>5, <2>8, <2>9 DEF LogInv, TypeOK, LogFilled
<1> QED
  BY <1>1, <1>2, <1>3, <1>4, <1>5 DEF Next

LEMMA InitLogInv == Init => LogInv
BY LogEntryAssumption DEF Init, LogInv, TypeOK, LogFilled

\* Every variable has its type and no uninitialised log memory gets into the
\* file, for every block size, policy and sequence of writes, commits and
\* checkpoints, as long as the epoch fits its bit-field.
THEOREM TypeCorrect ==
    ASSUME NoWrap
    PROVE  Spec => []TypeOK
<1>1. NoWrap /\ LogInv /\ [Next]_vars => LogInv'
  BY LogInvStep
<1>2. LogInv => TypeOK
  BY DEF LogInv
<1> QED
  BY InitLogInv, <1>1, <1>2, PTL DEF Spec

\* For every block size, policy and sequence of overwrites the log in use
\* stays inside its block and is filled without gaps.
THEOREM LogsFilled ==
    ASSUME NoWrap
    PROVE  Spec => []LogFilled
<1>1. NoWrap /\ LogInv /\ [Next]_vars => LogInv'
  BY LogInvStep
<1>2. LogInv => LogFilled
  BY DEF LogInv
<1> QED
  BY InitLogInv, <1>1, <1>2, PTL DEF Spec

-----------------------------------------------------------------------------
(* Redo logging is failure-atomic.                                          *)

\* Under redo logging a crash leaves the file as the next write finds it,
\* and a reader sees the pending log laid over that.
LEMMA RedoView ==
    ASSUME NoWrap, LogInv, Policy = "REDO"
    PROVE  View = Overlay(F1, E1) /\ Recovered = F1 /\ View \in [Cells -> Val]
<1> DEFINE e0 == get_log_entry
<1>1. /\ Bounded(e0) /\ Bounded(E1)
      /\ e0.len > 0 => e0.policy = "REDO"
      /\ Committed(e0) => E1.len = 0 /\ e0 = entry /\ entry # NULL
      /\ entry = NULL => e0.len = 0
      /\ entry # NULL => e0 = entry
      /\ \A i \in e0.offset .. e0.offset + e0.len - 1 : e0.log[i] # Junk
      /\ ~Committed(e0) => E1 = e0
  BY EntryAtHand DEF E1
<1>2. file \in [Cells -> Val] /\ F1 \in [Cells -> Val]
  BY FileAtHand DEF LogInv, TypeOK
<1>3. e0.len \in Nat /\ e0.policy \in {"UNDO", "REDO"}
  BY <1>1, EntryFields DEF Bounded
<1>4. e0.len = 0 => Overlay(file, e0) = file
  BY <1>1, <1>2, EmptyOverlay
<1>5. Applied(e0) = Overlay(file, e0)
  BY <1>1, <1>3, <1>4 DEF Applied
<1>6. View = Overlay(file, e0)
  BY <1>1, <1>4 DEF View
<1>7. Overlay(F1, E1) = Overlay(file, e0)
  <2>1. CASE Committed(e0)
    BY <2>1, <1>1, <1>2, <1>5, EmptyOverlay DEF F1
  <2>2. CASE ~Committed(e0)
    BY <2>2, <1>1 DEF F1
  <2> QED
    BY <2>1, <2>2
<1>8. Recovered = F1
  <2>1. CASE entry = NULL
    BY <2>1, <1>1 DEF Recovered, F1
  <2>2. CASE entry # NULL
    <3>1. e0 = entry
      BY <1>1, <2>2
    <3>2. CASE entry.policy = "REDO"
      BY <2>2, <3>1, <3>2 DEF Recovered, F1, Applied, Committed
    <3>3. CASE entry.policy # "REDO"
      BY <1>1, <1>3, <1>4, <3>1, <3>3 DEF Recovered, F1, Applied
    <3> QED
      BY <3>2, <3>3
  <2> QED
    BY <2>1, <2>2
<1>9. Overlay(file, e0) \in [Cells -> Val]
  BY <1>1, <1>2, OverlayType
<1> QED
  BY <1>6, <1>7, <1>8, <1>9

\* The cells from lo to lo + n - 1, in the two forms the modules use.
LEMMA StoreIs ==
    ASSUME NEW b \in [Cells -> Val], NEW lo \in Int, NEW n \in Int, NEW d
    PROVE  Store(b, lo, lo + n, d) =
             [i \in Cells |-> IF i \in lo .. lo + n - 1 THEN d[i] ELSE b[i]]
<1>1. \A i \in Cells : i \in lo .. lo + n - 1 <=> lo <= i /\ i < lo + n
  BY DEF Cells
<1> QED
  BY <1>1 DEF Store

LEMMA RedoWrite ==
    ASSUME NoWrap, LogInv, LogInv', Policy = "REDO", NEW r \in Requests, Write(r)
    PROVE  Block!Write(r)
<1>1. /\ entry' = LogWrite(E1, r.lo, r.n, r.data, F1, "REDO")
      /\ file' = F1 /\ entry' # NULL /\ entry'.policy = "REDO"
      /\ entry'.epoch = epoch /\ epoch' = epoch /\ epoch \in Nat
  BY WriteStep, EpochFits DEF LogInv
<1>2. View' = Overlay(F1, entry')
  BY <1>1 DEF View
<1>3. Bounded(E1)
  BY EntryAtHand DEF E1
<1>4. /\ r.lo \in Int /\ r.n \in Int /\ Interval(r.lo, r.lo + r.n)
      /\ r.data \in [Cells -> Val] /\ F1 \in [Cells -> Val]
  BY RequestFacts, FileAtHand
<1>5. View' = Store(Overlay(F1, E1), r.lo, r.lo + r.n, r.data)
  BY <1>1, <1>2, <1>3, <1>4, RedoOverlay
<1>6. View = Overlay(F1, E1) /\ Recovered = F1 /\ View \in [Cells -> Val]
  BY RedoView
<1>7. Recovered' = F1
  BY <1>1 DEF Recovered, Committed
<1>8. View' = [i \in Cells |-> IF i \in r.lo .. r.lo + r.n - 1 THEN r.data[i] ELSE View[i]]
  <2>1. PICK v : v = View
    OBVIOUS
  <2>2. v \in [Cells -> Val] /\ View' = Store(v, r.lo, r.lo + r.n, r.data)
    BY <1>5, <1>6, <2>1
  <2>3. View' = [i \in Cells |-> IF i \in r.lo .. r.lo + r.n - 1 THEN r.data[i] ELSE v[i]]
    BY <1>4, <2>2, StoreIs
  <2> QED
    BY <2>1, <2>3
<1>9. dirty' = dirty \cup (r.lo .. r.lo + r.n - 1)
  BY DEF Write
<1> QED
  BY <1>1, <1>6, <1>7, <1>8, <1>9 DEF Block!Write, Block!Touched

LEMMA RedoStep ==
    ASSUME NoWrap, Policy = "REDO", LogInv, [Next]_vars
    PROVE  [Block!Next]_<<View, dirty, Recovered, epoch>>
<1>0. LogInv'
  BY LogInvStep
<1> DEFINE e0 == get_log_entry
<1>a. View = Overlay(F1, E1) /\ Recovered = F1
  BY RedoView
<1>b. /\ file \in [Cells -> Val] /\ epoch \in Nat
      /\ entry # NULL => /\ Bounded(entry) /\ entry.epoch <= epoch /\ entry.epoch \in Int
                         /\ entry.len > 0 => entry.policy = "REDO"
                         /\ entry.len \in Nat /\ entry.policy \in {"UNDO", "REDO"}
  BY EpochFits, EntryFields DEF LogInv, TypeOK, LogFilled, Bounded
<1>c. entry # NULL /\ entry.policy # "REDO" => Overlay(file, entry) = file
  BY <1>b, EmptyOverlay
<1>1. CASE UNCHANGED vars
  BY <1>1 DEF vars, View, Recovered, Committed
<1>2. CASE Commit
  <2>1. UNCHANGED <<file, entry>> /\ epoch' = epoch + 1 /\ dirty' = {}
    BY <1>2 DEF Commit
  <2>2. View' = View
    BY <2>1 DEF View
  <2>3. Recovered' = View
    BY <1>b, <1>c, <2>1 DEF Recovered, View, Committed
  <2> QED
    BY <2>1, <2>2, <2>3 DEF Block!Next, Block!Commit
<1>3. CASE Checkpoint
  <2>1. /\ entry # NULL /\ Committed(entry) /\ file' = Applied(entry) /\ entry' = NULL
        /\ UNCHANGED <<epoch, dirty>>
    BY <1>3 DEF Checkpoint
  <2>2. View' = View
    BY <1>c, <2>1 DEF View, Applied
  <2>3. Recovered' = Recovered
    BY <1>c, <2>1 DEF Recovered, Applied, Committed
  <2> QED
    BY <2>1, <2>2, <2>3
<1>4. CASE Read
  <2>1. entry' = e0 /\ UNCHANGED <<file, epoch, dirty>>
    BY <1>4 DEF Read
  <2>2. CASE entry # NULL
    BY <2>1, <2>2 DEF get_log_entry, View, Recovered, Committed
  <2>3. CASE entry = NULL
    <3>1. Bounded(e0) /\ e0.len = 0
      BY <2>3, EntryAtHand
    <3>2. Overlay(file, e0) = file
      BY <1>b, <3>1, EmptyOverlay
    <3> HIDE DEF e0
    <3> QED
      BY <2>1, <2>3, <3>2 DEF View, Recovered
  <2> QED
    BY <2>2, <2>3
<1>5. ASSUME NEW r \in Requests, Write(r)
      PROVE  Block!Next
  BY <1>0, <1>5, RedoWrite DEF Block!Next
<1> QED
  BY <1>1, <1>2, <1>3, <1>4, <1>5 DEF Next

\* Redo logging implements the failure-atomic block: for every block size
\* and every sequence of writes, overwrites, commits and checkpoints within
\* the epochs an entry can tell apart, readers see exactly the writes and a
\* crash leaves exactly the last commit.
THEOREM RedoFailureAtomic ==
    ASSUME NoWrap, Policy = "REDO"
    PROVE  Spec => FailureAtomic
<1>1. Init => Block!Init
  BY DEF Init, Block!Init, View, Recovered
<1>2. NoWrap /\ Policy = "REDO" /\ LogInv /\ [Next]_vars
         => [Block!Next]_<<View, dirty, Recovered, epoch>>
  BY RedoStep
<1>3. NoWrap /\ LogInv /\ [Next]_vars => LogInv'
  BY LogInvStep
<1> QED
  BY InitLogInv, <1>1, <1>2, <1>3, PTL DEF Spec, FailureAtomic, Block!Spec, Block!vars

-----------------------------------------------------------------------------
(* Undo logging is failure-atomic if no cell is written twice per epoch.    *)

\* A cell in the log that was not written in this epoch (it filled a gap)
\* still has its value in the file.
UndoInv == entry # NULL /\ ~Committed(entry) =>
              \A i \in Cells \ dirty :
                 entry.offset <= i /\ i < entry.offset + entry.len =>
                     entry.log[i] = file[i]

LEMMA UndoView ==
    ASSUME NoWrap, LogInv, Policy = "UNDO"
    PROVE  View = file /\ F1 = file /\ Recovered = Overlay(file, E1)
<1> DEFINE e0 == get_log_entry
<1>1. /\ Bounded(e0) /\ Bounded(E1)
      /\ e0.len > 0 => e0.policy = "UNDO"
      /\ Committed(e0) => E1.len = 0 /\ e0 = entry /\ entry # NULL
      /\ entry = NULL => e0.len = 0
      /\ entry # NULL => e0 = entry
      /\ ~Committed(e0) => E1 = e0
  BY EntryAtHand DEF E1
<1>2. file \in [Cells -> Val]
  BY DEF LogInv, TypeOK
<1>3. e0.len \in Nat /\ e0.policy \in {"UNDO", "REDO"}
  BY <1>1, EntryFields DEF Bounded
<1>4. e0.len = 0 => Overlay(file, e0) = file
  BY <1>1, <1>2, EmptyOverlay
<1>5. Applied(e0) = file
  BY <1>1, <1>3, <1>4 DEF Applied
<1>6. View = file
  BY DEF View
<1>7. F1 = file
  BY <1>5 DEF F1
<1>8. E1.len = 0 => Overlay(file, E1) = file
  BY <1>1, <1>2, EmptyOverlay
<1>9. Recovered = Overlay(file, E1)
  <2>1. CASE entry = NULL
    BY <2>1, <1>1, <1>4 DEF Recovered
  <2>2. CASE entry # NULL /\ Committed(entry)
    BY <2>2, <1>1, <1>3, <1>4, <1>8 DEF Recovered, Committed
  <2>3. CASE entry # NULL /\ ~Committed(entry)
    BY <2>3, <1>1, <1>3, <1>4 DEF Recovered, Committed
  <2> QED
    BY <2>1, <2>2, <2>3
<1> QED
  BY <1>6, <1>7, <1>9

\* The cells a write finds logged but not written in this epoch.
LEMMA UndoAtHand ==
    ASSUME NoWrap, LogInv, UndoInv, NEW i \in Cells \ dirty,
           E1.offset <= i, i < E1.offset + E1.len
    PROVE  E1.log[i] = file[i]
<1>1. /\ Committed(get_log_entry) => E1.len = 0
      /\ E1.len > 0 => E1 = get_log_entry
      /\ entry = NULL => get_log_entry.len = 0
      /\ entry # NULL => get_log_entry = entry
      /\ Bounded(E1)
  BY EntryAtHand DEF E1
<1>2. E1.len \in Nat /\ E1.offset \in Nat /\ i \in Int
  BY <1>1, EntryFields DEF Bounded, Cells
<1>3. E1.len > 0 /\ E1.len # 0
  BY <1>2
<1>4. entry # NULL /\ E1 = entry /\ ~Committed(entry)
  BY <1>1, <1>3
<1> QED
  BY <1>4 DEF UndoInv

LEMMA UndoWrite ==
    ASSUME NoWrap, LogInv, LogInv', UndoInv, Policy = "UNDO", ~Rewrites,
           NEW r \in Requests, Write(r)
    PROVE  Block!Write(r) /\ UndoInv'
<1>1. /\ entry' = LogWrite(E1, r.lo, r.n, F1, F1, "UNDO")
      /\ file' = Store(F1, r.lo, r.lo + r.n, r.data)
      /\ entry' # NULL /\ entry'.policy = "UNDO"
      /\ entry'.epoch = epoch /\ epoch' = epoch /\ epoch \in Nat
      /\ \A i \in Cells :
           entry'.offset <= i /\ i < entry'.offset + entry'.len =>
               entry'.log[i] = IF r.lo <= i /\ i < r.lo + r.n THEN F1[i]
                               ELSE IF E1.offset <= i /\ i < E1.offset + E1.len
                               THEN E1.log[i] ELSE F1[i]
  BY WriteStep, EpochFits DEF LogInv
<1>2. View = file /\ F1 = file /\ Recovered = Overlay(file, E1)
  BY UndoView
<1>3. Bounded(E1)
  BY EntryAtHand DEF E1
<1>4. /\ r.lo \in Int /\ r.n \in Int /\ Interval(r.lo, r.lo + r.n)
      /\ r.data \in [Cells -> Val] /\ F1 \in [Cells -> Val]
      /\ file \in [Cells -> Val]
  BY <1>2, RequestFacts, FileAtHand
<1>5. \A i \in Cells : ~(entry'.offset <= i /\ i < entry'.offset + entry'.len) =>
          ~(r.lo <= i /\ i < r.lo + r.n) /\ ~(E1.offset <= i /\ i < E1.offset + E1.len)
  BY <1>1, <1>3, <1>4, LogWriteCovers
<1>6. \A i \in Cells : r.lo <= i /\ i < r.lo + r.n => i \notin dirty /\ i \in dirty'
  BY <1>4 DEF Write, Cells
<1>7. \A i \in Cells \ dirty : E1.offset <= i /\ i < E1.offset + E1.len => E1.log[i] = file[i]
  BY UndoAtHand
<1>8. Recovered' = Overlay(file', entry')
  BY <1>1 DEF Recovered, Committed
<1>9. Overlay(file', entry') = Overlay(file, E1)
  BY <1>1, <1>2, <1>4, <1>5, <1>6, <1>7 DEF Overlay, Store
<1>10. View' = [i \in Cells |-> IF i \in r.lo .. r.lo + r.n - 1 THEN r.data[i] ELSE View[i]]
  <2>1. View' = file'
    BY <1>1 DEF View
  <2>2. Store(file, r.lo, r.lo + r.n, r.data) =
          [i \in Cells |-> IF i \in r.lo .. r.lo + r.n - 1 THEN r.data[i] ELSE file[i]]
    BY <1>4, StoreIs
  <2> QED
    BY <1>1, <1>2, <2>1, <2>2
<1>11. UndoInv'
  <2> SUFFICES ASSUME NEW i \in Cells, i \notin dirty',
                      entry'.offset <= i, i < entry'.offset + entry'.len
               PROVE  entry'.log[i] = file'[i]
    BY DEF UndoInv
  <2>1. i \notin dirty /\ ~(r.lo <= i /\ i < r.lo + r.n)
    BY <1>6 DEF Write
  <2>2. file'[i] = file[i]
    BY <1>1, <1>2, <1>4, <2>1 DEF Store
  <2> QED
    BY <1>1, <1>2, <1>7, <2>1, <2>2
<1>12. dirty' = dirty \cup (r.lo .. r.lo + r.n - 1)
  BY DEF Write
<1> QED
  BY <1>1, <1>2, <1>8, <1>9, <1>10, <1>11, <1>12 DEF Block!Write, Block!Touched

LEMMA UndoStep ==
    ASSUME NoWrap, Policy = "UNDO", ~Rewrites, LogInv, UndoInv, [Next]_vars
    PROVE  [Block!Next]_<<View, dirty, Recovered, epoch>> /\ UndoInv'
<1>0. LogInv'
  BY LogInvStep
<1> DEFINE e0 == get_log_entry
<1>b. /\ file \in [Cells -> Val] /\ epoch \in Nat
      /\ entry # NULL => /\ Bounded(entry) /\ entry.epoch <= epoch /\ entry.epoch \in Int
                         /\ entry.len > 0 => entry.policy = "UNDO"
                         /\ entry.len \in Nat /\ entry.policy \in {"UNDO", "REDO"}
  BY EpochFits, EntryFields DEF LogInv, TypeOK, LogFilled, Bounded
<1>c. entry # NULL /\ entry.policy # "UNDO" => Overlay(file, entry) = file
  BY <1>b, EmptyOverlay
<1>1. CASE UNCHANGED vars
  BY <1>1 DEF vars, View, Recovered, Committed, UndoInv
<1>2. CASE Commit
  <2>1. UNCHANGED <<file, entry>> /\ epoch' = epoch + 1 /\ dirty' = {}
    BY <1>2 DEF Commit
  <2>2. View' = View /\ View = file
    BY <2>1 DEF View
  <2>3. Recovered' = file
    BY <1>b, <1>c, <2>1 DEF Recovered, Committed
  <2>4. UndoInv'
    BY <1>b, <2>1 DEF UndoInv, Committed
  <2> QED
    BY <2>1, <2>2, <2>3, <2>4 DEF Block!Next, Block!Commit
<1>3. CASE Checkpoint
  <2>1. /\ entry # NULL /\ Committed(entry) /\ file' = Applied(entry) /\ entry' = NULL
        /\ UNCHANGED <<epoch, dirty>>
    BY <1>3 DEF Checkpoint
  <2>2. file' = file
    BY <1>b, <1>c, <2>1 DEF Applied
  <2>3. View' = View /\ Recovered' = Recovered
    BY <1>b, <1>c, <2>1, <2>2 DEF View, Recovered, Committed
  <2>4. UndoInv'
    BY <2>1 DEF UndoInv
  <2> QED
    BY <2>1, <2>3, <2>4
<1>4. CASE Read
  <2>1. entry' = e0 /\ UNCHANGED <<file, epoch, dirty>>
    BY <1>4 DEF Read
  <2>2. CASE entry # NULL
    BY <2>1, <2>2 DEF get_log_entry, View, Recovered, Committed, UndoInv
  <2>3. CASE entry = NULL
    <3>1. Bounded(e0) /\ e0.len = 0 /\ e0.offset \in Nat
      BY <2>3, EntryAtHand, EntryFields DEF Bounded
    <3>2. Overlay(file, e0) = file
      BY <1>b, <3>1, EmptyOverlay
    <3> HIDE DEF e0
    <3>3. View' = View /\ Recovered' = Recovered
      BY <2>1, <2>3, <3>2 DEF View, Recovered
    <3>4. UndoInv'
      BY <2>1, <3>1 DEF UndoInv, Cells
    <3> QED
      BY <2>1, <3>3, <3>4
  <2> QED
    BY <2>2, <2>3
<1>5. ASSUME NEW r \in Requests, Write(r)
      PROVE  Block!Next /\ UndoInv'
  BY <1>0, <1>5, UndoWrite DEF Block!Next
<1> QED
  BY <1>1, <1>2, <1>3, <1>4, <1>5 DEF Next

\* Undo logging implements the failure-atomic block for every block size, if
\* clients write no cell twice between two fsyncs.  Without that proviso it
\* does not: mmio_write logs the file again and loses the old content.
THEOREM UndoFailureAtomic ==
    ASSUME NoWrap, Policy = "UNDO", ~Rewrites
    PROVE  Spec => FailureAtomic
<1>1. Init => Block!Init /\ UndoInv
  BY DEF Init, Block!Init, View, Recovered, UndoInv
<1>2. NoWrap /\ Policy = "UNDO" /\ ~Rewrites /\ LogInv /\ UndoInv /\ [Next]_vars
         => [Block!Next]_<<View, dirty, Recovered, epoch>> /\ UndoInv'
  BY UndoStep
<1>3. NoWrap /\ LogInv /\ [Next]_vars => LogInv'
  BY LogInvStep
<1> QED
  BY InitLogInv, <1>1, <1>2, <1>3, PTL DEF Spec, FailureAtomic, Block!Spec, Block!vars

-----------------------------------------------------------------------------
(* Reads under redo logging.                                                *)

LEMMA ReadCell ==
    ASSUME NEW e, Bounded(e), NEW blk \in [Cells -> Val],
           NEW lo \in Cells, NEW n \in 1 .. LogSize - lo,
           ~(lo <= e.offset /\ lo + n > e.offset + e.len),
           NEW i \in lo .. lo + n - 1
    PROVE  /\ i \in Cells
           /\ RedoCell(e, blk, 0, lo, n, i) = Overlay(blk, e)[i]
<1>1. /\ e.offset \in 0 .. LogSize /\ e.len \in 0 .. LogSize
      /\ e.offset + e.len <= LogSize
  BY EntryFields DEF Bounded
<1>2. i \in Cells /\ lo \in Int /\ n \in Int /\ i \in Int /\ 0 + i = i
  BY LogSizeAssumption DEF Cells
<1>3. At(blk, 0 + i) = blk[i] /\ At(blk, 0 + i + 0) = blk[i]
  BY <1>2 DEF At
<1> DEFINE case == check_log(lo, lo + n, e.offset, e.offset + e.len)
<1>4. CASE e.len = 0
  BY <1>1, <1>2, <1>3, <1>4 DEF RedoCell, Overlay, Store
<1>5. CASE e.len > 0
  <2>1. ~(case = 3 /\ i >= e.offset + e.len)
    BY <1>1, <1>2, <1>5 DEF check_log
  <2>2. (\/ case \in {2, 3} /\ e.offset <= i /\ i < e.offset + e.len
         \/ case = 4
         \/ case = 5 /\ i < e.offset + e.len)
        <=> e.offset <= i /\ i < e.offset + e.len
    BY <1>1, <1>2, <1>5 DEF check_log
  <2> HIDE DEF case
  <2>3. RedoCell(e, blk, 0, lo, n, i) =
            IF e.offset <= i /\ i < e.offset + e.len THEN e.log[i] ELSE blk[i]
    BY <1>2, <1>3, <1>5, <2>1, <2>2 DEF RedoCell, case
  <2> QED
    BY <1>2, <2>3 DEF Overlay, Store
<1> QED
  BY <1>1, <1>2, <1>4, <1>5

LEMMA ReadsFromView == LogInv => ReadExactButTail
<1> SUFFICES ASSUME LogInv, Policy = "REDO", entry # NULL,
                    NEW lo \in Cells, NEW n \in 1 .. LogSize - lo,
                    ~(lo <= entry.offset /\ lo + n > entry.offset + entry.len)
             PROVE  ReadRedo(entry, file, 0, lo, n) = [i \in lo .. lo + n - 1 |-> View[i]]
  BY DEF ReadExactButTail
<1>1. Bounded(entry) /\ file \in [Cells -> Val] /\ View = Overlay(file, entry)
  BY DEF LogInv, TypeOK, LogFilled, Bounded, View
<1>2. \A i \in lo .. lo + n - 1 : RedoCell(entry, file, 0, lo, n, i) = View[i]
  BY <1>1, ReadCell
<1> QED
  BY <1>2 DEF ReadRedo

\* For every block size and every log, read_redolog returns what the log
\* laid over the file shows, in all its cases but the tail of case 3.
THEOREM RedoReads ==
    ASSUME NoWrap
    PROVE  Spec => []ReadExactButTail
<1>1. NoWrap /\ LogInv /\ [Next]_vars => LogInv'
  BY LogInvStep
<1> QED
  BY InitLogInv, ReadsFromView, <1>1, PTL DEF Spec
=============================================================================
