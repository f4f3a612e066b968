--------------------------- MODULE LogRangeProofs ---------------------------
(***************************************************************************)
(* TLAPS proofs about the interval arithmetic of mmio_write, for every     *)
(* block size: what check_log's six cases make of a log, field by field    *)
(* and cell by cell.  LogEntryProofs and PmemLogProofs rest on them.       *)
(***************************************************************************)
EXTENDS LogRange, TLAPS

-----------------------------------------------------------------------------
(* Intervals.                                                               *)

\* lo .. hi-1 is a non-empty interval of the block.
Interval(lo, hi) == lo \in Int /\ hi \in Int /\ 0 <= lo /\ lo < hi /\ hi <= LogSize

\* Whichever of the six cases check_log finds, the log in use grows to the
\* smallest interval that holds the old one and the new one.
THEOREM RangeIsHull ==
    ASSUME NEW lo, NEW hi, NEW ps, NEW pe, Interval(lo, hi), Interval(ps, pe)
    PROVE  LET r == MergedRange(lo, hi, ps, pe)
           IN  /\ r.offset = (IF lo <= ps THEN lo ELSE ps)
               /\ r.offset + r.len = (IF hi >= pe THEN hi ELSE pe)
               /\ r.offset \in 0 .. LogSize
               /\ r.len \in 1 .. LogSize
BY LogSizeAssumption DEF MergedRange, check_log, Interval

\* Inside the hull the log holds the new data, else the old log, else the
\* file.
LEMMA MergedCell ==
    ASSUME NEW lo, NEW hi, NEW ps, NEW pe, Interval(lo, hi), Interval(ps, pe),
           NEW log, DOMAIN log = Cells, NEW data, NEW blk, NEW i \in Cells,
           (IF lo <= ps THEN lo ELSE ps) <= i, i < (IF hi >= pe THEN hi ELSE pe)
    PROVE  MergedLog(log, lo, hi, ps, pe, data, blk)[i] =
               IF lo <= i /\ i < hi THEN data[i]
               ELSE IF ps <= i /\ i < pe THEN log[i] ELSE blk[i]
BY LogSizeAssumption DEF MergedLog, check_log, Store, Interval, Cells

LEMMA MergedLogType ==
    ASSUME NEW S, NEW lo, NEW hi, NEW ps, NEW pe, Interval(lo, hi), Interval(ps, pe),
           NEW log \in [Cells -> S], NEW data \in [Cells -> S], NEW blk \in [Cells -> S]
    PROVE  MergedLog(log, lo, hi, ps, pe, data, blk) \in [Cells -> S]
BY DEF MergedLog, Store

\* Entries with epochs in E and cells in V, and those whose log, if in use,
\* is an interval of the block.
LogRecords(E, V) == [epoch : E, policy : {"UNDO", "REDO"},
                     offset : 0 .. LogSize, len : 0 .. LogSize, log : [Cells -> V]]
InBlock(e, E, V) == e \in LogRecords(E, V) /\ e.offset + e.len <= LogSize

LEMMA RecordFields ==
    ASSUME NEW E, NEW V, NEW e \in LogRecords(E, V)
    PROVE  /\ e.epoch \in E /\ e.policy \in {"UNDO", "REDO"}
           /\ e.offset \in 0 .. LogSize /\ e.len \in 0 .. LogSize
           /\ e.log \in [Cells -> V]
BY DEF LogRecords

\* What mmio_write makes of an entry, field by field.
LEMMA WriteFields ==
    ASSUME NEW E, NEW V, NEW e, InBlock(e, E, V), NEW lo \in Int, NEW n \in Int, Interval(lo, lo + n),
           NEW data \in [Cells -> V], NEW blk \in [Cells -> V],
           NEW p \in {"UNDO", "REDO"}
    PROVE  LET w == LogWrite(e, lo, n, data, blk, p)
               merge == e.len > 0 /\ n # LogSize
           IN  /\ InBlock(w, E, V)
               /\ w.len > 0
               /\ w.epoch = e.epoch
               /\ w.policy = IF merge THEN e.policy ELSE p
               /\ w.offset = IF merge /\ e.offset < lo THEN e.offset ELSE lo
               /\ w.offset + w.len = IF merge /\ e.offset + e.len > lo + n
                                     THEN e.offset + e.len ELSE lo + n
<1> DEFINE w == LogWrite(e, lo, n, data, blk, p)
           ps == e.offset
           pe == e.offset + e.len
           r == MergedRange(lo, lo + n, ps, pe)
           m == MergedLog(e.log, lo, lo + n, ps, pe, data, blk)
<1>1. /\ e.offset \in 0 .. LogSize /\ e.len \in 0 .. LogSize
      /\ e.log \in [Cells -> V] /\ e \in LogRecords(E, V)
      /\ e.offset + e.len <= LogSize
  BY RecordFields DEF InBlock
<1>2. CASE e.len > 0 /\ n # LogSize
  <2>1. Interval(ps, pe)
    BY <1>1, <1>2, LogSizeAssumption DEF Interval
  <2>2. w = [e EXCEPT !.offset = r.offset, !.len = r.len, !.log = m]
    BY <1>2 DEF LogWrite
  <2>3. /\ r.offset = (IF lo <= ps THEN lo ELSE ps)
        /\ r.offset + r.len = (IF lo + n >= pe THEN lo + n ELSE pe)
        /\ r.offset \in 0 .. LogSize
        /\ r.len \in 1 .. LogSize
    BY <2>1, RangeIsHull
  <2>4. m \in [Cells -> V]
    BY <1>1, <2>1, MergedLogType
  <2>5. /\ w \in LogRecords(E, V) /\ w.epoch = e.epoch /\ w.policy = e.policy
        /\ w.offset = r.offset /\ w.len = r.len
    <3> HIDE DEF w, r, m
    <3>1. r.len \in 0 .. LogSize
      BY <2>3, LogSizeAssumption
    <3>2. e \in LogRecords(E, V) /\ r.offset \in 0 .. LogSize
      BY <1>1, <2>3
    <3>3. LET x == [e EXCEPT !.offset = r.offset, !.len = r.len, !.log = m]
          IN  /\ x \in LogRecords(E, V) /\ x.epoch = e.epoch /\ x.policy = e.policy
              /\ x.offset = r.offset /\ x.len = r.len
      BY <2>4, <3>1, <3>2 DEF LogRecords
    <3> QED
      BY <2>2, <3>3
  <2> HIDE DEF w, r, m
  <2> QED
    BY <1>1, <1>2, <2>1, <2>3, <2>5, LogSizeAssumption DEF InBlock, Interval, w
<1>3. CASE ~(e.len > 0 /\ n # LogSize)
  <2>1. w = [e EXCEPT !.offset = lo, !.len = n, !.policy = p,
                      !.log = Store(e.log, lo, lo + n, data)]
    BY <1>3 DEF LogWrite
  <2>2. Store(e.log, lo, lo + n, data) \in [Cells -> V]
    BY <1>1 DEF Store
  <2>3. lo \in 0 .. LogSize /\ n \in 0 .. LogSize /\ n > 0 /\ lo + n <= LogSize
    BY LogSizeAssumption DEF Interval
  <2>4. /\ w \in LogRecords(E, V) /\ w.epoch = e.epoch /\ w.policy = p
        /\ w.offset = lo /\ w.len = n
    BY <1>1, <2>1, <2>2, <2>3 DEF LogRecords
  <2> HIDE DEF w
  <2> QED
    BY <1>3, <2>3, <2>4 DEF InBlock, w
<1> QED
  BY <1>2, <1>3

\* ... and cell by cell, over the interval in use.
LEMMA WriteCell ==
    ASSUME NEW E, NEW V, NEW e, InBlock(e, E, V), NEW lo \in Int, NEW n \in Int, Interval(lo, lo + n),
           NEW data \in [Cells -> V], NEW blk \in [Cells -> V],
           NEW p \in {"UNDO", "REDO"}, NEW i \in Cells,
           LET w == LogWrite(e, lo, n, data, blk, p)
           IN  w.offset <= i /\ i < w.offset + w.len
    PROVE  LogWrite(e, lo, n, data, blk, p).log[i] =
               IF lo <= i /\ i < lo + n THEN data[i]
               ELSE IF e.offset <= i /\ i < e.offset + e.len THEN e.log[i]
               ELSE blk[i]
<1> DEFINE w == LogWrite(e, lo, n, data, blk, p)
           ps == e.offset
           pe == e.offset + e.len
           m == MergedLog(e.log, lo, lo + n, ps, pe, data, blk)
<1>1. /\ e.offset \in 0 .. LogSize /\ e.len \in 0 .. LogSize
      /\ e.log \in [Cells -> V] /\ e \in LogRecords(E, V)
      /\ e.offset + e.len <= LogSize
  BY RecordFields DEF InBlock
<1>0. /\ w.offset = IF e.len > 0 /\ n # LogSize /\ e.offset < lo THEN e.offset ELSE lo
      /\ w.offset + w.len = IF e.len > 0 /\ n # LogSize /\ e.offset + e.len > lo + n
                            THEN e.offset + e.len ELSE lo + n
  BY WriteFields
<1>2. CASE e.len > 0 /\ n # LogSize
  <2>1. Interval(ps, pe)
    BY <1>1, <1>2, LogSizeAssumption DEF Interval
  <2>2. w.log = m
    BY <1>1, <1>2 DEF LogWrite, LogRecords
  <2>3. (IF lo <= ps THEN lo ELSE ps) <= i /\ i < (IF lo + n >= pe THEN lo + n ELSE pe)
    BY <1>0, <1>1, <1>2
  <2>4. DOMAIN e.log = Cells
    BY <1>1
  <2>5. m[i] = IF lo <= i /\ i < lo + n THEN data[i]
               ELSE IF ps <= i /\ i < pe THEN e.log[i] ELSE blk[i]
    BY <2>1, <2>3, <2>4, MergedCell
  <2> QED
    BY <2>2, <2>5
<1>3. CASE ~(e.len > 0 /\ n # LogSize)
  <2>1. w.log = Store(e.log, lo, lo + n, data)
    BY <1>1, <1>3 DEF LogWrite, LogRecords
  <2>2. lo <= i /\ i < lo + n
    BY <1>0, <1>3
  <2> QED
    BY <1>1, <2>1, <2>2 DEF Store
<1> QED
  BY <1>2, <1>3

\* The interval in use covers the write and what was in use before.
LEMMA WriteCovers ==
    ASSUME NEW E, NEW V, NEW e, InBlock(e, E, V), NEW lo \in Int, NEW n \in Int, Interval(lo, lo + n),
           NEW data \in [Cells -> V], NEW blk \in [Cells -> V],
           NEW p \in {"UNDO", "REDO"}, NEW i \in Cells,
           LET w == LogWrite(e, lo, n, data, blk, p)
           IN  ~(w.offset <= i /\ i < w.offset + w.len)
    PROVE  ~(lo <= i /\ i < lo + n) /\ ~(e.offset <= i /\ i < e.offset + e.len)
<1> DEFINE w == LogWrite(e, lo, n, data, blk, p)
<1>1. /\ e.offset \in 0 .. LogSize /\ e.len \in 0 .. LogSize
      /\ e.offset + e.len <= LogSize
  BY RecordFields DEF InBlock
<1>2. /\ w.offset = IF e.len > 0 /\ n # LogSize /\ e.offset < lo THEN e.offset ELSE lo
      /\ w.offset + w.len = IF e.len > 0 /\ n # LogSize /\ e.offset + e.len > lo + n
                            THEN e.offset + e.len ELSE lo + n
  BY WriteFields
<1>3. ~(w.offset <= i /\ i < w.offset + w.len)
  OBVIOUS
<1> HIDE DEF w
<1> QED
  BY <1>1, <1>2, <1>3, LogSizeAssumption DEF Interval, Cells
=============================================================================
