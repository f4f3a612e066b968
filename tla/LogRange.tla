------------------------------ MODULE LogRange ------------------------------
(***************************************************************************)
(* The byte-range arithmetic of src/src/mmio.c: how a write is recorded in *)
(* the log of one block, and how a read is pieced together from a redo log *)
(* and the file.  One idx_entry_t logs one block of LogSize cells (a cell  *)
(* stands for a byte); the interval [offset, offset + len) of its log is   *)
(* in use.  Log addresses and file addresses are both offsets in the       *)
(* block, because log_offset = off & (LOG_SIZE - 1) keeps them aligned.    *)
(***************************************************************************)
EXTENDS Integers

CONSTANTS LogSize,   \* LOG_SIZE(log_size): cells per block
          Junk       \* what uninitialised or unrelated memory holds

ASSUME LogSizeAssumption == LogSize \in Nat \ {0}

Cells == 0 .. LogSize - 1

\* How the interval [req_start, req_end) lies relative to a log in use, as
\* numbered in the diagram above check_log.
check_log(req_start, req_end, log_start, log_end) ==
    IF req_start <= log_start
    THEN IF req_end >= log_start
         THEN IF req_end < log_end THEN 2 ELSE 3
         ELSE 1
    ELSE IF req_end <= log_end
         THEN 4
         ELSE IF log_end < req_start THEN 6 ELSE 5

\* NTSTORE or memcpy of the cells a .. b-1 of src over those of dst.
Store(dst, a, b, src) ==
    [i \in DOMAIN dst |-> IF a <= i /\ i < b THEN src[i] ELSE dst[i]]

\* The block after the log of entry e is copied over it.
Overlay(blk, e) == Store(blk, e.offset, e.offset + e.len, e.log)

\* The new interval in use when the cells lo .. hi-1 are logged on top of an
\* interval ps .. pe-1 in use.
MergedRange(lo, hi, ps, pe) ==
    LET case == check_log(lo, hi, ps, pe)
    IN  IF case \in {1, 2} THEN [offset |-> lo, len |-> pe - lo]
        ELSE IF case = 3   THEN [offset |-> lo, len |-> hi - lo]
        ELSE IF case = 4   THEN [offset |-> ps, len |-> pe - ps]
        ELSE                    [offset |-> ps, len |-> hi - ps]

MergedLogWithGap(log, lo, hi, ps, pe, data, blk) == Store(log, lo, hi, data)

\* The log after those cells are copied from data, and the gap between the
\* two intervals, if there is one (cases 1 and 6), from the file's block.
MergedLog(log, lo, hi, ps, pe, data, blk) ==
    LET logged == Store(log, lo, hi, data)
        case   == check_log(lo, hi, ps, pe)
    IN  IF case = 1 THEN Store(logged, hi, ps, blk)
        ELSE IF case = 6 THEN Store(logged, pe, lo, blk)
        ELSE logged

\* mmio_write logs n cells from lo on in entry e: data is what is logged, blk
\* the file's block.  The entry's policy is set only when there is nothing
\* to merge with.
LogWrite(e, lo, n, data, blk, policy) ==
    IF e.len > 0 /\ n # LogSize
    THEN LET ps == e.offset
             pe == e.offset + e.len
             r  == MergedRange(lo, lo + n, ps, pe)
         IN  [e EXCEPT !.offset = r.offset,
                       !.len = r.len,
                       !.log = MergedLog(e.log, lo, lo + n, ps, pe, data, blk)]
    ELSE [e EXCEPT !.offset = lo,
                   !.len = n,
                   !.policy = policy,
                   !.log = Store(e.log, lo, lo + n, data)]

\* A cell of the file's mapping, or whatever lies behind its end.
At(file, p) == IF p \in DOMAIN file THEN file[p] ELSE Junk

LogWhereverItEnds(e, file, base, lo, n, i) ==
    IF i >= e.offset + e.len THEN At(file, base + i) ELSE e.log[i]

\* What read_redolog puts at cell i of a request for the n cells from lo on
\* of the block at position base of the file, whose log is entry e.  The
\* tail of case 3 is taken log_end - req_start cells further on than it lies.
RedoCell(e, file, base, lo, n, i) ==
    LET ls   == e.offset
        le   == e.offset + e.len
        case == check_log(lo, lo + n, ls, le)
        fromLog == \/ case \in {2, 3} /\ ls <= i /\ i < le
                   \/ case = 4
                   \/ case = 5 /\ i < le
        shift == IF case = 3 /\ i >= le THEN le - lo ELSE 0
    IN  IF e.len = 0 THEN At(file, base + i)
        ELSE IF fromLog THEN e.log[i]
        ELSE At(file, base + i + shift)

ReadRedo(e, file, base, lo, n) ==
    [i \in lo .. lo + n - 1 |-> RedoCell(e, file, base, lo, n, i)]
=============================================================================
