--------------------------- MODULE PmemLogProofs ----------------------------
(***************************************************************************)
(* TLAPS proofs about the order in which the library makes a block's log   *)
(* and file persistent: for every block size and every set of writes, a    *)
(* crash leaves what the last fsync saw, at any point but in two windows   *)
(* of a write that the code leaves open.                                   *)
(***************************************************************************)
EXTENDS PmemLog, LogRangeProofs

-----------------------------------------------------------------------------
(* The invariant.                                                           *)

Fc(i) == <<"file", i>>
Lc(i) == <<"log", i>>

Hdrs == [epoch : 0 .. MaxEpoch, offset : 0 .. LogSize, len : 0 .. LogSize,
         policy : {"UNDO", "REDO"}]

MemoryType(m) ==
    /\ m = [l \in Locations |-> m[l]]
    /\ \A i \in Cells : m[Fc(i)] \in Val /\ m[Lc(i)] \in Val \cup {Junk}
    /\ m[Epoch] \in 0 .. MaxEpoch
    /\ m[Hdr] \in Hdrs

Types ==
    /\ MemoryType(mem) /\ MemoryType(pm)
    /\ nt \subseteq Locations /\ dirty \subseteq Cells
    /\ policy \in {"UNDO", "REDO"} /\ used \in BOOLEAN /\ stale \in BOOLEAN
    /\ saved \in Seq([Cells -> Val]) /\ Len(saved) = mem[Epoch] + 1

\* A header of this file: its epoch is not in the future, its log lies in the
\* block and, if in use, has the file's policy.
Sound(h) == /\ h.epoch <= mem[Epoch]
            /\ h.offset + h.len <= LogSize
            /\ h.len > 0 => h.policy = policy

Calls == {"check", "apply", "applied", "renew", "renewed", "log", "head", "headed",
          "store", "stored"}
Idles == {"idle", "committing", "swept", "free"}

\* What the next FENCE waits for, at each point of a call.
Waiting ==
    /\ pc \in {"applied", "swept", "stored"} => nt \subseteq FileCells(Cells)
    /\ pc = "renewed" => nt = {Hdr}
    /\ pc = "head" => nt \subseteq LogCells(Cells)
    /\ pc = "headed" => Hdr \in nt /\ nt \subseteq LogCells(Cells) \cup {Hdr}
    /\ pc = "committing" => nt = {Epoch}
    /\ pc \in {"idle", "check", "apply", "renew", "log", "store", "free"} => nt = {}

\* Everything else has reached persistent memory, but perhaps the header
\* that free_idx_entry cleared and the epoch that get_log_entry stored in it:
\* there may be an old header instead, of a log that was committed.
Settled ==
    /\ \A l \in Locations : l \in nt \/ l = Hdr \/ pm[l] = mem[l]
    /\ \/ Hdr \in nt
       \/ pm[Hdr] = mem[Hdr]
       \/ /\ mem[Hdr].len = 0 /\ mem[Hdr].policy = "UNDO"
          /\ stale \/ pm[Hdr] = FreeHdr
    /\ pm[Epoch] <= mem[Epoch]
    /\ stale => pm[Hdr].epoch < pm[Epoch]
    /\ pc \in {"store", "stored"} => pm[Hdr] = mem[Hdr]

\* Where the call is, and what it has found out about the entry.
Progress ==
    /\ pc \in Calls \cup Idles
    /\ IF pc \in Calls THEN used /\ \E r \in Requests : req = {r} ELSE req = {}
    /\ ~used => /\ pc \in {"idle", "committing"}
                /\ mem[Hdr] = FreeHdr
    /\ Sound(mem[Hdr]) /\ Sound(pm[Hdr])
    /\ pc \in {"apply", "applied", "swept"} =>
          mem[Hdr].policy = "REDO" /\ mem[Hdr].epoch < mem[Epoch]
    /\ pc = "free" => mem[Hdr].epoch < mem[Epoch]
    /\ pc \in {"renewed", "log", "head", "headed", "store", "stored"} =>
          mem[Hdr].epoch = mem[Epoch]
    /\ pc \in {"applied", "renew", "swept", "free"} => File(mem) = saved[mem[Epoch] + 1]
    /\ pc \in {"store", "stored"} => policy = "UNDO"

\* Cell i is in the log that header h says is in use.
Covers(h, i) == h.offset <= i /\ i < h.offset + h.len

\* The log is filled, and complete before its header says so; under undo
\* logging a cell that is logged and not written since the last commit (it
\* filled a gap) has its value in the file.
Filled == \A i \in Cells : Covers(mem[Hdr], i) => mem[Lc(i)] # Junk
GapsInFile ==
    policy = "UNDO" /\ mem[Hdr].epoch = mem[Epoch] =>
        \A i \in Cells : Covers(mem[Hdr], i) /\ i \notin dirty => mem[Lc(i)] = mem[Fc(i)]
CallInv ==
    \A r \in req :
       /\ policy = "UNDO" /\ pc \in Calls \ {"headed", "store", "stored"} =>
             dirty \cap Written(r) = {}
       /\ pc = "head" =>
             \A i \in Cells : Covers(Logged(r), i) => mem[Lc(i)] = Logged(r).log[i]
       /\ policy = "UNDO" /\ pc \in {"headed", "store", "stored"} =>
             \A i \in Cells : i \in Written(r) => Covers(mem[Hdr], i) /\ i \in dirty

LogInv == Filled /\ GapsInFile /\ CallInv

\* What recovery makes of persistent memory m, and that it is what the last
\* fsync that m has seen saw.
Recover(m) ==
    IF (m[Hdr].policy = "REDO") <=> (m[Hdr].epoch < m[Epoch])
    THEN Overlay(File(m), Entry(m)) ELSE File(m)
Good(m, s) == Recover(m) = s[m[Epoch] + 1]

\* Every image that a crash may leave, now or after more of the stores in
\* flight have arrived (those to D), recovers to the last fsync it has seen,
\* but in the two windows where the code does not order its stores; in the
\* second only the images with the old header do not.
Image(D) == [l \in Locations |-> IF l \in D THEN mem[l] ELSE pm[l]]
Excused(m) == LogUnordered \/ (OldHeader /\ m[Hdr] # mem[Hdr])
Images ==
    /\ Good(mem, saved)
    /\ \A D \in SUBSET {l \in Locations : pm[l] # mem[l]} :
          Good(Image(D), saved) \/ Excused(Image(D))

PmemInv == Types /\ Waiting /\ Settled /\ Progress /\ LogInv /\ Images

-----------------------------------------------------------------------------
(* Locations and memory.                                                    *)

LEMMA Locs ==
    /\ Hdr \in Locations /\ Epoch \in Locations /\ Hdr # Epoch
    /\ \A i \in Cells : /\ Fc(i) \in Locations /\ Lc(i) \in Locations
                        /\ Fc(i) # Hdr /\ Fc(i) # Epoch /\ Lc(i) # Hdr /\ Lc(i) # Epoch
                        /\ Fc(i)[2] = i /\ Lc(i)[2] = i
    /\ \A i, j \in Cells : /\ Fc(i) # Lc(j)
                           /\ Fc(i) = Fc(j) => i = j
                           /\ Lc(i) = Lc(j) => i = j
    /\ \A l \in Locations : l = Hdr \/ l = Epoch \/ \E i \in Cells : l = Fc(i) \/ l = Lc(i)
BY DEF Locations, Hdr, Epoch, FileCells, LogCells, Fc, Lc

LEMMA CellSets ==
    ASSUME NEW S \in SUBSET Cells
    PROVE  /\ FileCells(S) \subseteq Locations /\ LogCells(S) \subseteq Locations
           /\ FileCells(S) \subseteq FileCells(Cells) /\ LogCells(S) \subseteq LogCells(Cells)
           /\ Hdr \notin FileCells(S) /\ Epoch \notin FileCells(S)
           /\ Hdr \notin LogCells(S) /\ Epoch \notin LogCells(S)
           /\ \A i \in Cells : /\ Fc(i) \in FileCells(S) <=> i \in S
                               /\ Lc(i) \in LogCells(S) <=> i \in S
                               /\ Lc(i) \notin FileCells(S) /\ Fc(i) \notin LogCells(S)
BY DEF Locations, Hdr, Epoch, FileCells, LogCells, Fc, Lc

LEMMA FileIs ==
    ASSUME NEW m
    PROVE  /\ File(m) = [i \in Cells |-> m[Fc(i)]] /\ Log(m) = [i \in Cells |-> m[Lc(i)]]
           /\ Entry(m) = [offset |-> m[Hdr].offset, len |-> m[Hdr].len,
                          policy |-> m[Hdr].policy, epoch |-> m[Hdr].epoch,
                          log |-> [i \in Cells |-> m[Lc(i)]]]
BY DEF File, Log, Entry, Fc, Lc

\* Recovery, cell by cell.
Rolls(m) == (m[Hdr].policy = "REDO") <=> (m[Hdr].epoch < m[Epoch])
Cell(m, i) == IF Rolls(m) /\ Covers(m[Hdr], i) THEN m[Lc(i)] ELSE m[Fc(i)]

LEMMA RecoverIs ==
    ASSUME NEW m
    PROVE  Recover(m) = [i \in Cells |-> Cell(m, i)]
<1>1. /\ File(m) = [i \in Cells |-> m[Fc(i)]]
      /\ Entry(m).offset = m[Hdr].offset /\ Entry(m).len = m[Hdr].len
      /\ Entry(m).log = [i \in Cells |-> m[Lc(i)]]
  BY DEF File, Log, Entry, Fc, Lc
<1>2. Overlay(File(m), Entry(m)) = [i \in Cells |-> IF Covers(m[Hdr], i) THEN m[Lc(i)] ELSE m[Fc(i)]]
  BY <1>1 DEF Overlay, Store, Covers
<1> QED
  BY <1>1, <1>2 DEF Recover, Cell, Rolls

\* Two images with the same cells after recovery are as good.
LEMMA SameGood ==
    ASSUME NEW m, NEW n, NEW s, \A i \in Cells : Cell(m, i) = Cell(n, i),
           m[Epoch] = n[Epoch], Good(m, s)
    PROVE  Good(n, s)
<1>1. Recover(m) = Recover(n)
  BY RecoverIs
<1> QED
  BY <1>1 DEF Good

LEMMA GoodFile ==
    ASSUME NEW m, NEW s, \A i \in Cells : Cell(m, i) = m[Fc(i)]
    PROVE  Good(m, s) <=> File(m) = s[m[Epoch] + 1]
<1>1. Recover(m) = [i \in Cells |-> Cell(m, i)] /\ File(m) = [i \in Cells |-> m[Fc(i)]]
  BY RecoverIs, FileIs
<1>2. Recover(m) = File(m)
  BY <1>1
<1> QED
  BY <1>2 DEF Good

\* m is an image of the memories a (persistent) and b.
Between(m, a, b) == /\ m = [l \in Locations |-> m[l]]
                    /\ \A l \in Locations : m[l] = a[l] \/ m[l] = b[l]

LEMMA ImagesAre ==
    ASSUME Images, NEW m, Between(m, pm, mem)
    PROVE  Good(m, saved) \/ Excused(m)
<1> DEFINE D == {l \in Locations : pm[l] # mem[l] /\ m[l] = mem[l]}
<1>1. D \in SUBSET {l \in Locations : pm[l] # mem[l]}
  OBVIOUS
<1>2. Image(D) = m
  BY DEF Image, Between
<1> QED
  BY <1>1, <1>2 DEF Images

\* Outside of the two windows every image is good.
LEMMA ImagesOf ==
    ASSUME Images, pc \notin {"head", "headed"}, NEW m, Between(m, pm, mem)
    PROVE  Good(m, saved)
BY ImagesAre DEF Excused, LogUnordered, OldHeader

LEMMA ImagesNextBut ==
    ASSUME Good(mem', saved'),
           \A m : Between(m, pm', mem') =>
                    \/ Good(m, saved')
                    \/ policy' = "UNDO" /\ pc' = "headed"
                    \/ OldHeader' /\ m[Hdr] # mem'[Hdr]
    PROVE  Images'
<1>1. \A D : Between(Image(D)', pm', mem')
  BY DEF Image, Between
<1> QED
  BY <1>1 DEF Images, Excused, LogUnordered

LEMMA ImagesNext ==
    ASSUME Good(mem', saved'), \A m : Between(m, pm', mem') => Good(m, saved')
    PROVE  Images'
BY ImagesNextBut

LEMMA MemImage ==
    ASSUME Types
    PROVE  Between(mem, pm, mem) /\ Between(pm, pm, mem)
BY DEF Types, MemoryType, Between


-----------------------------------------------------------------------------
(* What stores do to memory.                                                *)

LEMMA MemoryOf ==
    ASSUME Types
    PROVE  /\ mem = [l \in Locations |-> mem[l]] /\ pm = [l \in Locations |-> pm[l]]
           /\ mem[Epoch] \in 0 .. MaxEpoch /\ pm[Epoch] \in 0 .. MaxEpoch
           /\ mem[Hdr] \in Hdrs /\ pm[Hdr] \in Hdrs
           /\ \A i \in Cells : mem[Fc(i)] \in Val /\ mem[Lc(i)] \in Val \cup {Junk}
BY DEF Types, MemoryType

LEMMA HdrFields ==
    ASSUME NEW h \in Hdrs
    PROVE  /\ h.epoch \in 0 .. MaxEpoch /\ h.offset \in 0 .. LogSize
           /\ h.len \in 0 .. LogSize /\ h.policy \in {"UNDO", "REDO"}
           /\ h.epoch \in Int /\ h.offset \in Int /\ h.len \in Int
BY LogSizeAssumption, PmemLogAssumption DEF Hdrs

\* A store to the header.
LEMMA HeaderStore ==
    ASSUME Types, NEW h \in Hdrs, Stores(OneStore(Hdr, h))
    PROVE  /\ MemoryType(mem') /\ mem'[Hdr] = h
           /\ \A l \in Locations : l # Hdr => mem'[l] = mem[l]
           /\ mem'[Epoch] = mem[Epoch]
           /\ \A i \in Cells : mem'[Fc(i)] = mem[Fc(i)] /\ mem'[Lc(i)] = mem[Lc(i)]
           /\ File(mem') = File(mem)
<1>1. mem' = [l \in Locations |-> IF l = Hdr THEN h ELSE mem[l]]
  BY DEF Stores, OneStore
<1>2. mem'[Hdr] = h /\ \A l \in Locations : l # Hdr => mem'[l] = mem[l]
  BY <1>1, Locs
<1>3. /\ mem'[Epoch] = mem[Epoch]
      /\ \A i \in Cells : mem'[Fc(i)] = mem[Fc(i)] /\ mem'[Lc(i)] = mem[Lc(i)]
  BY <1>2, Locs
<1>4. mem' = [l \in Locations |-> mem'[l]]
  BY <1>1
<1>5. MemoryType(mem')
  BY <1>2, <1>3, <1>4, MemoryOf DEF MemoryType
<1>6. File(mem') = File(mem)
  <2>1. [i \in Cells |-> mem'[Fc(i)]] = [i \in Cells |-> mem[Fc(i)]]
    BY <1>3
  <2>2. File(mem') = [i \in Cells |-> mem'[Fc(i)]] /\ File(mem) = [i \in Cells |-> mem[Fc(i)]]
    BY FileIs
  <2> QED
    BY <2>1, <2>2
<1> QED
  BY <1>2, <1>3, <1>5, <1>6

\* Stores to the cells S of the file.
LEMMA FileStore ==
    ASSUME Types, NEW S \in SUBSET Cells, NEW f, DOMAIN f = FileCells(S),
           \A i \in S : f[Fc(i)] \in Val, Stores(f)
    PROVE  /\ MemoryType(mem') /\ mem'[Hdr] = mem[Hdr] /\ mem'[Epoch] = mem[Epoch]
           /\ \A l \in Locations : l \notin FileCells(S) => mem'[l] = mem[l]
           /\ \A i \in Cells : /\ mem'[Fc(i)] = IF i \in S THEN f[Fc(i)] ELSE mem[Fc(i)]
                               /\ mem'[Lc(i)] = mem[Lc(i)]
<1>1. mem' = [l \in Locations |-> IF l \in FileCells(S) THEN f[l] ELSE mem[l]]
  BY DEF Stores
<1>2. \A l \in Locations : l \notin FileCells(S) => mem'[l] = mem[l]
  BY <1>1
<1>3. mem'[Hdr] = mem[Hdr] /\ mem'[Epoch] = mem[Epoch]
  BY <1>2, Locs, CellSets
<1>4. \A i \in Cells : /\ mem'[Fc(i)] = IF i \in S THEN f[Fc(i)] ELSE mem[Fc(i)]
                       /\ mem'[Lc(i)] = mem[Lc(i)]
  BY <1>1, Locs, CellSets
<1>5. mem' = [l \in Locations |-> mem'[l]]
  BY <1>1
<1>6. MemoryType(mem')
  BY <1>3, <1>4, <1>5, MemoryOf DEF MemoryType
<1> QED
  BY <1>2, <1>3, <1>4, <1>6

\* Stores to the cells S of the log.
LEMMA LogStore ==
    ASSUME Types, NEW S \in SUBSET Cells, NEW f, DOMAIN f = LogCells(S),
           \A i \in S : f[Lc(i)] \in Val \cup {Junk}, Stores(f)
    PROVE  /\ MemoryType(mem') /\ mem'[Hdr] = mem[Hdr] /\ mem'[Epoch] = mem[Epoch]
           /\ \A l \in Locations : l \notin LogCells(S) => mem'[l] = mem[l]
           /\ \A i \in Cells : /\ mem'[Lc(i)] = IF i \in S THEN f[Lc(i)] ELSE mem[Lc(i)]
                               /\ mem'[Fc(i)] = mem[Fc(i)]
           /\ File(mem') = File(mem)
<1>1. mem' = [l \in Locations |-> IF l \in LogCells(S) THEN f[l] ELSE mem[l]]
  BY DEF Stores
<1>2. \A l \in Locations : l \notin LogCells(S) => mem'[l] = mem[l]
  BY <1>1
<1>3. mem'[Hdr] = mem[Hdr] /\ mem'[Epoch] = mem[Epoch]
  BY <1>2, Locs, CellSets
<1>4. \A i \in Cells : /\ mem'[Lc(i)] = IF i \in S THEN f[Lc(i)] ELSE mem[Lc(i)]
                       /\ mem'[Fc(i)] = mem[Fc(i)]
  BY <1>1, Locs, CellSets
<1>5. mem' = [l \in Locations |-> mem'[l]]
  BY <1>1
<1>6. MemoryType(mem')
  BY <1>3, <1>4, <1>5, MemoryOf DEF MemoryType
<1>7. File(mem') = File(mem)
  BY <1>4 DEF File, Fc
<1> QED
  BY <1>2, <1>3, <1>4, <1>6, <1>7

\* What mmio_write makes of the entry in memory M, under policy p.
LogOf(M, p, r) == LogWrite(Entry(M), r.lo, r.n,
                           IF p = "UNDO" THEN File(M) ELSE r.data, File(M), p)

LEMMA RequestIs ==
    ASSUME NEW r \in Requests
    PROVE  /\ r.lo \in Int /\ r.n \in Int /\ Interval(r.lo, r.lo + r.n)
           /\ r.data \in [Cells -> Val] /\ Written(r) \in SUBSET Cells
           /\ \A i \in Cells : i \in Written(r) <=> r.lo <= i /\ i < r.lo + r.n
<1>1. r \in [lo : Cells, n : 1 .. LogSize, data : [Cells -> Val]] /\ r.lo + r.n <= LogSize
  BY PmemLogAssumption
<1>2. r.lo \in Cells /\ r.n \in 1 .. LogSize /\ r.data \in [Cells -> Val]
  BY <1>1
<1> QED
  BY <1>1, <1>2, LogSizeAssumption DEF Interval, Written, Cells

LEMMA LoggedFacts ==
    ASSUME NEW M, MemoryType(M), M[Hdr].offset + M[Hdr].len <= LogSize,
           NEW p \in {"UNDO", "REDO"}, M[Hdr].len > 0 => M[Hdr].policy = p,
           NEW r \in Requests
    PROVE  LET w == LogOf(M, p, r)
           IN  /\ w.len > 0 /\ w.epoch = M[Hdr].epoch /\ w.policy = p
               /\ w.offset \in 0 .. LogSize /\ w.len \in 0 .. LogSize
               /\ w.offset + w.len <= LogSize
               /\ w.log \in [Cells -> Val \cup {Junk}]
               /\ \A i \in Cells :
                     /\ i \in Written(r) \/ Covers(M[Hdr], i) => Covers(w, i)
                     /\ Covers(w, i) =>
                           w.log[i] = IF i \in Written(r)
                                      THEN IF p = "UNDO" THEN M[Fc(i)] ELSE r.data[i]
                                      ELSE IF Covers(M[Hdr], i) THEN M[Lc(i)] ELSE M[Fc(i)]
<1> DEFINE E == 0 .. MaxEpoch
           V == Val \cup {Junk}
           e == Entry(M)
           blk == File(M)
           data == IF p = "UNDO" THEN File(M) ELSE r.data
           w == LogOf(M, p, r)
<1>1. M[Hdr] \in Hdrs /\ \A i \in Cells : M[Fc(i)] \in Val /\ M[Lc(i)] \in V
  BY DEF MemoryType
<1>2. /\ e.offset = M[Hdr].offset /\ e.len = M[Hdr].len /\ e.policy = M[Hdr].policy
      /\ e.epoch = M[Hdr].epoch /\ e.log = [i \in Cells |-> M[Lc(i)]]
  BY DEF Entry, Log, Lc
<1>3. e \in LogRecords(E, V)
  <2>1. [i \in Cells |-> M[Lc(i)]] \in [Cells -> V]
    BY <1>1
  <2>2. /\ M[Hdr].epoch \in E /\ M[Hdr].policy \in {"UNDO", "REDO"}
        /\ M[Hdr].offset \in 0 .. LogSize /\ M[Hdr].len \in 0 .. LogSize
    BY <1>1, HdrFields
  <2>3. e = [offset |-> M[Hdr].offset, len |-> M[Hdr].len, policy |-> M[Hdr].policy,
             epoch |-> M[Hdr].epoch, log |-> [i \in Cells |-> M[Lc(i)]]]
    BY DEF Entry, Log, Lc
  <2> QED
    BY <2>1, <2>2, <2>3 DEF LogRecords
<1>4. InBlock(e, E, V)
  BY <1>2, <1>3 DEF InBlock
<1>5. blk \in [Cells -> V] /\ blk = [i \in Cells |-> M[Fc(i)]]
  BY <1>1 DEF File, Fc
<1>6. data \in [Cells -> V]
  BY <1>5, RequestIs
<1>7. r.lo \in Int /\ r.n \in Int /\ Interval(r.lo, r.lo + r.n)
  BY RequestIs
<1>8. w = LogWrite(e, r.lo, r.n, data, blk, p)
  BY DEF LogOf
<1> HIDE DEF e, data, blk, w, E, V
<1>9. /\ InBlock(w, E, V) /\ w.len > 0 /\ w.epoch = e.epoch
      /\ w.policy = IF e.len > 0 /\ r.n # LogSize THEN e.policy ELSE p
  BY <1>4, <1>5, <1>6, <1>7, <1>8, WriteFields
<1>10. w.policy = p
  BY <1>2, <1>9
<1>11. /\ w.offset \in 0 .. LogSize /\ w.len \in 0 .. LogSize
       /\ w.offset + w.len <= LogSize /\ w.log \in [Cells -> V]
  BY <1>9, RecordFields DEF InBlock
<1>12. ASSUME NEW i \in Cells, i \in Written(r) \/ Covers(M[Hdr], i)
       PROVE  Covers(w, i)
  <2>1. (r.lo <= i /\ i < r.lo + r.n) \/ (e.offset <= i /\ i < e.offset + e.len)
    BY <1>2, <1>12, RequestIs DEF Covers
  <2>2. ~(w.offset <= i /\ i < w.offset + w.len) =>
          ~(r.lo <= i /\ i < r.lo + r.n) /\ ~(e.offset <= i /\ i < e.offset + e.len)
    BY <1>4, <1>5, <1>6, <1>7, <1>8, WriteCovers
  <2> QED
    BY <2>1, <2>2 DEF Covers
<1>13. ASSUME NEW i \in Cells, Covers(w, i)
       PROVE  w.log[i] = IF i \in Written(r)
                         THEN IF p = "UNDO" THEN M[Fc(i)] ELSE r.data[i]
                         ELSE IF Covers(M[Hdr], i) THEN M[Lc(i)] ELSE M[Fc(i)]
  <2>1. w.offset <= i /\ i < w.offset + w.len
    BY <1>13 DEF Covers
  <2>2. w.log[i] = IF r.lo <= i /\ i < r.lo + r.n THEN data[i]
                   ELSE IF e.offset <= i /\ i < e.offset + e.len THEN e.log[i] ELSE blk[i]
    BY <1>4, <1>5, <1>6, <1>7, <1>8, <2>1, WriteCell
  <2>3. i \in Written(r) <=> r.lo <= i /\ i < r.lo + r.n
    BY RequestIs
  <2>4. /\ data[i] = IF p = "UNDO" THEN M[Fc(i)] ELSE r.data[i]
        /\ e.log[i] = M[Lc(i)] /\ blk[i] = M[Fc(i)]
    BY <1>2, <1>5 DEF data, blk
  <2>5. e.offset <= i /\ i < e.offset + e.len <=> Covers(M[Hdr], i)
    BY <1>2 DEF Covers
  <2> QED
    BY <2>2, <2>3, <2>4, <2>5
<1> QED
  BY <1>2, <1>9, <1>10, <1>11, <1>12, <1>13 DEF w, V

-----------------------------------------------------------------------------
(* The invariant is inductive: one lemma per action.                        *)

LEMMA FreeHdrIs ==
    /\ FreeHdr \in Hdrs /\ FreeHdr.epoch = 0 /\ FreeHdr.offset = 0 /\ FreeHdr.len = 0
    /\ FreeHdr.policy = "UNDO"
BY LogSizeAssumption, PmemLogAssumption DEF FreeHdr, Hdrs

\* An empty log covers nothing.
LEMMA EmptyCovers ==
    ASSUME NEW h \in Hdrs, NEW i \in Cells
    PROVE  Covers(h, i) => h.len > 0
BY HdrFields, LogSizeAssumption DEF Covers, Cells

\* Between two fences nothing is in flight but the header of a freed entry.
LEMMA Calm ==
    ASSUME Settled, nt = {}
    PROVE  /\ \A l \in Locations : l # Hdr => pm[l] = mem[l]
           /\ pm[Epoch] = mem[Epoch]
           /\ \A i \in Cells : pm[Fc(i)] = mem[Fc(i)] /\ pm[Lc(i)] = mem[Lc(i)]
           /\ \/ pm[Hdr] = mem[Hdr]
              \/ /\ mem[Hdr].len = 0 /\ mem[Hdr].policy = "UNDO"
                 /\ stale \/ pm[Hdr] = FreeHdr
<1>1. \A l \in Locations : l # Hdr => pm[l] = mem[l]
  BY DEF Settled
<1> QED
  BY <1>1, Locs DEF Settled

LEMMA Ints ==
    ASSUME PmemInv
    PROVE  /\ mem[Epoch] \in Int /\ pm[Epoch] \in Int
           /\ mem[Hdr].epoch \in Int /\ pm[Hdr].epoch \in Int
BY MemoryOf, HdrFields, PmemLogAssumption DEF PmemInv

LEMMA StutterStep ==
    ASSUME PmemInv, UNCHANGED vars
    PROVE  PmemInv'
<1>1. Types' /\ Waiting' /\ Settled'
  BY DEF PmemInv, vars, Types, Waiting, Settled
<1>2. Progress'
  BY DEF PmemInv, vars, Progress, Sound, File
<1>3. LogInv'
  BY DEF PmemInv, vars, LogInv, Filled, GapsInFile, CallInv, Logged, Entry, File, Log
<1>4. Images'
  BY DEF PmemInv, vars, Images, Image, Excused, LogUnordered, OldHeader
<1> QED
  BY <1>1, <1>2, <1>3, <1>4 DEF PmemInv

LEMMA PersistStep ==
    ASSUME PmemInv, NEW l \in Locations, Persist(l)
    PROVE  PmemInv'
<1>0. UNCHANGED <<mem, nt, policy, used, pc, req, dirty, saved>>
  BY DEF Persist
<1>1. pm' = [x \in Locations |-> IF x = l THEN mem[x] ELSE pm[x]]
  BY MemoryOf DEF PmemInv, Persist
<1>2. /\ pm'[Hdr] \in {mem[Hdr], pm[Hdr]} /\ pm'[Epoch] \in {mem[Epoch], pm[Epoch]}
      /\ stale' = (stale /\ l # Hdr)
      /\ l = Hdr => pm'[Hdr] = mem[Hdr]
      /\ l # Hdr => pm'[Hdr] = pm[Hdr]
  BY <1>1, Locs DEF Persist
<1>3. Types'
  <2>1. pm' = [x \in Locations |-> pm'[x]]
    BY <1>1
  <2>2. /\ pm'[Epoch] \in {mem[Epoch], pm[Epoch]}
        /\ \A i \in Cells : /\ pm'[Fc(i)] \in {mem[Fc(i)], pm[Fc(i)]}
                            /\ pm'[Lc(i)] \in {mem[Lc(i)], pm[Lc(i)]}
    BY <1>1, Locs
  <2>3. MemoryType(pm')
    BY <1>2, <2>1, <2>2 DEF PmemInv, Types, MemoryType
  <2> QED
    BY <1>0, <1>2, <2>3 DEF PmemInv, Types
<1>4. Waiting'
  BY <1>0 DEF PmemInv, Waiting
<1>5. Settled'
  <2>1. \A x \in Locations : pm'[x] = mem[x] \/ pm'[x] = pm[x]
    BY <1>1
  <2>2. pm[Epoch] <= pm'[Epoch] /\ pm'[Epoch] <= mem[Epoch] /\ pm'[Epoch] \in Int
    BY <1>2, Ints DEF PmemInv, Settled
  <2>3. ASSUME stale' PROVE pm'[Hdr].epoch < pm'[Epoch]
    <3>1. stale /\ pm'[Hdr] = pm[Hdr]
      BY <1>2, <2>3
    <3>2. pm[Hdr].epoch < pm[Epoch]
      BY <3>1 DEF PmemInv, Settled
    <3> QED
      BY <2>2, <3>1, <3>2, Ints
  <2> QED
    BY <1>0, <1>2, <2>1, <2>2, <2>3 DEF PmemInv, Settled
<1>6. Progress'
  <2>1. Sound(pm[Hdr])' /\ Sound(mem[Hdr])'
    BY <1>0, <1>2 DEF PmemInv, Progress, Sound
  <2> QED
    BY <1>0, <1>2, <2>1 DEF PmemInv, Progress, File
<1>7. LogInv'
  BY <1>0 DEF PmemInv, LogInv, Filled, GapsInFile, CallInv, Logged, Entry, File, Log
<1>8. Images'
  <2>1. ASSUME NEW m, Between(m, pm', mem') PROVE Between(m, pm, mem)
    BY <1>0, <1>1, <2>1 DEF Between
  <2>2. ASSUME NEW m, Between(m, pm', mem')
        PROVE  \/ Good(m, saved')
               \/ policy' = "UNDO" /\ pc' = "headed"
               \/ OldHeader' /\ m[Hdr] # mem'[Hdr]
    <3>1. Good(m, saved) \/ Excused(m)
      BY <2>1, <2>2, ImagesAre DEF PmemInv
    <3>2. l = Hdr => m[Hdr] = mem[Hdr]
      BY <1>0, <1>2, <2>2, Locs DEF Between
    <3> QED
      BY <1>0, <1>2, <3>1, <3>2 DEF Excused, LogUnordered, OldHeader
  <2> QED
    BY <1>0, <2>2, ImagesNextBut DEF PmemInv, Images
<1> QED
  BY <1>3, <1>4, <1>5, <1>6, <1>7, <1>8 DEF PmemInv

\* A fence only takes images away; behind the header of a log it leaves one,
\* which is good.
LEMMA FenceStep ==
    ASSUME PmemInv, Fence
    PROVE  PmemInv'
<1>0. /\ UNCHANGED <<mem, policy, used, dirty, saved>> /\ nt' = {}
      /\ pc \in {"applied", "renewed", "headed", "stored", "committing", "swept"}
  BY DEF Fence, Drained
<1>1. pm' = [x \in Locations |-> IF x \in nt THEN mem[x] ELSE pm[x]]
  BY DEF Fence, Drained
<1>2. /\ pc = "applied" => pc' = "renew"
      /\ pc = "renewed" => pc' = "log"
      /\ pc = "headed" /\ policy = "UNDO" => pc' = "store"
      /\ pc = "headed" /\ policy = "REDO" => pc' = "idle"
      /\ pc \in {"stored", "committing"} => pc' = "idle"
      /\ pc = "swept" => pc' = "free"
      /\ req' = IF pc' = "idle" THEN {} ELSE req
  BY DEF Fence, AfterFence
<1>S. stale' = (stale /\ Hdr \notin nt)
  BY DEF Fence, Drained
<1>3. /\ pm'[Hdr] \in {mem[Hdr], pm[Hdr]} /\ (Hdr \in nt => pm'[Hdr] = mem[Hdr])
      /\ Hdr \notin nt => pm'[Hdr] = pm[Hdr]
      /\ \A x \in Locations : x # Hdr => pm'[x] = mem[x]
  BY <1>1, Locs DEF PmemInv, Settled
<1>P. policy \in {"UNDO", "REDO"}
  BY DEF PmemInv, Types
<1>4. Types'
  <2>1. pm' = [x \in Locations |-> pm'[x]]
    BY <1>1
  <2>2. /\ pm'[Epoch] = mem[Epoch]
        /\ \A i \in Cells : pm'[Fc(i)] = mem[Fc(i)] /\ pm'[Lc(i)] = mem[Lc(i)]
    BY <1>3, Locs
  <2>3. MemoryType(pm')
    BY <1>3, <2>1, <2>2 DEF PmemInv, Types, MemoryType
  <2> QED
    BY <1>0, <1>S, <2>3 DEF PmemInv, Types
<1>5. Waiting'
  BY <1>0, <1>2, <1>P DEF Waiting
<1>6. Settled'
  <2>1. pc' = "store" => Hdr \in nt
    BY <1>0, <1>2, <1>P DEF PmemInv, Waiting
  <2>2. pc' # "stored"
    BY <1>0, <1>2, <1>P
  <2>3. pm'[Epoch] = mem[Epoch]
    BY <1>3, Locs
  <2>4. ASSUME stale' PROVE pm'[Hdr].epoch < pm'[Epoch]
    <3>1. stale /\ pm'[Hdr] = pm[Hdr]
      BY <1>3, <1>S, <2>4
    <3>2. pm[Hdr].epoch < pm[Epoch] /\ pm[Epoch] <= mem[Epoch]
      BY <3>1 DEF PmemInv, Settled
    <3> QED
      BY <2>3, <3>1, <3>2, Ints
  <2>5. pm'[Epoch] <= mem[Epoch]
    BY <2>3, Ints
  <2> QED
    BY <1>0, <1>3, <1>S, <2>1, <2>2, <2>4, <2>5 DEF PmemInv, Settled
<1>7. Progress'
  <2>1. Sound(pm[Hdr])' /\ Sound(mem[Hdr])'
    BY <1>0, <1>3 DEF PmemInv, Progress, Sound
  <2>2. File(mem)' = File(mem)
    BY <1>0 DEF File
  <2> QED
    BY <1>0, <1>2, <1>3, <1>P, <2>1, <2>2 DEF PmemInv, Progress, Calls, Idles
<1>8. LogInv'
  <2>1. Filled' /\ GapsInFile'
    BY <1>0 DEF PmemInv, LogInv, Filled, GapsInFile
  <2>2. CallInv'
    BY <1>0, <1>2, <1>P DEF PmemInv, LogInv, CallInv, Calls
  <2> QED
    BY <2>1, <2>2 DEF LogInv
<1>9. Images'
  <2>1. CASE pc = "headed"
    <3>1. Hdr \in nt
      BY <2>1 DEF PmemInv, Waiting
    <3>2. ASSUME NEW m, Between(m, pm', mem') PROVE m = mem
      BY <1>0, <1>3, <3>1, <3>2, MemoryOf DEF Between, PmemInv
    <3> QED
      BY <1>0, <3>2, ImagesNext DEF PmemInv, Images
  <2>2. CASE pc # "headed"
    <3>1. ASSUME NEW m, Between(m, pm', mem') PROVE Between(m, pm, mem)
      BY <1>0, <1>1, <3>1 DEF Between
    <3> QED
      BY <1>0, <2>2, <3>1, ImagesOf, ImagesNext DEF PmemInv, Images
  <2> QED
    BY <2>1, <2>2
<1> QED
  BY <1>4, <1>5, <1>6, <1>7, <1>8, <1>9 DEF PmemInv

\* A new entry is empty; if its header has not reached persistent memory, an
\* old one is there, whose log the file holds.
LEMMA GetLogEntryStep ==
    ASSUME PmemInv, GetLogEntry, pc = "idle", used' = TRUE,
           UNCHANGED <<pm, nt, policy, dirty, saved, stale>>,
           \/ pc' = pc /\ req' = req
           \/ /\ pc' = "check"
              /\ \E r \in Requests : /\ req' = {r}
                                     /\ policy = "UNDO" => dirty \cap Written(r) = {}
    PROVE  PmemInv'
<1> DEFINE h == [mem[Hdr] EXCEPT !.epoch = mem[Epoch]]
<1>0. nt = {} /\ req = {} /\ pc' \in {"idle", "check"}
  BY DEF PmemInv, Waiting, Progress, Calls
<1>1. /\ \A l \in Locations : l # Hdr => mem'[l] = mem[l]
      /\ mem'[Epoch] = mem[Epoch] /\ File(mem') = File(mem)
      /\ \A i \in Cells : mem'[Fc(i)] = mem[Fc(i)] /\ mem'[Lc(i)] = mem[Lc(i)]
      /\ MemoryType(mem') /\ mem'[Hdr] \in Hdrs
      /\ mem' # mem => /\ mem'[Hdr].len = 0 /\ mem'[Hdr].policy = "UNDO"
                       /\ mem'[Hdr].offset = 0 /\ mem'[Hdr].epoch = mem[Epoch]
                       /\ mem[Hdr] = FreeHdr
  <2>1. CASE used
    <3>1. mem' = mem
      BY <2>1 DEF GetLogEntry
    <3> QED
      BY <3>1, MemoryOf DEF PmemInv, Types
  <2>2. CASE ~used
    <3>1. Stores(OneStore(Hdr, h))
      BY <2>2 DEF GetLogEntry
    <3>2. mem[Hdr] = FreeHdr
      BY <2>2 DEF PmemInv, Progress
    <3>3. h \in Hdrs /\ h.len = 0 /\ h.policy = "UNDO" /\ h.offset = 0 /\ h.epoch = mem[Epoch]
      <4>1. PICK x : x = mem[Epoch]
        OBVIOUS
      <4>2. x \in 0 .. MaxEpoch
        BY <4>1, MemoryOf DEF PmemInv
      <4>3. [FreeHdr EXCEPT !.epoch = x] =
              [epoch |-> x, offset |-> 0, len |-> 0, policy |-> "UNDO"]
        BY DEF FreeHdr
      <4>4. h = [epoch |-> x, offset |-> 0, len |-> 0, policy |-> "UNDO"]
        BY <3>2, <4>1, <4>3
      <4> QED
        BY <4>1, <4>2, <4>4, LogSizeAssumption DEF Hdrs
    <3> HIDE DEF h
    <3> QED
      BY <3>1, <3>2, <3>3, HeaderStore DEF PmemInv
  <2> QED
    BY <2>1, <2>2
<1>2. /\ \A l \in Locations : l # Hdr => pm[l] = mem[l]
      /\ \/ pm[Hdr] = mem[Hdr]
         \/ /\ mem[Hdr].len = 0 /\ mem[Hdr].policy = "UNDO"
            /\ stale \/ pm[Hdr] = FreeHdr
  BY <1>0, Calm DEF PmemInv
<1>3. Types'
  BY <1>1 DEF PmemInv, Types
<1>4. Waiting'
  BY <1>0 DEF PmemInv, Waiting
<1>5. Settled'
  BY <1>0, <1>1, <1>2 DEF PmemInv, Settled
<1>6. Progress'
  <2>1. Sound(mem[Hdr])
    BY DEF PmemInv, Progress
  <2>2. Sound(mem[Hdr])'
    <3>1. CASE mem' = mem
      BY <2>1, <3>1 DEF Sound
    <3>2. CASE mem' # mem
      BY <1>1, <3>2, LogSizeAssumption, MemoryOf, PmemLogAssumption DEF Sound, PmemInv
    <3> QED
      BY <3>1, <3>2
  <2>3. Sound(pm[Hdr])'
    BY <1>1 DEF PmemInv, Progress, Sound
  <2>4. IF pc' \in Calls THEN used' /\ \E r \in Requests : req' = {r} ELSE req' = {}
    BY <1>0 DEF Calls
  <2> QED
    BY <1>0, <2>2, <2>3, <2>4 DEF Progress, Calls, Idles
<1>7. LogInv'
  <2>1. ASSUME NEW i \in Cells, Covers(mem'[Hdr], i)
        PROVE  mem'[Hdr] = mem[Hdr]
    BY <1>1, <2>1, EmptyCovers
  <2>2. Filled' /\ GapsInFile'
    BY <1>1, <2>1 DEF PmemInv, LogInv, Filled, GapsInFile
  <2>3. CallInv'
    BY <1>0 DEF CallInv
  <2> QED
    BY <2>2, <2>3 DEF LogInv
<1>8. Images'
  <2>1. ASSUME NEW m, Between(m, pm', mem') PROVE Good(m, saved)
    <3>1. CASE mem' = mem
      BY <2>1, <3>1, ImagesOf DEF PmemInv
    <3>2. CASE mem' # mem
      <4>1. /\ m[Epoch] = mem[Epoch] /\ m[Hdr] \in {pm[Hdr], mem'[Hdr]}
            /\ \A i \in Cells : m[Fc(i)] = mem[Fc(i)]
        BY <1>1, <1>2, <2>1, <3>2, Locs DEF Between
      <4>2. CASE m[Hdr] = pm[Hdr]
        <5>1. Between(m, pm, mem)
          BY <1>1, <2>1, <4>2 DEF Between
        <5> QED
          BY <5>1, ImagesOf DEF PmemInv
      <4>3. CASE m[Hdr] = mem'[Hdr]
        <5>1. \A i \in Cells : ~Covers(m[Hdr], i) /\ ~Covers(mem[Hdr], i)
          BY <1>1, <3>2, <4>3, FreeHdrIs, EmptyCovers
        <5>2. \A i \in Cells : Cell(mem, i) = Cell(m, i)
          BY <4>1, <5>1 DEF Cell
        <5> QED
          BY <4>1, <5>2, SameGood DEF PmemInv, Images
      <4> QED
        BY <4>1, <4>2, <4>3
    <3> QED
      BY <3>1, <3>2
  <2>2. Between(mem', pm', mem')
    BY <1>3, MemImage DEF Types, MemoryType, Between
  <2> QED
    BY <2>1, <2>2, ImagesNext
<1> QED
  BY <1>3, <1>4, <1>5, <1>6, <1>7, <1>8 DEF PmemInv

LEMMA ReadStep ==
    ASSUME PmemInv, Read
    PROVE  PmemInv'
BY GetLogEntryStep DEF Read

LEMMA BeginStep ==
    ASSUME PmemInv, NEW r \in Requests, Begin(r)
    PROVE  PmemInv'
BY GetLogEntryStep DEF Begin

\* An undo log whose epoch is over is not rolled back: the file is what the
\* last fsync saw.
LEMMA FileIsSaved ==
    ASSUME PmemInv, Committed, mem[Hdr].policy = "UNDO"
    PROVE  File(mem) = saved[mem[Epoch] + 1]
<1>1. \A i \in Cells : Cell(mem, i) = mem[Fc(i)]
  BY DEF Cell, Rolls, Committed
<1> QED
  BY <1>1, GoodFile DEF PmemInv, Images

LEMMA CheckStep ==
    ASSUME PmemInv, Check
    PROVE  PmemInv'
<1>0. /\ UNCHANGED <<mem, pm, nt, policy, used, req, dirty, saved, stale>> /\ pc = "check"
      /\ pc' = IF ~Committed THEN "log" ELSE IF mem[Hdr].policy = "REDO" THEN "apply" ELSE "renew"
  BY DEF Check
<1>1. mem[Hdr].policy \in {"UNDO", "REDO"} /\ mem[Hdr].epoch \in Int /\ mem[Epoch] \in Int
  BY MemoryOf, HdrFields, PmemLogAssumption DEF PmemInv
<1>2. Types' /\ Waiting' /\ Settled'
  BY <1>0 DEF PmemInv, Types, Waiting, Settled
<1>3. Progress'
  <2>1. Sound(pm[Hdr])' /\ Sound(mem[Hdr])'
    BY <1>0 DEF PmemInv, Progress, Sound
  <2>2. pc' = "renew" => File(mem) = saved[mem[Epoch] + 1]
    BY <1>0, <1>1, FileIsSaved
  <2>3. pc' = "log" => mem[Hdr].epoch = mem[Epoch]
    BY <1>0, <1>1 DEF PmemInv, Progress, Sound, Committed
  <2>4. pc' = "apply" => mem[Hdr].policy = "REDO" /\ mem[Hdr].epoch < mem[Epoch]
    BY <1>0 DEF Committed
  <2>5. pc' \in {"log", "apply", "renew"} /\ File(mem)' = File(mem)
    BY <1>0 DEF File
  <2> QED
    BY <1>0, <2>1, <2>2, <2>3, <2>4, <2>5 DEF PmemInv, Progress, Calls, Idles
<1>4. LogInv'
  <2>1. Filled' /\ GapsInFile'
    BY <1>0 DEF PmemInv, LogInv, Filled, GapsInFile
  <2>2. CallInv'
    BY <1>0 DEF PmemInv, LogInv, CallInv, Calls
  <2> QED
    BY <2>1, <2>2 DEF LogInv
<1>5. Images'
  BY <1>0, ImagesOf, ImagesNext DEF PmemInv, Images
<1> QED
  BY <1>2, <1>3, <1>4, <1>5 DEF PmemInv

\* While a committed redo log is copied to the file, recovery copies the same
\* cells again; when they are all there, the file is what the fsync saw.
LEMMA CopyStep ==
    ASSUME PmemInv, NtStores(Applied), UNCHANGED <<pm, policy, used, req, dirty, saved, stale>>,
           nt = {}, used, mem[Hdr].policy = "REDO", mem[Hdr].epoch < mem[Epoch],
           \/ pc = "apply" /\ pc' = "applied"
           \/ pc = "idle" /\ pc' = "swept"
    PROVE  PmemInv'
<1> DEFINE S == {i \in Cells : Covers(mem[Hdr], i)}
<1>H. /\ mem[Hdr] \in Hdrs /\ mem[Hdr].offset \in Int /\ mem[Hdr].len \in Int
      /\ mem[Hdr].offset >= 0
      /\ mem[Hdr].offset + mem[Hdr].len <= LogSize
  BY MemoryOf, HdrFields, LogSizeAssumption DEF PmemInv, Progress, Sound
<1>1. InUse(Entry(mem)) = S
  <2>1. Entry(mem).offset = mem[Hdr].offset /\ Entry(mem).len = mem[Hdr].len
    BY DEF Entry
  <2> QED
    BY <1>H, <2>1, LogSizeAssumption DEF InUse, Covers, Cells
<1>2. /\ DOMAIN Applied = FileCells(S) /\ Stores(Applied) /\ nt' = FileCells(S)
      /\ \A i \in S : Applied[Fc(i)] = mem[Lc(i)]
  <2>1. Applied = [l \in FileCells(S) |-> mem[<<"log", l[2]>>]]
    BY <1>1 DEF Applied
  <2>2. \A i \in S : Fc(i) \in FileCells(S) /\ Fc(i)[2] = i
    BY CellSets, Locs
  <2> QED
    BY <2>1, <2>2 DEF NtStores, Lc
<1>3. \A i \in S : mem[Lc(i)] \in Val
  BY MemoryOf DEF PmemInv, LogInv, Filled
<1>4. /\ MemoryType(mem') /\ mem'[Hdr] = mem[Hdr] /\ mem'[Epoch] = mem[Epoch]
      /\ \A l \in Locations : l \notin FileCells(S) => mem'[l] = mem[l]
      /\ \A i \in Cells : /\ mem'[Fc(i)] = IF i \in S THEN mem[Lc(i)] ELSE mem[Fc(i)]
                          /\ mem'[Lc(i)] = mem[Lc(i)]
  <2> HIDE DEF S
  <2>1. S \in SUBSET Cells
    BY DEF S
  <2> QED
    BY <1>2, <1>3, <2>1, FileStore DEF PmemInv
<1>5. pm[Hdr] = mem[Hdr] /\ \A l \in Locations : pm[l] = mem[l]
  BY Calm DEF PmemInv
<1>6. Types'
  BY <1>2, <1>4, CellSets DEF PmemInv, Types
<1>7. Waiting'
  BY <1>2, CellSets DEF PmemInv, Waiting
<1>8. Settled'
  BY <1>2, <1>4, <1>5 DEF PmemInv, Settled
<1>9. ASSUME NEW m, Between(m, pm', mem')
      PROVE  Good(m, saved)
  <2>1. /\ m[Hdr] = mem[Hdr] /\ m[Epoch] = mem[Epoch]
        /\ \A i \in Cells : /\ m[Lc(i)] = mem[Lc(i)]
                            /\ i \notin S => m[Fc(i)] = mem[Fc(i)]
    BY <1>4, <1>5, <1>9, Locs DEF Between
  <2>2. Rolls(m) /\ Rolls(mem)
    BY <2>1 DEF Rolls
  <2>3. \A i \in Cells : Cell(mem, i) = Cell(m, i)
    BY <2>1, <2>2 DEF Cell
  <2> QED
    BY <2>1, <2>3, SameGood DEF PmemInv, Images
<1>10. Good(mem', saved)
  <2>1. Between(mem', pm', mem')
    BY <1>4 DEF MemoryType, Between
  <2> QED
    BY <1>9, <2>1
<1>11. File(mem') = saved[mem[Epoch] + 1]
  <2>1. \A i \in Cells : Cell(mem', i) = mem'[Fc(i)]
    BY <1>4 DEF Cell
  <2> QED
    BY <1>4, <1>10, <2>1, GoodFile
<1>12. Progress'
  <2>1. Sound(pm[Hdr])' /\ Sound(mem[Hdr])'
    BY <1>4 DEF PmemInv, Progress, Sound
  <2>2. File(mem)' = saved'[mem'[Epoch] + 1]
    BY <1>4, <1>11
  <2> QED
    BY <1>4, <2>1, <2>2 DEF PmemInv, Progress, Calls, Idles
<1>13. LogInv'
  <2>1. Filled'
    BY <1>4 DEF PmemInv, LogInv, Filled
  <2>2. GapsInFile'
    <3>1. mem'[Hdr].epoch # mem'[Epoch]
      BY <1>4, MemoryOf, HdrFields, PmemLogAssumption DEF PmemInv
    <3> QED
      BY <3>1 DEF GapsInFile
  <2>3. CallInv'
    BY DEF PmemInv, LogInv, CallInv, Calls, Progress
  <2> QED
    BY <2>1, <2>2, <2>3 DEF LogInv
<1>14. Images'
  BY <1>9, <1>10, ImagesNext
<1> QED
  BY <1>6, <1>7, <1>8, <1>12, <1>13, <1>14 DEF PmemInv

LEMMA ApplyStep ==
    ASSUME PmemInv, Apply
    PROVE  PmemInv'
<1>1. nt = {} /\ used /\ mem[Hdr].policy = "REDO" /\ mem[Hdr].epoch < mem[Epoch]
  BY DEF PmemInv, Waiting, Progress, Apply, Calls
<1> QED
  BY <1>1, CopyStep DEF Apply

LEMMA CheckpointStep ==
    ASSUME PmemInv, Checkpoint
    PROVE  PmemInv'
<1>1. /\ nt = {} /\ used /\ mem[Hdr].epoch < mem[Epoch] /\ pc = "idle" /\ req = {}
      /\ UNCHANGED <<pm, policy, used, req, dirty, saved, stale>>
  BY DEF PmemInv, Waiting, Progress, Calls, Checkpoint, Committed
<1>2. CASE mem[Hdr].policy = "REDO" /\ NtStores(Applied) /\ pc' = "swept"
  BY <1>1, <1>2, CopyStep
<1>3. CASE mem[Hdr].policy = "UNDO" /\ pc' = "free" /\ UNCHANGED <<mem, nt>>
  <2>1. Types' /\ Waiting' /\ Settled'
    BY <1>1, <1>3 DEF PmemInv, Types, Waiting, Settled
  <2>2. Sound(pm[Hdr])' /\ Sound(mem[Hdr])'
    BY <1>1, <1>3 DEF PmemInv, Progress, Sound
  <2>3. File(mem)' = saved'[mem'[Epoch] + 1]
    BY <1>1, <1>3, FileIsSaved DEF Committed
  <2>4. Progress'
    BY <1>1, <1>3, <2>2, <2>3 DEF PmemInv, Progress, Calls, Idles
  <2>5. LogInv'
    BY <1>1, <1>3 DEF PmemInv, LogInv, Filled, GapsInFile, CallInv
  <2>6. Images'
    BY <1>1, <1>3, ImagesOf, ImagesNext DEF PmemInv, Images
  <2> QED
    BY <2>1, <2>4, <2>5, <2>6 DEF PmemInv
<1> QED
  BY <1>2, <1>3 DEF Checkpoint

\* checkpoint_entry empties the log once the file holds it.
LEMMA RenewStep ==
    ASSUME PmemInv, Renew
    PROVE  PmemInv'
<1> DEFINE h == [FreeHdr EXCEPT !.epoch = mem[Epoch], !.policy = policy]
<1>0. /\ pc = "renew" /\ pc' = "renewed" /\ nt = {} /\ nt' = {Hdr} /\ used
      /\ UNCHANGED <<pm, policy, used, req, dirty, saved, stale>>
      /\ Stores(OneStore(Hdr, h)) /\ \E r \in Requests : req = {r}
  BY DEF PmemInv, Waiting, Progress, Calls, Renew, NtStores, OneStore
<1>1. h \in Hdrs /\ h.len = 0 /\ h.offset = 0 /\ h.epoch = mem[Epoch]
  <2>1. PICK x, y : x = mem[Epoch] /\ y = policy
    OBVIOUS
  <2>2. x \in 0 .. MaxEpoch /\ y \in {"UNDO", "REDO"}
    BY <2>1, MemoryOf DEF PmemInv, Types
  <2>3. PICK k : k = FreeHdr /\ k \in Hdrs
    BY FreeHdrIs
  <2>4. LET z == [k EXCEPT !.epoch = x, !.policy = y]
        IN  z \in Hdrs /\ z.len = k.len /\ z.offset = k.offset /\ z.epoch = x
    BY <2>2, <2>3 DEF Hdrs
  <2> QED
    BY <2>1, <2>3, <2>4, FreeHdrIs
<1> HIDE DEF h
<1>2. /\ MemoryType(mem') /\ mem'[Hdr] = h
      /\ \A l \in Locations : l # Hdr => mem'[l] = mem[l]
      /\ mem'[Epoch] = mem[Epoch]
      /\ \A i \in Cells : mem'[Fc(i)] = mem[Fc(i)] /\ mem'[Lc(i)] = mem[Lc(i)]
      /\ File(mem') = File(mem)
  BY <1>0, <1>1, HeaderStore DEF PmemInv
<1>3. \A l \in Locations : l # Hdr => pm[l] = mem[l]
  BY <1>0, Calm DEF PmemInv
<1>4. \A i \in Cells : ~Covers(h, i)
  BY <1>1, EmptyCovers
<1>5. Types'
  BY <1>0, <1>2, Locs DEF PmemInv, Types
<1>6. Waiting' /\ Settled'
  <2>1. pm'[Epoch] <= mem'[Epoch] /\ (stale' => pm'[Hdr].epoch < pm'[Epoch])
    BY <1>0, <1>2 DEF PmemInv, Settled
  <2> QED
    BY <1>0, <1>2, <1>3, <2>1 DEF Waiting, Settled
<1>7. Progress'
  <2>1. Sound(pm[Hdr])'
    BY <1>0, <1>2 DEF PmemInv, Progress, Sound
  <2>2. Sound(mem[Hdr])'
    BY <1>1, <1>2, MemoryOf, LogSizeAssumption, PmemLogAssumption DEF Sound, PmemInv
  <2> QED
    BY <1>0, <1>1, <1>2, <2>1, <2>2 DEF Progress, Calls, Idles
<1>8. LogInv'
  <2>1. Filled' /\ GapsInFile'
    BY <1>2, <1>4 DEF Filled, GapsInFile
  <2>2. CallInv'
    BY <1>0 DEF PmemInv, LogInv, CallInv, Calls
  <2> QED
    BY <2>1, <2>2 DEF LogInv
<1>9. ASSUME NEW m, Between(m, pm', mem')
      PROVE  Good(m, saved)
  <2>1. \A l \in Locations : l # Hdr => m[l] = mem[l] /\ m[l] = pm[l]
    BY <1>0, <1>2, <1>3, <1>9 DEF Between
  <2>2. m[Hdr] = pm[Hdr] \/ m[Hdr] = h
    BY <1>0, <1>2, <1>9, Locs DEF Between
  <2>3. CASE m[Hdr] = pm[Hdr]
    <3>1. Between(m, pm, mem)
      BY <1>9, <2>1, <2>3 DEF Between
    <3> QED
      BY <1>0, <3>1, ImagesOf DEF PmemInv
  <2>4. CASE m[Hdr] = h
    <3>1. \A i \in Cells : Cell(m, i) = m[Fc(i)] /\ m[Fc(i)] = mem[Fc(i)]
      BY <1>4, <2>1, <2>4, Locs DEF Cell
    <3>2. File(m) = File(mem) /\ m[Epoch] = mem[Epoch]
      BY <2>1, <3>1, Locs DEF File, Fc
    <3>3. File(mem) = saved[mem[Epoch] + 1]
      BY <1>0 DEF PmemInv, Progress
    <3> QED
      BY <3>1, <3>2, <3>3, GoodFile
  <2> QED
    BY <2>2, <2>3, <2>4
<1>10. Images'
  <2>1. Between(mem', pm', mem')
    BY <1>2 DEF MemoryType, Between
  <2> QED
    BY <1>0, <1>9, <2>1, ImagesNext
<1> QED
  BY <1>5, <1>6, <1>7, <1>8, <1>10 DEF PmemInv

\* What the entry at work promises about a write r to be logged.
LEMMA CallFacts ==
    ASSUME PmemInv, NEW r \in req
    PROVE  /\ r \in Requests /\ req = {r} /\ used /\ pc \in Calls
           /\ mem[Hdr] \in Hdrs /\ mem[Hdr].offset + mem[Hdr].len <= LogSize
           /\ mem[Hdr].len > 0 => mem[Hdr].policy = policy
           /\ policy \in {"UNDO", "REDO"} /\ Logged(r) = LogOf(mem, policy, r)
<1>1. r \in Requests /\ req = {r} /\ used /\ pc \in Calls
  BY DEF PmemInv, Progress
<1>2. /\ mem[Hdr] \in Hdrs /\ mem[Hdr].offset + mem[Hdr].len <= LogSize
      /\ mem[Hdr].len > 0 => mem[Hdr].policy = policy
      /\ policy \in {"UNDO", "REDO"}
  BY MemoryOf DEF PmemInv, Progress, Sound, Types
<1>3. Logged(r) = LogOf(mem, policy, r)
  BY DEF Logged, LogOf
<1> QED
  BY <1>1, <1>2, <1>3

LEMMA LogDataStep ==
    ASSUME PmemInv, NEW r \in req, LogData(r)
    PROVE  PmemInv'
<1> DEFINE w == Logged(r)
           S == {i \in Cells : w.log[i] # mem[Lc(i)]}
           f == [l \in LogCells(S) |-> w.log[l[2]]]
<1>0. /\ pc = "log" /\ pc' = "head" /\ nt = {} /\ mem[Hdr].epoch = mem[Epoch]
      /\ UNCHANGED <<pm, policy, used, req, dirty, saved, stale>>
  BY DEF PmemInv, Waiting, Progress, LogData
<1>1. /\ r \in Requests /\ req = {r} /\ used
      /\ mem[Hdr] \in Hdrs /\ mem[Hdr].offset + mem[Hdr].len <= LogSize
      /\ mem[Hdr].len > 0 => mem[Hdr].policy = policy
      /\ policy \in {"UNDO", "REDO"} /\ w = LogOf(mem, policy, r)
  BY CallFacts
<1>2. Stores(f) /\ nt' = LogCells(S)
  BY <1>0 DEF LogData, NtStores, Lc
<1>3. PICK u : u = w
  OBVIOUS
<1>4. /\ u.log \in [Cells -> Val \cup {Junk}]
      /\ \A i \in Cells :
            /\ i \in Written(r) \/ Covers(mem[Hdr], i) => Covers(u, i)
            /\ Covers(u, i) =>
                  u.log[i] = IF i \in Written(r)
                             THEN IF policy = "UNDO" THEN mem[Fc(i)] ELSE r.data[i]
                             ELSE IF Covers(mem[Hdr], i) THEN mem[Lc(i)] ELSE mem[Fc(i)]
  <2>1. MemoryType(mem)
    BY DEF PmemInv, Types
  <2>2. u = LogOf(mem, policy, r)
    BY <1>1, <1>3
  <2> QED
    BY <1>1, <2>1, <2>2, LoggedFacts
<1>5. S \in SUBSET Cells /\ S = {i \in Cells : u.log[i] # mem[Lc(i)]}
  BY <1>3
<1>6. DOMAIN f = LogCells(S) /\ \A i \in S : f[Lc(i)] = u.log[i]
  <2>1. \A i \in S : Lc(i) \in LogCells(S) /\ Lc(i)[2] = i
    BY CellSets, Locs
  <2> QED
    BY <1>3, <2>1
<1> HIDE DEF w, S, f
<1>7. /\ MemoryType(mem') /\ mem'[Hdr] = mem[Hdr] /\ mem'[Epoch] = mem[Epoch]
      /\ \A l \in Locations : l \notin LogCells(S) => mem'[l] = mem[l]
      /\ \A i \in Cells : mem'[Lc(i)] = u.log[i] /\ mem'[Fc(i)] = mem[Fc(i)]
      /\ File(mem') = File(mem)
  <2>1. \A i \in S : f[Lc(i)] \in Val \cup {Junk}
    BY <1>4, <1>5, <1>6
  <2>2. /\ MemoryType(mem') /\ mem'[Hdr] = mem[Hdr] /\ mem'[Epoch] = mem[Epoch]
        /\ \A l \in Locations : l \notin LogCells(S) => mem'[l] = mem[l]
        /\ \A i \in Cells : /\ mem'[Lc(i)] = IF i \in S THEN f[Lc(i)] ELSE mem[Lc(i)]
                            /\ mem'[Fc(i)] = mem[Fc(i)]
        /\ File(mem') = File(mem)
    BY <1>2, <1>5, <1>6, <2>1, LogStore DEF PmemInv
  <2> QED
    BY <1>5, <1>6, <2>2
<1>8. /\ \A l \in Locations : l # Hdr => pm[l] = mem[l]
      /\ \/ pm[Hdr] = mem[Hdr]
         \/ /\ mem[Hdr].len = 0 /\ mem[Hdr].policy = "UNDO"
            /\ stale \/ pm[Hdr] = FreeHdr
  BY <1>0, Calm DEF PmemInv
<1>9. policy = "UNDO" => dirty \cap Written(r) = {}
  BY <1>0 DEF PmemInv, LogInv, CallInv, Calls
\* The part of the log in use keeps its cells, or gets them from the file
\* once more.
<1>10. ASSUME NEW i \in Cells, Covers(mem[Hdr], i), policy = "UNDO"
       PROVE  u.log[i] = mem[Lc(i)]
  <2>1. i \in Written(r) => mem[Lc(i)] = mem[Fc(i)]
    BY <1>0, <1>9, <1>10 DEF PmemInv, LogInv, GapsInFile
  <2> QED
    BY <1>4, <1>10, <2>1
<1>11. Types'
  BY <1>0, <1>2, <1>5, <1>7, CellSets DEF PmemInv, Types
<1>12. Waiting'
  BY <1>0, <1>2, <1>5, CellSets DEF Waiting
<1>13. Settled'
  BY <1>0, <1>2, <1>5, <1>7, <1>8 DEF PmemInv, Settled
<1>14. Progress'
  <2>1. Sound(pm[Hdr])' /\ Sound(mem[Hdr])'
    BY <1>0, <1>7 DEF PmemInv, Progress, Sound
  <2> QED
    BY <1>0, <1>1, <1>7, <2>1 DEF Progress, Calls, Idles
<1>15. LogInv'
  <2>1. Filled'
    <3>1. ASSUME NEW i \in Cells, Covers(mem[Hdr], i) PROVE u.log[i] # Junk
      <4>1. mem[Fc(i)] # Junk /\ r.data[i] # Junk
        BY <1>1, MemoryOf, RequestIs, PmemLogAssumption DEF PmemInv
      <4>2. mem[Lc(i)] # Junk
        BY <3>1 DEF PmemInv, LogInv, Filled
      <4> QED
        BY <1>4, <3>1, <4>1, <4>2
    <3> QED
      BY <1>7, <3>1 DEF Filled
  <2>2. GapsInFile'
    BY <1>0, <1>7, <1>10 DEF PmemInv, LogInv, GapsInFile
  <2>3. CallInv'
    <3>1. Logged(r)' = LogOf(mem', policy, r)
      BY <1>0 DEF Logged, LogOf
    <3>2. PICK v : v = LogOf(mem', policy, r)
      OBVIOUS
    <3>3. \A i \in Cells :
             Covers(v, i) =>
                v.log[i] = IF i \in Written(r)
                           THEN IF policy = "UNDO" THEN mem'[Fc(i)] ELSE r.data[i]
                           ELSE IF Covers(mem'[Hdr], i) THEN mem'[Lc(i)] ELSE mem'[Fc(i)]
      BY <1>1, <1>7, <3>2, LoggedFacts
    <3>4. \A i \in Cells : Covers(v, i) <=> Covers(u, i)
      <4>1. v.offset = u.offset /\ v.len = u.len
        <5>1. /\ Entry(mem').offset = Entry(mem).offset /\ Entry(mem').len = Entry(mem).len
          BY <1>7 DEF Entry
        <5>2. u = LogOf(mem, policy, r)
          BY <1>1, <1>3
        <5>3. PICK e, e2, d, d2, b, b2 :
                 /\ e = Entry(mem) /\ e2 = Entry(mem')
                 /\ u = LogWrite(e, r.lo, r.n, d, b, policy)
                 /\ v = LogWrite(e2, r.lo, r.n, d2, b2, policy)
          BY <3>2, <5>2 DEF LogOf
        <5>4. /\ e.offset = mem[Hdr].offset /\ e.len = mem[Hdr].len
              /\ e2.offset = mem[Hdr].offset /\ e2.len = mem[Hdr].len
          BY <1>7, <5>3 DEF Entry
        <5>5. /\ e = [offset |-> e.offset, len |-> e.len, policy |-> e.policy,
                      epoch |-> e.epoch, log |-> e.log]
              /\ e2 = [offset |-> e2.offset, len |-> e2.len, policy |-> e2.policy,
                       epoch |-> e2.epoch, log |-> e2.log]
          BY <5>3 DEF Entry
        <5> QED
          BY <5>3, <5>4, <5>5 DEF LogWrite
      <4> QED
        BY <4>1 DEF Covers
    <3>5. \A i \in Cells : Covers(v, i) => mem'[Lc(i)] = v.log[i]
      BY <1>4, <1>7, <3>3, <3>4
    <3>6. \A i \in Cells : Covers(Logged(r)', i) => mem'[Lc(i)] = Logged(r)'.log[i]
      BY <3>1, <3>2, <3>5
    <3>7. policy' = "UNDO" => dirty' \cap Written(r) = {}
      BY <1>0, <1>9
    <3>8. req' = {r}
      BY <1>0, <1>1
    <3> QED
      BY <1>0, <3>6, <3>7, <3>8 DEF CallInv, Calls
  <2> QED
    BY <2>1, <2>2, <2>3 DEF LogInv
<1>16. ASSUME NEW m, Between(m, pm', mem'),
              ~(policy = "REDO" /\ stale /\ m[Hdr] # mem'[Hdr])
       PROVE  Good(m, saved)
  <2>1. /\ m[Epoch] = mem[Epoch]
        /\ \A i \in Cells : /\ m[Fc(i)] = mem[Fc(i)]
                            /\ m[Lc(i)] = mem[Lc(i)] \/ m[Lc(i)] = u.log[i]
        /\ \/ m[Hdr] = mem[Hdr]
           \/ /\ m[Hdr] = pm[Hdr] /\ mem[Hdr].len = 0
              /\ m[Hdr] = FreeHdr \/ (stale /\ policy = "UNDO")
    <3>1. \A l \in Locations : m[l] = pm[l] \/ m[l] = mem'[l]
      BY <1>0, <1>16 DEF Between
    <3>2. pm[Epoch] = mem[Epoch] /\ \A i \in Cells : pm[Fc(i)] = mem[Fc(i)] /\ pm[Lc(i)] = mem[Lc(i)]
      BY <1>8, Locs
    <3>3. m[Epoch] = mem[Epoch]
      BY <1>7, <3>1, <3>2, Locs
    <3>4. \A i \in Cells : /\ m[Fc(i)] = mem[Fc(i)]
                           /\ m[Lc(i)] = mem[Lc(i)] \/ m[Lc(i)] = u.log[i]
      BY <1>7, <3>1, <3>2, Locs
    <3>5. \/ m[Hdr] = mem[Hdr]
          \/ /\ m[Hdr] = pm[Hdr] /\ mem[Hdr].len = 0
             /\ m[Hdr] = FreeHdr \/ (stale /\ policy = "UNDO")
      BY <1>1, <1>7, <1>8, <1>16, <3>1, Locs
    <3> QED
      BY <3>3, <3>4, <3>5
  <2>2. ASSUME NEW i \in Cells PROVE Cell(mem, i) = Cell(m, i)
    <3>1. CASE mem[Hdr].len = 0
      <4>1. ~Covers(mem[Hdr], i)
        BY <1>1, <3>1, EmptyCovers
      <4>2. Covers(m[Hdr], i) => ~Rolls(m)
        <5>1. CASE m[Hdr] = mem[Hdr] \/ m[Hdr] = FreeHdr
          BY <4>1, <5>1, FreeHdrIs, EmptyCovers
        \* The old header of an undo log, which is not rolled back.
        <5>2. CASE m[Hdr] = pm[Hdr] /\ stale /\ policy = "UNDO"
          <6>1. pm[Hdr] \in Hdrs /\ pm[Hdr].epoch < pm[Epoch] /\ pm[Epoch] = mem[Epoch]
            BY <1>0, <5>2, MemoryOf, Calm DEF PmemInv, Settled
          <6>2. Covers(pm[Hdr], i) => pm[Hdr].policy = "UNDO"
            BY <5>2, <6>1, EmptyCovers DEF PmemInv, Progress, Sound
          <6> QED
            BY <2>1, <5>2, <6>1, <6>2 DEF Rolls
        <5> QED
          BY <2>1, <5>1, <5>2
      <4> QED
        BY <2>1, <4>1, <4>2 DEF Cell
    <3>X. mem[Hdr].len # 0 => m[Hdr] = mem[Hdr]
      BY <2>1
    <3>2. CASE mem[Hdr].len # 0 /\ policy = "UNDO"
      <4>1. Covers(mem[Hdr], i) => m[Lc(i)] = mem[Lc(i)]
        BY <1>10, <2>1, <3>2
      <4> QED
        BY <2>1, <3>2, <3>X, <4>1 DEF Cell, Rolls
    <3>3. CASE mem[Hdr].len # 0 /\ policy = "REDO"
      <4>1. mem[Hdr].policy = "REDO" /\ mem[Hdr].epoch = mem[Epoch]
        BY <1>0, <1>1, <3>3, HdrFields, LogSizeAssumption
      <4>2. ~Rolls(mem) /\ ~Rolls(m)
        BY <1>1, <2>1, <3>3, <3>X, <4>1, HdrFields DEF Rolls
      <4> QED
        BY <2>1, <4>2 DEF Cell
    <3> QED
      BY <1>1, <3>1, <3>2, <3>3
  <2> QED
    BY <2>1, <2>2, SameGood DEF PmemInv, Images
<1>17. Images'
  <2>1. Between(mem', pm', mem')
    BY <1>7 DEF MemoryType, Between
  <2>2. OldHeader' <=> policy = "REDO" /\ stale
    BY <1>0 DEF OldHeader
  <2> QED
    BY <1>0, <1>16, <2>1, <2>2, ImagesNextBut
<1> QED
  BY <1>11, <1>12, <1>13, <1>14, <1>15, <1>17 DEF PmemInv

LEMMA LogHeaderStep ==
    ASSUME PmemInv, NEW r \in req, LogHeader(r)
    PROVE  PmemInv'
<1>0. /\ pc = "head" /\ pc' = "headed" /\ nt \subseteq LogCells(Cells)
      /\ mem[Hdr].epoch = mem[Epoch] /\ dirty' = dirty \cup Written(r)
      /\ UNCHANGED <<pm, policy, used, req, saved, stale>>
  BY DEF PmemInv, Waiting, Progress, LogHeader
<1>1. /\ r \in Requests /\ req = {r} /\ used
      /\ mem[Hdr] \in Hdrs /\ mem[Hdr].offset + mem[Hdr].len <= LogSize
      /\ mem[Hdr].len > 0 => mem[Hdr].policy = policy
      /\ policy \in {"UNDO", "REDO"} /\ Logged(r) = LogOf(mem, policy, r)
  BY CallFacts
<1>2. PICK w : w = Logged(r)
  OBVIOUS
<1>3. /\ w.len > 0 /\ w.epoch = mem[Hdr].epoch /\ w.policy = policy
      /\ w.offset \in 0 .. LogSize /\ w.len \in 0 .. LogSize /\ w.offset + w.len <= LogSize
      /\ \A i \in Cells :
            /\ i \in Written(r) \/ Covers(mem[Hdr], i) => Covers(w, i)
            /\ Covers(w, i) =>
                  w.log[i] = IF i \in Written(r)
                             THEN IF policy = "UNDO" THEN mem[Fc(i)] ELSE r.data[i]
                             ELSE IF Covers(mem[Hdr], i) THEN mem[Lc(i)] ELSE mem[Fc(i)]
  <2>1. MemoryType(mem)
    BY DEF PmemInv, Types
  <2>2. w = LogOf(mem, policy, r)
    BY <1>1, <1>2
  <2> QED
    BY <1>1, <2>1, <2>2, LoggedFacts
<1>4. PICK h : h = [epoch |-> w.epoch, offset |-> w.offset, len |-> w.len, policy |-> w.policy]
  OBVIOUS
<1>5. /\ h \in Hdrs /\ h.epoch = mem[Epoch] /\ h.policy = policy /\ h.len > 0
      /\ h.offset + h.len <= LogSize
      /\ \A i \in Cells : Covers(h, i) <=> Covers(w, i)
  BY <1>0, <1>1, <1>3, <1>4, MemoryOf, HdrFields DEF PmemInv, Covers, Hdrs
<1>6. Stores(OneStore(Hdr, h)) /\ nt' = nt \cup {Hdr}
  BY <1>2, <1>4 DEF LogHeader, NtStores, OneStore
<1>7. /\ MemoryType(mem') /\ mem'[Hdr] = h
      /\ \A l \in Locations : l # Hdr => mem'[l] = mem[l]
      /\ mem'[Epoch] = mem[Epoch]
      /\ \A i \in Cells : mem'[Fc(i)] = mem[Fc(i)] /\ mem'[Lc(i)] = mem[Lc(i)]
  BY <1>5, <1>6, HeaderStore DEF PmemInv
\* The log was complete before its header.
<1>8. \A i \in Cells : Covers(h, i) => mem[Lc(i)] = w.log[i]
  BY <1>0, <1>2, <1>5 DEF PmemInv, LogInv, CallInv
<1>9. policy = "UNDO" => dirty \cap Written(r) = {}
  BY <1>0 DEF PmemInv, LogInv, CallInv, Calls
<1>10. Hdr \notin nt
  BY <1>0, CellSets
<1>11. Types'
  BY <1>0, <1>1, <1>6, <1>7, Locs, RequestIs DEF PmemInv, Types
<1>12. Waiting'
  BY <1>0, <1>6 DEF Waiting
<1>13. Settled'
  BY <1>0, <1>6, <1>7 DEF PmemInv, Settled
<1>14. Progress'
  <2>1. Sound(pm[Hdr])'
    BY <1>0, <1>7 DEF PmemInv, Progress, Sound
  <2>2. Sound(mem[Hdr])'
    BY <1>0, <1>5, <1>7, MemoryOf, PmemLogAssumption DEF Sound, PmemInv
  <2> QED
    BY <1>0, <1>1, <1>5, <1>7, <2>1, <2>2 DEF Progress, Calls, Idles
<1>15. Filled'
  <2>1. ASSUME NEW i \in Cells, Covers(h, i) PROVE mem[Lc(i)] # Junk
    <3>1. mem[Fc(i)] # Junk /\ r.data[i] # Junk
      BY <1>1, MemoryOf, RequestIs, PmemLogAssumption DEF PmemInv
    <3>2. Covers(mem[Hdr], i) => mem[Lc(i)] # Junk
      BY DEF PmemInv, LogInv, Filled
    <3> QED
      BY <1>3, <1>5, <1>8, <2>1, <3>1, <3>2
  <2> QED
    BY <1>7, <2>1 DEF Filled
<1>16. GapsInFile'
  <2>1. ASSUME policy = "UNDO", NEW i \in Cells, Covers(h, i), i \notin dirty, i \notin Written(r)
        PROVE  mem[Lc(i)] = mem[Fc(i)]
    <3>1. Covers(mem[Hdr], i) => mem[Lc(i)] = mem[Fc(i)]
      BY <1>0, <2>1 DEF PmemInv, LogInv, GapsInFile
    <3> QED
      BY <1>3, <1>5, <1>8, <2>1, <3>1
  <2> QED
    BY <1>0, <1>7, <2>1 DEF GapsInFile
<1>17. CallInv'
  <2>1. req' = {r} /\ pc' = "headed"
    BY <1>0, <1>1
  <2>2. \A i \in Cells : i \in Written(r) => Covers(mem'[Hdr], i) /\ i \in dirty'
    BY <1>0, <1>3, <1>5, <1>7
  <2> QED
    BY <2>1, <2>2 DEF CallInv
<1>18. Good(mem', saved)
  <2>1. ASSUME NEW i \in Cells PROVE Cell(mem, i) = Cell(mem', i)
    <3>1. CASE policy = "UNDO"
      <4>1. Rolls(mem')
        BY <1>5, <1>7, <3>1, HdrFields, MemoryOf, PmemLogAssumption DEF Rolls, PmemInv
      <4>2. Cell(mem', i) = IF Covers(h, i) THEN w.log[i] ELSE mem[Fc(i)]
        BY <1>7, <1>8, <4>1 DEF Cell
      <4>3. CASE Covers(mem[Hdr], i)
        <5>1. mem[Hdr].policy = "UNDO"
          BY <1>1, <3>1, <4>3, EmptyCovers
        <5>2. Rolls(mem)
          BY <1>0, <1>1, <5>1, HdrFields DEF Rolls
        <5>3. i \in Written(r) => mem[Lc(i)] = mem[Fc(i)]
          BY <1>0, <1>9, <3>1, <4>3 DEF PmemInv, LogInv, GapsInFile
        <5> QED
          BY <1>3, <1>5, <3>1, <4>2, <4>3, <5>2, <5>3 DEF Cell
      <4>4. CASE ~Covers(mem[Hdr], i)
        BY <1>3, <1>5, <3>1, <4>2, <4>4 DEF Cell
      <4> QED
        BY <4>3, <4>4
    <3>2. CASE policy = "REDO"
      <4>1. ~Rolls(mem')
        BY <1>5, <1>7, <3>2, HdrFields, MemoryOf, PmemLogAssumption DEF Rolls, PmemInv
      <4>2. Covers(mem[Hdr], i) => ~Rolls(mem)
        BY <1>0, <1>1, <3>2, EmptyCovers, HdrFields DEF Rolls
      <4> QED
        BY <1>7, <4>1, <4>2 DEF Cell
    <3> QED
      BY <1>1, <3>1, <3>2
  <2> QED
    BY <1>7, <2>1, SameGood DEF PmemInv, Images
<1>19. ASSUME policy = "REDO", NEW m, Between(m, pm', mem'), ~(stale /\ m[Hdr] # mem'[Hdr])
       PROVE  Good(m, saved)
  <2>1. \A l \in Locations : m[l] = pm[l] \/ m[l] = mem'[l]
    BY <1>0, <1>19 DEF Between
  <2>2. pm[Epoch] = mem[Epoch] /\ \A i \in Cells : pm[Fc(i)] = mem[Fc(i)]
    BY <1>0, Locs, CellSets DEF PmemInv, Settled
  <2>3. m[Epoch] = mem[Epoch] /\ \A i \in Cells : m[Fc(i)] = mem[Fc(i)]
    BY <1>7, <2>1, <2>2, Locs
  <2>4. m[Hdr] = h \/ m[Hdr] = mem[Hdr] \/ m[Hdr] = FreeHdr
    BY <1>7, <1>10, <1>19, <2>1, Locs DEF PmemInv, Settled
  <2>5. ASSUME NEW i \in Cells PROVE Cell(mem, i) = mem[Fc(i)] /\ Cell(m, i) = m[Fc(i)]
    <3>1. Covers(mem[Hdr], i) => ~Rolls(mem)
      BY <1>0, <1>1, <1>19, EmptyCovers, HdrFields DEF Rolls
    <3>2. CASE m[Hdr] = h
      BY <1>5, <1>19, <2>3, <3>1, <3>2, HdrFields DEF Cell, Rolls
    <3>3. CASE m[Hdr] = mem[Hdr]
      BY <2>3, <3>1, <3>3 DEF Cell, Rolls
    <3>4. CASE m[Hdr] = FreeHdr
      BY <3>1, <3>4, FreeHdrIs, EmptyCovers DEF Cell
    <3> QED
      BY <2>4, <3>2, <3>3, <3>4
  <2>6. \A i \in Cells : Cell(mem, i) = Cell(m, i)
    BY <2>3, <2>5
  <2> QED
    BY <2>3, <2>6, SameGood DEF PmemInv, Images
<1>20. Images'
  <2>1. OldHeader' <=> policy = "REDO" /\ stale
    BY <1>0 DEF OldHeader
  <2> QED
    BY <1>0, <1>1, <1>18, <1>19, <2>1, ImagesNextBut
<1> QED
  BY <1>11, <1>12, <1>13, <1>14, <1>15, <1>16, <1>17, <1>20 DEF PmemInv, LogInv

\* Under undo logging the file is overwritten where the log, which has reached
\* persistent memory, covers it.
LEMMA StoreFileStep ==
    ASSUME PmemInv, NEW r \in req, StoreFile(r)
    PROVE  PmemInv'
<1> DEFINE S == Written(r)
           f == [l \in FileCells(S) |-> r.data[l[2]]]
<1>0. /\ pc = "store" /\ pc' = "stored" /\ nt = {} /\ policy = "UNDO"
      /\ mem[Hdr].epoch = mem[Epoch] /\ pm[Hdr] = mem[Hdr]
      /\ UNCHANGED <<pm, policy, used, req, dirty, saved, stale>>
      /\ Stores(f) /\ nt' = FileCells(S)
  BY DEF PmemInv, Waiting, Progress, Settled, StoreFile, NtStores
<1>1. /\ r \in Requests /\ req = {r} /\ used
      /\ mem[Hdr] \in Hdrs
      /\ mem[Hdr].len > 0 => mem[Hdr].policy = policy
  BY CallFacts
<1>2. S \in SUBSET Cells /\ r.data \in [Cells -> Val]
  BY <1>1, RequestIs
<1>3. DOMAIN f = FileCells(S) /\ \A i \in S : f[Fc(i)] = r.data[i]
  <2>1. \A i \in S : Fc(i) \in FileCells(S) /\ Fc(i)[2] = i
    BY <1>2, CellSets, Locs
  <2> QED
    BY <2>1
<1> HIDE DEF S, f
<1>4. /\ MemoryType(mem') /\ mem'[Hdr] = mem[Hdr] /\ mem'[Epoch] = mem[Epoch]
      /\ \A l \in Locations : l \notin FileCells(S) => mem'[l] = mem[l]
      /\ \A i \in Cells : /\ mem'[Fc(i)] = IF i \in S THEN f[Fc(i)] ELSE mem[Fc(i)]
                          /\ mem'[Lc(i)] = mem[Lc(i)]
  <2>1. \A i \in S : f[Fc(i)] \in Val
    BY <1>2, <1>3
  <2> QED
    BY <1>0, <1>2, <1>3, <2>1, FileStore DEF PmemInv
<1>5. \A l \in Locations : pm[l] = mem[l]
  BY <1>0, Calm DEF PmemInv
<1>6. \A i \in Cells : i \in S => Covers(mem[Hdr], i) /\ i \in dirty
  BY <1>0 DEF PmemInv, LogInv, CallInv, S
<1>7. Types'
  BY <1>0, <1>2, <1>4, CellSets DEF PmemInv, Types
<1>8. Waiting'
  BY <1>0, <1>2, CellSets DEF Waiting
<1>9. Settled'
  BY <1>0, <1>4, <1>5 DEF PmemInv, Settled
<1>10. Progress'
  <2>1. Sound(pm[Hdr])' /\ Sound(mem[Hdr])'
    BY <1>0, <1>4 DEF PmemInv, Progress, Sound
  <2> QED
    BY <1>0, <1>1, <1>4, <2>1 DEF Progress, Calls, Idles
<1>11. LogInv'
  <2>1. Filled'
    BY <1>4 DEF PmemInv, LogInv, Filled
  <2>2. GapsInFile'
    BY <1>0, <1>4, <1>6 DEF PmemInv, LogInv, GapsInFile
  <2>3. CallInv'
    BY <1>0, <1>4 DEF PmemInv, LogInv, CallInv, Calls
  <2> QED
    BY <2>1, <2>2, <2>3 DEF LogInv
<1>12. ASSUME NEW m, Between(m, pm', mem')
       PROVE  Good(m, saved)
  <2>1. \A l \in Locations : m[l] = mem[l] \/ m[l] = mem'[l]
    BY <1>0, <1>5, <1>12 DEF Between
  <2>2. /\ m[Hdr] = mem[Hdr] /\ m[Epoch] = mem[Epoch]
        /\ \A i \in Cells : /\ m[Lc(i)] = mem[Lc(i)]
                            /\ i \notin S => m[Fc(i)] = mem[Fc(i)]
    BY <1>4, <2>1, Locs
  <2>3. ASSUME NEW i \in Cells PROVE Cell(mem, i) = Cell(m, i)
    <3>1. Covers(mem[Hdr], i) => Rolls(mem) /\ Rolls(m)
      BY <1>0, <1>1, <2>2, EmptyCovers, HdrFields DEF Rolls
    <3> QED
      BY <1>6, <2>2, <3>1 DEF Cell
  <2> QED
    BY <2>2, <2>3, SameGood DEF PmemInv, Images
<1>13. Images'
  <2>1. Between(mem', pm', mem')
    BY <1>4 DEF MemoryType, Between
  <2> QED
    BY <1>0, <1>12, <2>1, ImagesNext
<1> QED
  BY <1>7, <1>8, <1>9, <1>10, <1>11, <1>13 DEF PmemInv

\* Whether the new epoch has reached persistent memory decides which of the
\* last two fsyncs a crash leaves.
LEMMA CommitStep ==
    ASSUME PmemInv, Commit
    PROVE  PmemInv'
<1>0. /\ pc = "idle" /\ pc' = "committing" /\ nt = {} /\ nt' = {Epoch} /\ req = {}
      /\ UNCHANGED <<pm, policy, used, req, stale>> /\ dirty' = {} /\ saved' = Append(saved, View)
      /\ mem[Epoch] < MaxEpoch /\ Stores(OneStore(Epoch, mem[Epoch] + 1))
  BY DEF PmemInv, Waiting, Progress, Calls, Commit, NtStores, OneStore
<1>T. /\ mem[Epoch] \in Nat /\ mem[Epoch] + 1 \in 0 .. MaxEpoch /\ mem[Hdr] \in Hdrs
      /\ mem[Hdr].epoch \in Int /\ pm[Hdr].epoch \in Int /\ pm[Hdr] \in Hdrs
      /\ policy \in {"UNDO", "REDO"}
  BY <1>0, MemoryOf, HdrFields, PmemLogAssumption DEF PmemInv, Types
<1>1. /\ mem'[Epoch] = mem[Epoch] + 1
      /\ \A l \in Locations : l # Epoch => mem'[l] = mem[l]
      /\ mem' = [l \in Locations |-> mem'[l]]
  <2>1. mem' = [l \in Locations |-> IF l = Epoch THEN mem[Epoch] + 1 ELSE mem[l]]
    BY <1>0 DEF Stores, OneStore
  <2> QED
    BY <2>1, Locs
<1>2. /\ mem'[Hdr] = mem[Hdr]
      /\ \A i \in Cells : mem'[Fc(i)] = mem[Fc(i)] /\ mem'[Lc(i)] = mem[Lc(i)]
  BY <1>1, Locs
<1>3. /\ \A l \in Locations : l # Hdr => pm[l] = mem[l]
      /\ pm[Epoch] = mem[Epoch]
      /\ \A i \in Cells : pm[Fc(i)] = mem[Fc(i)] /\ pm[Lc(i)] = mem[Lc(i)]
      /\ \/ pm[Hdr] = mem[Hdr]
         \/ /\ mem[Hdr].len = 0 /\ mem[Hdr].policy = "UNDO"
            /\ stale \/ pm[Hdr] = FreeHdr
  BY <1>0, Calm DEF PmemInv
<1>4. View = [i \in Cells |-> IF policy = "REDO" /\ Covers(mem[Hdr], i)
                              THEN mem[Lc(i)] ELSE mem[Fc(i)]]
  <2>1. /\ File(mem) = [i \in Cells |-> mem[Fc(i)]]
        /\ Entry(mem).offset = mem[Hdr].offset /\ Entry(mem).len = mem[Hdr].len
        /\ Entry(mem).log = [i \in Cells |-> mem[Lc(i)]]
    BY DEF File, Log, Entry, Fc, Lc
  <2>2. Overlay(File(mem), Entry(mem)) =
          [i \in Cells |-> IF Covers(mem[Hdr], i) THEN mem[Lc(i)] ELSE mem[Fc(i)]]
    BY <2>1 DEF Overlay, Store, Covers
  <2> QED
    BY <2>1, <2>2 DEF View
<1>5. View \in [Cells -> Val]
  <2>1. \A i \in Cells : Covers(mem[Hdr], i) => mem[Lc(i)] \in Val
    BY MemoryOf DEF PmemInv, LogInv, Filled
  <2>2. \A i \in Cells : mem[Fc(i)] \in Val
    BY MemoryOf DEF PmemInv
  <2> QED
    BY <1>4, <2>1, <2>2
<1>6. /\ saved' \in Seq([Cells -> Val]) /\ Len(saved') = mem[Epoch] + 2
      /\ saved'[mem[Epoch] + 1] = saved[mem[Epoch] + 1]
      /\ saved'[mem[Epoch] + 2] = View
  <2> HIDE DEF View
  <2>1. saved \in Seq([Cells -> Val]) /\ Len(saved) = mem[Epoch] + 1
    BY DEF PmemInv, Types
  <2> QED
    BY <1>0, <1>5, <1>T, <2>1 DEF View
<1>7. Types'
  <2>1. MemoryType(mem')
    BY <1>1, <1>2, <1>T, MemoryOf DEF MemoryType, PmemInv
  <2> QED
    BY <1>0, <1>1, <1>6, <1>T, <2>1, Locs DEF PmemInv, Types
<1>8. Waiting'
  BY <1>0 DEF Waiting
<1>9. Settled'
  <2>1. \A l \in Locations : l \in nt' \/ l = Hdr \/ pm'[l] = mem'[l]
    BY <1>0, <1>1, <1>3
  <2>2. pm'[Epoch] <= mem'[Epoch]
    BY <1>0, <1>1, <1>3, <1>T
  <2> QED
    BY <1>0, <1>2, <1>3, <2>1, <2>2 DEF PmemInv, Settled
<1>10. Progress'
  <2>1. Sound(pm[Hdr])' /\ Sound(mem[Hdr])'
    BY <1>0, <1>1, <1>2, <1>T DEF PmemInv, Progress, Sound
  <2> QED
    BY <1>0, <1>2, <2>1 DEF PmemInv, Progress, Calls, Idles
<1>11. LogInv'
  <2>1. Filled'
    BY <1>2 DEF PmemInv, LogInv, Filled
  <2>2. GapsInFile'
    <3>1. mem'[Hdr].epoch # mem'[Epoch]
      BY <1>1, <1>2, <1>T DEF PmemInv, Progress, Sound
    <3> QED
      BY <3>1 DEF GapsInFile
  <2>3. CallInv'
    BY <1>0 DEF CallInv
  <2> QED
    BY <2>1, <2>2, <2>3 DEF LogInv
<1>12. ASSUME NEW m, Between(m, pm', mem')
       PROVE  Good(m, saved')
  <2>1. \A l \in Locations : m[l] = pm[l] \/ m[l] = mem'[l]
    BY <1>0, <1>12 DEF Between
  <2>2. \A i \in Cells : m[Fc(i)] = mem[Fc(i)] /\ m[Lc(i)] = mem[Lc(i)]
    BY <1>2, <1>3, <2>1, Locs
  <2>3. CASE m[Epoch] = mem[Epoch]
    <3>1. Between(m, pm, mem)
      BY <1>1, <1>12, <2>1, <2>3 DEF Between
    <3>2. Good(m, saved)
      BY <1>0, <3>1, ImagesOf DEF PmemInv
    <3> QED
      BY <1>6, <2>3, <3>2 DEF Good
  <2>4. CASE m[Epoch] = mem[Epoch] + 1
    <3>1. m[Hdr] = pm[Hdr] \/ m[Hdr] = mem[Hdr]
      BY <1>2, <2>1, Locs
    <3>2. m[Hdr].epoch < m[Epoch]
      BY <1>T, <2>4, <3>1 DEF PmemInv, Progress, Sound
    <3>3. ASSUME NEW i \in Cells
          PROVE  Cell(m, i) = IF policy = "REDO" /\ Covers(mem[Hdr], i)
                              THEN mem[Lc(i)] ELSE mem[Fc(i)]
      <4>1. CASE mem[Hdr].len = 0 /\ (m[Hdr] = FreeHdr \/ m[Hdr] = mem[Hdr])
        <5>1. ~Covers(mem[Hdr], i) /\ ~Covers(m[Hdr], i)
          BY <1>T, <4>1, FreeHdrIs, EmptyCovers
        <5> QED
          BY <2>2, <5>1 DEF Cell
      <4>2. CASE m[Hdr] = mem[Hdr]
        <5>1. Covers(mem[Hdr], i) => mem[Hdr].policy = policy
          BY <1>T, EmptyCovers DEF PmemInv, Progress, Sound
        <5> QED
          BY <1>T, <2>2, <3>2, <4>2, <5>1 DEF Cell, Rolls
      \* An old header was committed before, and its log is in the file.
      <4>3. CASE mem[Hdr].len = 0 /\ stale /\ m[Hdr] = pm[Hdr]
        <5>1. pm[Hdr].epoch < pm[Epoch]
          BY <4>3 DEF PmemInv, Settled
        <5>2. Rolls(m) <=> Rolls(pm)
          BY <1>3, <3>2, <4>3, <5>1 DEF Rolls
        <5>3. Cell(m, i) = Cell(pm, i)
          BY <1>3, <2>2, <4>3, <5>2 DEF Cell
        <5>4. Recover(pm) = Recover(mem)
          <6>1. Good(pm, saved) /\ Good(mem, saved)
            BY <1>0, MemImage, ImagesOf DEF PmemInv, Images
          <6> QED
            BY <1>3, <6>1 DEF Good
        <5>5. Cell(pm, i) = Cell(mem, i)
          <6>1. [j \in Cells |-> Cell(pm, j)] = [j \in Cells |-> Cell(mem, j)]
            BY <5>4, RecoverIs
          <6>2. [j \in Cells |-> Cell(pm, j)][i] = [j \in Cells |-> Cell(mem, j)][i]
            BY <6>1
          <6> QED
            BY <6>2
        <5>6. ~Covers(mem[Hdr], i)
          BY <1>T, <4>3, EmptyCovers
        <5> QED
          BY <5>3, <5>5, <5>6 DEF Cell
      <4> QED
        BY <1>3, <3>1, <4>1, <4>2, <4>3
    <3>4. Recover(m) = View
      BY <1>4, <3>3, RecoverIs
    <3>5. m[Epoch] + 1 = mem[Epoch] + 2
      BY <1>T, <2>4
    <3> QED
      BY <1>6, <3>4, <3>5 DEF Good
  <2> QED
    BY <1>1, <1>3, <2>1, <2>3, <2>4, Locs
<1>13. Images'
  <2>1. Between(mem', pm', mem')
    BY <1>1 DEF Between
  <2> QED
    BY <1>0, <1>12, <2>1, ImagesNext
<1> QED
  BY <1>7, <1>8, <1>9, <1>10, <1>11, <1>13 DEF PmemInv

\* free_idx_entry: whether its store has reached persistent memory or not,
\* the file holds what the log held.
LEMMA FreeStep ==
    ASSUME PmemInv, Free
    PROVE  PmemInv'
<1>0. /\ pc = "free" /\ pc' = "idle" /\ nt = {} /\ used' = FALSE
      /\ UNCHANGED <<pm, nt, policy, req, dirty, saved>> /\ req = {}
      /\ Stores(OneStore(Hdr, FreeHdr)) /\ stale' = (pm[Hdr] # FreeHdr)
      /\ File(mem) = saved[mem[Epoch] + 1] /\ mem[Hdr].epoch < mem[Epoch]
  BY DEF PmemInv, Waiting, Progress, Calls, Free
<1>1. /\ MemoryType(mem') /\ mem'[Hdr] = FreeHdr
      /\ \A l \in Locations : l # Hdr => mem'[l] = mem[l]
      /\ mem'[Epoch] = mem[Epoch]
      /\ \A i \in Cells : mem'[Fc(i)] = mem[Fc(i)] /\ mem'[Lc(i)] = mem[Lc(i)]
      /\ File(mem') = File(mem)
  BY <1>0, FreeHdrIs, HeaderStore DEF PmemInv
<1>2. /\ \A l \in Locations : l # Hdr => pm[l] = mem[l]
      /\ pm[Epoch] = mem[Epoch]
      /\ pm[Hdr] = mem[Hdr] \/ stale \/ pm[Hdr] = FreeHdr
  BY <1>0, Calm DEF PmemInv
<1>3. stale' => pm[Hdr].epoch < pm[Epoch]
  BY <1>0, <1>2 DEF PmemInv, Settled
<1>4. Types'
  BY <1>0, <1>1 DEF PmemInv, Types
<1>5. Waiting' /\ Settled'
  <2>1. mem'[Hdr].len = 0 /\ mem'[Hdr].policy = "UNDO"
    BY <1>1, FreeHdrIs
  <2>2. pm'[Epoch] <= mem'[Epoch]
    BY <1>0, <1>1, <1>2, Ints
  <2> QED
    BY <1>0, <1>1, <1>2, <1>3, <2>1, <2>2 DEF Waiting, Settled
<1>6. Progress'
  <2>1. Sound(mem[Hdr])'
    BY <1>1, FreeHdrIs, MemoryOf, LogSizeAssumption, PmemLogAssumption DEF Sound, PmemInv
  <2>2. Sound(pm[Hdr])'
    BY <1>0, <1>1 DEF PmemInv, Progress, Sound
  <2> QED
    BY <1>0, <1>1, <2>1, <2>2 DEF Progress, Calls, Idles
<1>7. LogInv'
  BY <1>0, <1>1, FreeHdrIs, EmptyCovers DEF LogInv, Filled, GapsInFile, CallInv
<1>8. Images'
  <2>1. ASSUME NEW m, Between(m, pm', mem') PROVE Good(m, saved)
    <3>1. m[Hdr] = pm[Hdr] \/ m[Hdr] = FreeHdr
      BY <1>0, <1>1, <2>1, Locs DEF Between
    <3>2. CASE m[Hdr] = pm[Hdr]
      <4>1. Between(m, pm, mem)
        BY <1>0, <1>1, <2>1, <3>2 DEF Between
      <4> QED
        BY <1>0, <4>1, ImagesOf DEF PmemInv
    <3>3. CASE m[Hdr] = FreeHdr
      <4>1. m[Epoch] = mem[Epoch] /\ \A i \in Cells : m[Fc(i)] = mem[Fc(i)]
        BY <1>0, <1>1, <1>2, <2>1, Locs DEF Between
      <4>2. \A i \in Cells : Cell(m, i) = m[Fc(i)]
        BY <3>3, FreeHdrIs, EmptyCovers DEF Cell
      <4>3. File(m) = File(mem)
        BY <4>1 DEF File, Fc
      <4> QED
        BY <1>0, <4>1, <4>2, <4>3, GoodFile
    <3> QED
      BY <3>1, <3>2, <3>3
  <2>2. Between(mem', pm', mem')
    BY <1>1 DEF MemoryType, Between
  <2> QED
    BY <1>0, <2>1, <2>2, ImagesNext
<1> QED
  BY <1>4, <1>5, <1>6, <1>7, <1>8 DEF PmemInv

LEMMA PmemInvInit ==
    ASSUME Init
    PROVE  PmemInv
<1> DEFINE g(v, l) == CASE l = Hdr -> FreeHdr
                        [] l = Epoch -> 0
                        [] l[1] = "log" -> Junk
                        [] l[1] = "file" -> v
<1>1. PICK v \in Val : mem = [l \in Locations |-> g(v, l)]
  BY DEF Init
<1>2. /\ mem = [l \in Locations |-> mem[l]] /\ mem[Hdr] = FreeHdr /\ mem[Epoch] = 0
      /\ \A i \in Cells : mem[Lc(i)] = Junk /\ mem[Fc(i)] = v
  <2>1. /\ Hdr[1] = "hdr" /\ Epoch[1] = "epoch"
        /\ \A i \in Cells : Lc(i)[1] = "log" /\ Fc(i)[1] = "file"
    BY DEF Lc, Fc, Hdr, Epoch
  <2>2. g(v, Hdr) = FreeHdr /\ g(v, Epoch) = 0
    BY <2>1, Locs
  <2>3. \A i \in Cells : g(v, Lc(i)) = Junk
    BY <2>1, Locs
  <2>4. \A i \in Cells : g(v, Fc(i)) = v
    BY <2>1, Locs
  <2> HIDE DEF g
  <2>5. mem = [l \in Locations |-> mem[l]] /\ \A l \in Locations : mem[l] = g(v, l)
    BY <1>1
  <2> QED
    BY <2>2, <2>3, <2>4, <2>5, Locs
<1> HIDE DEF g
<1>3. /\ pm = mem /\ nt = {} /\ policy \in {"UNDO", "REDO"} /\ used = FALSE /\ pc = "idle"
      /\ req = {} /\ dirty = {} /\ saved = <<File(mem)>> /\ stale = FALSE
  BY PmemLogAssumption DEF Init
<1>4. Types
  <2>1. MemoryType(mem)
    BY <1>2, FreeHdrIs, PmemLogAssumption DEF MemoryType
  <2>2. File(mem) \in [Cells -> Val]
    BY <1>2 DEF File, Fc
  <2>3. PICK b : b = File(mem)
    OBVIOUS
  <2>4. <<b>> \in Seq([Cells -> Val]) /\ Len(<<b>>) = 1
    BY <2>2, <2>3
  <2>5. saved \in Seq([Cells -> Val]) /\ Len(saved) = mem[Epoch] + 1
    BY <1>2, <1>3, <2>3, <2>4
  <2>6. MemoryType(pm) /\ nt \subseteq Locations /\ dirty \subseteq Cells /\ used \in BOOLEAN
    BY <1>3, <2>1
  <2> QED
    BY <1>3, <2>1, <2>5, <2>6 DEF Types
<1>5. Waiting /\ Settled
  BY <1>2, <1>3 DEF Waiting, Settled
<1>6. Progress
  <2>1. Sound(pm[Hdr]) /\ Sound(mem[Hdr])
    BY <1>2, <1>3, FreeHdrIs, LogSizeAssumption DEF Sound
  <2> QED
    BY <1>2, <1>3, <2>1 DEF Progress, Calls, Idles
<1>7. LogInv
  BY <1>2, <1>3, FreeHdrIs, EmptyCovers DEF LogInv, Filled, GapsInFile, CallInv
<1>8. Images
  <2>1. \A i \in Cells : Cell(mem, i) = mem[Fc(i)]
    BY <1>2, FreeHdrIs, EmptyCovers DEF Cell
  <2>2. File(mem) = saved[mem[Epoch] + 1]
    BY <1>2, <1>3
  <2>3. Good(mem, saved)
    BY <2>1, <2>2, GoodFile
  <2>4. \A D : Image(D) = mem
    BY <1>2, <1>3 DEF Image
  <2> QED
    BY <2>3, <2>4 DEF Images
<1> QED
  BY <1>4, <1>5, <1>6, <1>7, <1>8 DEF PmemInv

LEMMA PmemInvNext ==
    ASSUME PmemInv, [Next]_vars
    PROVE  PmemInv'
<1>1. CASE UNCHANGED vars
  BY <1>1, StutterStep
<1>2. CASE Next
  BY <1>2, FenceStep, ReadStep, CheckStep, ApplyStep, RenewStep, CommitStep, CheckpointStep,
     FreeStep, BeginStep, LogDataStep, LogHeaderStep, StoreFileStep, PersistStep DEF Next
<1> QED
  BY <1>1, <1>2

LEMMA PmemInvAlways == Spec => []PmemInv
<1>1. PmemInv /\ [Next]_vars => PmemInv'
  BY PmemInvNext
<1> QED
  BY <1>1, PmemInvInit, PTL DEF Spec

-----------------------------------------------------------------------------
(* The theorems.                                                            *)

\* Memory keeps its shape: no cell of the file, in memory or in what a crash
\* leaves, ever holds uninitialised log memory, and no header has a log that
\* leaves its block.
THEOREM TypeCorrect == Spec => []TypeOK
<1>1. PmemInv => TypeOK
  <2> SUFFICES ASSUME PmemInv PROVE TypeOK
    OBVIOUS
  <2>1. ASSUME NEW m, MemoryType(m), Sound(m[Hdr])
        PROVE  /\ DOMAIN m = Locations
               /\ \A i \in Cells : m[<<"file", i>>] \in Val /\ m[<<"log", i>>] \in Val \cup {Junk}
               /\ m[Epoch] \in 0 .. MaxEpoch
               /\ m[Hdr].epoch \in 0 .. MaxEpoch
               /\ m[Hdr].offset + m[Hdr].len \in 0 .. LogSize
    <3>1. DOMAIN m = Locations /\ m[Hdr] \in Hdrs /\ m[Epoch] \in 0 .. MaxEpoch
      BY <2>1 DEF MemoryType
    <3>2. \A i \in Cells : m[<<"file", i>>] \in Val /\ m[<<"log", i>>] \in Val \cup {Junk}
      BY <2>1 DEF MemoryType, Fc, Lc
    <3>3. m[Hdr].epoch \in 0 .. MaxEpoch
      BY <3>1, HdrFields
    <3>4. m[Hdr].offset + m[Hdr].len \in 0 .. LogSize
      BY <2>1, <3>1, HdrFields, LogSizeAssumption DEF Sound
    <3> QED
      BY <3>1, <3>2, <3>3, <3>4
  <2>2. MemoryType(mem) /\ MemoryType(pm) /\ Sound(mem[Hdr]) /\ Sound(pm[Hdr])
    BY DEF PmemInv, Types, Progress
  <2>3. nt \subseteq Locations /\ req \subseteq Requests /\ dirty \subseteq Cells
    BY DEF PmemInv, Types, Progress
  <2> QED
    BY <2>1, <2>2, <2>3 DEF TypeOK
<1> QED
  BY <1>1, PmemInvAlways, PTL

\* A crash between any two stores, flushes and fences of mmio_write, commit
\* and checkpoint, with any part of what is not fenced lost, leaves the block
\* as the last fsync that reached persistent memory saw it; but for an undo
\* log between the flush of its header and the fence behind it, and for the
\* first redo log after a checkpoint, where persistent memory may still have
\* the header that free_idx_entry cleared and did not flush.
THEOREM CrashLeavesFsync == Spec => []FailureAtomicButLogging
<1>1. PmemInv => FailureAtomicButLogging
  <2> SUFFICES ASSUME PmemInv, ~LogUnordered, ~OldHeader
               PROVE  FailureAtomic
    BY DEF FailureAtomicButLogging
  <2>1. Good(pm, saved)
    BY MemImage, ImagesAre DEF PmemInv, Excused
  <2> QED
    BY <2>1 DEF Good, Recover, FailureAtomic, Recovered
<1> QED
  BY <1>1, PmemInvAlways, PTL

\* Once commit_mmio has returned, a crash loses nothing of what it saw, and
\* the headers that free_idx_entry did not flush do no harm as long as no
\* call is at work.
THEOREM FsyncIsDurable == Spec => []DurableFsync
<1>1. PmemInv => DurableFsync
  <2> SUFFICES ASSUME PmemInv, pc = "idle"
               PROVE  Recovered = saved[mem[Epoch] + 1]
    BY DEF DurableFsync
  <2>1. Good(pm, saved)
    BY MemImage, ImagesOf DEF PmemInv
  <2>2. pm[Epoch] = mem[Epoch]
    BY Calm DEF PmemInv, Waiting
  <2> QED
    BY <2>1, <2>2 DEF Good, Recover, Recovered
<1> QED
  BY <1>1, PmemInvAlways, PTL

=============================================================================
