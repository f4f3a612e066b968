------------------------------ MODULE RadixLog ------------------------------
(***************************************************************************)
(* The index of src/src/radixlog.c for one file: a tree of tables of four  *)
(* types, entered at root->skip, that leads from an offset to the slot of  *)
(* its log.  Client threads run get_log_table with its one-entry cache     *)
(* (prev_table, prev_table_index) and get_log_size; the checkpoint thread  *)
(* walks the tree with find_log_table.                                     *)
(*                                                                         *)
(* Offsets and lengths are in cells; a page (4 KB) has PageCells of them   *)
(* and a table spans Fan pages (2 MB).  A table once in the tree stays     *)
(* there, so a walk without allocation is one step.                        *)
(***************************************************************************)
EXTENDS Integers, FiniteSets

CONSTANTS Threads, NULL,
          PageCells,     \* PAGE_SIZE
          NrLogSizes,    \* NR_LOG_SIZES
          NrTables,      \* the log tables of the allocator
          MaxOff,        \* the last offset of the mapping at open
          Requests,      \* parts of calls: [off, len]
          SameRegion,    \* TRUE: calls that overlap in time use one table
          MaxCalls       \* bound on the lookups of a behaviour

Fan == 2^(NrLogSizes - 1)     \* PTRS_PER_TABLE
Sizes == 0 .. NrLogSizes - 1
Tables == 1 .. NrTables

ASSUME RadixLogAssumption ==
    /\ {PageCells, NrLogSizes, MaxCalls} \subseteq Nat \ {0}
    /\ NrTables \in Nat /\ NrTables >= 4
    /\ MaxOff \in Nat
    /\ \A r \in Requests : r.off \in Nat /\ r.len \in Nat \ {0}
    /\ SameRegion \in BOOLEAN
    /\ NULL \notin Tables

\* Arithmetic that the proofs use and the provers do not know.
ASSUME PowersOfFan ==
    /\ Fan \in Nat \ {0} /\ \A k \in 0 .. 3 : Fan^k \in Nat \ {0}
    /\ Fan^0 = 1 /\ Fan^1 = Fan /\ Fan^2 = Fan * Fan /\ Fan^3 = Fan * Fan * Fan
ASSUME PowersOfTwo ==
    /\ 2^0 = 1 /\ 2^1 = 2
    /\ \A j, k \in 0 .. NrLogSizes : 2^j \in Nat \ {0} /\ 2^(j + k) = 2^j * 2^k

TABLE == 1
LMD == 2
LUD == 3
LGD == 4

OVERRUN == -1

VARIABLES
    node,               \* table -> [type, log_size, entries]
    pool,               \* tables not allocated
    skip,               \* root->skip
    prev_table, prev_table_index,
    pc, req, at,        \* thread -> where it is, its request, its table
    scan,               \* the checkpoint thread's offset, or OVERRUN
    calls,              \* bound: lookups made
    placed              \* history: what lookups have returned

tree == <<node, pool, skip>>
prev == <<prev_table, prev_table_index>>
vars == <<tree, prev, pc, req, at, scan, calls, placed>>

-----------------------------------------------------------------------------
(* Offsets and sizes.                                                       *)

LOG_SIZE(s) == PageCells * 2^s
NR_ENTRIES(s) == 2^(NrLogSizes - 1 - s)
Span == PageCells * Fan
Region(off) == (off \div Span) % Fan^3       \* TABLE_MASK

\* LGD_INDEX, LUD_INDEX and LMD_INDEX
Index(type, off) == (Region(off) \div Fan^(type - LMD)) % Fan
TABLE_INDEX(s, off) == (off \div LOG_SIZE(s)) % NR_ENTRIES(s)

get_deepest_table_type(maxoff) ==
    CASE Region(maxoff) = 0                       -> TABLE
      [] Region(maxoff) \in 1 .. Fan - 1          -> LMD
      [] Region(maxoff) \in Fan .. Fan^2 - 1      -> LUD
      [] Region(maxoff) >= Fan^2                  -> LGD

SkipOneType(type) == type - 2
NEXT_TABLE_TYPE(type) == type - 1

\* The loop of set_log_size: halve len until nothing is left.
Halvings[n \in Nat] == IF n = 0 THEN 0 ELSE 1 + Halvings[n \div 2]

set_log_size_whole(off, len) ==
    LET s == Halvings[(len + (off % PageCells)) \div PageCells]
    IN  IF s \in Sizes THEN s ELSE NrLogSizes - 1
set_log_size(off, len) ==
    LET s == Halvings[(len + (off % PageCells) - 1) \div PageCells]
    IN  IF s \in Sizes THEN s ELSE NrLogSizes - 1

NewTable(type) == [type |-> type, log_size |-> NrLogSizes,
                   entries |-> [i \in 0 .. Fan - 1 |-> NULL]]

\* init_radixlog: a path of tables down to the deepest one the file needs.
Init ==
    LET depth == LGD + 1 - get_deepest_table_type(MaxOff)
    IN  /\ node = [n \in Tables |->
                      LET type == LGD + 1 - n
                      IN  IF n < depth
                          THEN [NewTable(type) EXCEPT !.entries[Index(type, MaxOff)] = n + 1]
                          ELSE NewTable(IF n = depth THEN type ELSE 0)]
        /\ pool = {n \in Tables : n > depth}
        /\ skip = depth
        /\ prev_table = NULL /\ prev_table_index = -1
        /\ pc = [t \in Threads |-> "idle"]
        /\ req = [t \in Threads |-> NULL]
        /\ at = [t \in Threads |-> NULL]
        /\ scan = 0
        /\ calls = 0
        /\ placed = {}

-----------------------------------------------------------------------------
(* get_log_table.                                                           *)

Goto(t, to) == pc' = [pc EXCEPT ![t] = to]
MoveTo(t, n) == at' = [at EXCEPT ![t] = n]

Call(t) ==
    /\ pc[t] = "idle"
    /\ calls < MaxCalls
    /\ calls' = calls + 1
    /\ \E r \in Requests :
          /\ SameRegion => \A u \in Threads : pc[u] # "idle" => Region(req[u].off) = Region(r.off)
          /\ req' = [req EXCEPT ![t] = r]
    /\ Goto(t, "check")
    /\ UNCHANGED <<tree, prev, at, scan, placed>>

\* check_prev_table compares the index, and the table is read after that.
CheckPrev(t) ==
    /\ pc[t] = "check"
    /\ MoveTo(t, skip)
    /\ Goto(t, IF prev_table_index = Region(req[t].off) THEN "reuse" ELSE "walk")
    /\ UNCHANGED <<tree, prev, req, scan, calls, placed>>

Reuse(t) ==
    /\ pc[t] = "reuse"
    /\ MoveTo(t, prev_table)
    /\ Goto(t, "size")
    /\ UNCHANGED <<tree, prev, req, scan, calls, placed>>

\* One level of the switch in get_log_table.
Child(n, off) == node[n].entries[Index(node[n].type, off)]

Walk(t) ==
    /\ pc[t] = "walk"
    /\ \/ /\ node[at[t]].type = TABLE
          /\ Goto(t, "set_table")
          /\ UNCHANGED at
       \/ /\ node[at[t]].type # TABLE
          /\ Child(at[t], req[t].off) = NULL
          /\ Goto(t, "alloc")
          /\ UNCHANGED at
       \/ /\ node[at[t]].type # TABLE
          /\ Child(at[t], req[t].off) # NULL
          /\ MoveTo(t, Child(at[t], req[t].off))
          /\ UNCHANGED pc
    /\ UNCHANGED <<tree, prev, req, scan, calls, placed>>

\* The compare-and-swap of ALLOC_TABLE.
BlindStore(t) == TRUE
CasWins(t) == Child(at[t], req[t].off) = NULL

\* ALLOC_TABLE.  The loser's table goes back with nothing in it, and the
\* winner's stays where it is.
AllocTable(t) ==
    LET new == CHOOSE n \in pool : \A m \in pool : n <= m
        i   == Index(node[at[t]].type, req[t].off)
    IN  /\ pc[t] = "alloc"
        /\ pool # {}
        /\ \/ /\ CasWins(t)
              /\ node' = [node EXCEPT ![new] = NewTable(NEXT_TABLE_TYPE(node[at[t]].type)),
                                      ![at[t]].entries[i] = new]
              /\ pool' = pool \ {new}
              /\ MoveTo(t, new)
           \/ /\ ~CasWins(t)
              /\ MoveTo(t, Child(at[t], req[t].off))
              /\ UNCHANGED <<node, pool>>
        /\ Goto(t, "walk")
        /\ UNCHANGED <<skip, prev, req, scan, calls, placed>>

\* The cache is filled in two stores.
SetPrevTable(t) ==
    /\ pc[t] = "set_table"
    /\ prev_table' = at[t]
    /\ Goto(t, "set_index")
    /\ UNCHANGED <<tree, prev_table_index, req, at, scan, calls, placed>>

SetPrevIndex(t) ==
    /\ pc[t] = "set_index"
    /\ prev_table_index' = Region(req[t].off)
    /\ Goto(t, "size")
    /\ UNCHANGED <<tree, prev_table, req, at, scan, calls, placed>>

-----------------------------------------------------------------------------
(* get_log_size and TABLE_INDEX: the slot of the log is found.              *)

Return(t, size, first) ==
    /\ placed' = placed \cup {[off |-> req[t].off, len |-> req[t].len, first |-> first,
                               table |-> at[t], size |-> size,
                               index |-> TABLE_INDEX(size, req[t].off)]}
    /\ req' = [req EXCEPT ![t] = NULL]
    /\ MoveTo(t, NULL)
    /\ Goto(t, "idle")

TestSize(t) ==
    /\ pc[t] = "size"
    /\ \/ /\ node[at[t]].log_size # NrLogSizes
          /\ Return(t, node[at[t]].log_size, FALSE)
       \/ /\ node[at[t]].log_size = NrLogSizes
          /\ Goto(t, "size_cas")
          /\ UNCHANGED <<req, at, placed>>
    /\ UNCHANGED <<tree, prev, scan, calls>>

NoMatterWhoWins(t) == TRUE
SizeIs4K(t) == node[at[t]].log_size = 0
SizeUnset(t) == node[at[t]].log_size = NrLogSizes

CasSize(t) ==
    LET s == set_log_size(req[t].off, req[t].len)
    IN  /\ pc[t] = "size_cas"
        /\ \/ /\ SizeUnset(t)
              /\ node' = [node EXCEPT ![at[t]].log_size = s]
              /\ Return(t, s, TRUE)
           \/ /\ ~SizeUnset(t)
              /\ Goto(t, "size")
              /\ UNCHANGED <<node, req, at, placed>>
        /\ UNCHANGED <<pool, skip, prev, scan, calls>>

-----------------------------------------------------------------------------
(* The checkpoint thread.                                                   *)

\* find_log_table
find_log_table(off) ==
    LET Down(n) == IF n = NULL \/ node[n].type = TABLE THEN n ELSE Child(n, off)
    IN  Down(Down(Down(Down(skip))))

\* One round of the loop of checkpoint_mmio.  For a table without a log size
\* NR_ENTRIES shifts by -1, and the scan leaves the array of entries.
CkptVisit ==
    /\ scan # OVERRUN
    /\ LET n == find_log_table(scan)
       IN  scan' = IF n # NULL /\ node[n].log_size = NrLogSizes THEN OVERRUN
                   ELSE IF scan + Span > MaxOff THEN 0 ELSE scan + Span
    /\ UNCHANGED <<tree, prev, pc, req, at, calls, placed>>

ThreadStep(t) ==
    \/ CheckPrev(t) \/ Reuse(t) \/ Walk(t) \/ AllocTable(t)
    \/ SetPrevTable(t) \/ SetPrevIndex(t) \/ TestSize(t) \/ CasSize(t)

Next == CkptVisit \/ \E t \in Threads : Call(t) \/ ThreadStep(t)

Spec == Init /\ [][Next]_vars

\* A thread inside a lookup keeps running.
FairSpec == Spec /\ \A t \in Threads : WF_vars(ThreadStep(t))

-----------------------------------------------------------------------------
\* Every variable has its type, and so has every table: one level below the
\* table that leads to it.
TypeOK ==
    /\ \A n \in Tables \ pool :
          /\ node[n].type \in TABLE .. LGD
          /\ node[n].log_size \in 0 .. NrLogSizes
          /\ \A i \in 0 .. Fan - 1 :
                node[n].entries[i] \in {NULL} \cup
                    {m \in Tables \ pool : node[m].type = node[n].type - 1}
    /\ pool \subseteq Tables /\ skip \in Tables \ pool
    /\ prev_table \in Tables \cup {NULL}
    /\ prev_table_index \in -1 .. Fan^3 - 1
    /\ \A t \in Threads : /\ at[t] \in (Tables \ pool) \cup {NULL}
                          /\ req[t] \in Requests \cup {NULL}
    /\ scan \in {OVERRUN} \cup 0 .. MaxOff

Slot(p) == <<p.table, p.index>>
Block(p) == LET base == p.off - (p.off % LOG_SIZE(p.size))
            IN  base .. base + LOG_SIZE(p.size) - 1

\* Two lookups lead to the same slot, and so to the same entry and its lock,
\* exactly when they fall into the same log block; blocks of different slots
\* do not overlap.  Whichever threads allocated the tables, set their sizes
\* or went through the prev_table cache.
OneLog == \A p, q \in placed : Slot(p) = Slot(q) <=> Block(p) \cap Block(q) # {}

\* The checkpoint thread reaches every slot that get_log_table has handed out:
\* find_log_table leads from its offset to the same table.
Findable == \A p \in placed : find_log_table(p.off) = p.table

\* The size that the first access gives a table is the least one whose block
\* takes the access when it starts in the first page of the block, or the
\* greatest size when there is none.
SizeFits == \A p \in placed : p.first =>
                LET need == (p.off % PageCells) + p.len
                IN  /\ LOG_SIZE(p.size) >= need \/ p.size = NrLogSizes - 1
                    /\ p.size > 0 => LOG_SIZE(p.size - 1) < need

\* A log size once set is never set again, so the entries of a table keep
\* their meaning, and a table once linked stays linked.
TablesStable ==
    [][\A n \in Tables \ pool :
          /\ node[n].log_size # NrLogSizes => node'[n].log_size = node[n].log_size
          /\ \A i \in 0 .. Fan - 1 :
                node[n].entries[i] # NULL => node'[n].entries[i] = node[n].entries[i]]_vars

\* The scan of checkpoint_mmio stays within the entries of a table.
ScanInTable == scan # OVERRUN

\* A lookup ends: the retry loop of get_log_size and the walk do not spin.
LookupsReturn == \A t \in Threads : pc[t] # "idle" ~> pc[t] = "idle"
=============================================================================
