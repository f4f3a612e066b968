----------------------------- MODULE MmioProofs -----------------------------
(***************************************************************************)
(* TLAPS proofs about one open file under concurrent calls, for every      *)
(* number of threads, blocks and entries and every set of calls: the       *)
(* mapping covers a write before it is performed, an index entry is in one *)
(* place, and, for calls that stay within a log block, the entry locks     *)
(* protect the block and are all given back, get_log_entry never returns   *)
(* NULL, and the file size covers every write that has returned.           *)
(***************************************************************************)
EXTENDS Mmio, FiniteSetTheorems, NaturalsInduction, WellFoundedInduction, TLAPS

-----------------------------------------------------------------------------
(* Types.                                                                   *)

\* Where a thread takes mmio->rwlock and grows the mapping, where it looks for
\* the entry of a block, where it works on entries, and where it does not have
\* mmio->rwlock.
Entering == {"enter", "expend", "grow", "relock"}
Finding == {"get", "publish", "reload", "trylock"}
Working == {"log", "append", "store", "size", "setsize", "check", "copy",
            "unlock", "advance"}
Outside == {"idle", "enter", "grow", "relock", "commit", "try"}
ThreadPCs == {"idle", "commit", "count", "leave"}
                \cup Entering \cup Finding \cup Working
CkptPCs == {"idle", "try", "scan", "lock", "recheck", "free"}

MaybeEntry == Entries \cup {NULL}
Locks == [rd : Int, wr : Agents \cup {NoThread}]

IsLocals(l) ==
    l \in [req : {l.req}, head : MaybeEntry, cand : MaybeEntry, cur : MaybeEntry,
           off : Int, n : Int, ret : Nat, got : {l.got}]

IsEntry(x) ==
    x \in [epoch : Nat, offset : {x.offset}, len : {x.len}, policy : {x.policy},
           dst : {x.dst}, log : {x.log}]

\* A thread, wherever it is: what its loops are at exists.
ThreadTypes(t) ==
    /\ pc[t] \in ThreadPCs /\ IsLocals(loc[t])
    /\ pc[t] # "idle" => /\ loc[t].req \in AllRequests
                         /\ loc[t].req.kind = "fsync" <=> pc[t] = "commit"
    /\ pc[t] \in Entering \cup Finding => loc[t].off \in Positions
    /\ pc[t] = "publish" => loc[t].cand \in Entries
    /\ pc[t] \in {"log", "append"} => loc[t].n >= 0
    /\ pc[t] \in Working => loc[t].cur \in Entries
    /\ pc[t] \in {"log", "append", "check", "copy", "count"} => loc[t].head \in Entries

Types ==
    /\ pc = [a \in Agents |-> pc[a]] /\ pc[Ckpt] \in CkptPCs
    /\ loc = [t \in Threads |-> loc[t]]
    /\ \A t \in Threads : ThreadTypes(t)
    /\ file = [p \in Positions |-> file[p]]
    /\ mapped \in Nat /\ start \in Nat /\ fsize \in Nat /\ epoch \in Nat
    /\ policy \in Policies
    /\ entries \in [Blocks -> MaybeEntry] /\ next \in [Entries -> MaybeEntry]
    /\ elock \in [Entries -> Locks]
    /\ ent = [e \in Entries |-> ent[e]] /\ \A e \in Entries : IsEntry(ent[e])
    /\ pool \subseteq Entries
    /\ ck \in [epoch : Nat, i : Blocks, entry : MaybeEntry]
    /\ pc[Ckpt] \in {"lock", "recheck", "free"} => ck.entry \in Entries
    /\ readers = {a \in Agents : pc[a] \notin Outside}

-----------------------------------------------------------------------------
(* Invariants.                                                              *)

\* From the moment expend_mmio is behind it, a write lies in the mapping.
MapInv ==
    \A t \in Threads :
       /\ pc[t] \notin {"idle", "enter", "expend", "grow", "commit"}
       /\ IsWrite(t)
       => End(loc[t].req) <= mapped

\* The entry the checkpoint thread is about to lock, apply or free stays in
\* its slot.
Reclaiming == pc[Ckpt] \in {"lock", "recheck", "free"} => entries[ck.i] = ck.entry

PlaceInv == OnePlace /\ Reclaiming

\* Every call stays within a log block.
OneBlock == \A r \in AllRequests : r.kind # "fsync" => End(r) <= Base(Block(r.off) + 1)

Holding == (Working \ {"advance"}) \cup {"count"}
BlockOf(t) == Block(loc[t].req.off)

\* Then every list of entries has one element.
LocalInv(t) ==
    /\ pc[t] \in Entering \cup Finding =>
          loc[t].head = NULL /\ loc[t].off = loc[t].req.off /\ loc[t].ret = 0
    /\ pc[t] \in Working => loc[t].cur = loc[t].head
    /\ pc[t] \in Holding => loc[t].head \in Entries
    /\ pc[t] \in {"log", "append"} =>
          loc[t].off = loc[t].req.off /\ loc[t].n = loc[t].req.len /\ loc[t].ret = 0
    /\ pc[t] \in {"count", "store", "size", "setsize"} /\ IsWrite(t) =>
          loc[t].ret = loc[t].req.len
    /\ pc[t] \in {"log", "append", "store", "size", "setsize"} => IsWrite(t)
    /\ pc[t] \in {"check", "copy"} => ~IsWrite(t)

\* The entry a thread holds is the one of its block, the one it is about to
\* publish is not locked, and the one it has found can be locked only as long
\* as it is in the table.
SharedInv(t) ==
    /\ pc[t] \in Holding => entries[BlockOf(t)] = loc[t].head
    /\ pc[t] = "publish" => elock[loc[t].cand] = Unlocked
    /\ pc[t] = "trylock" => \/ loc[t].cand \in {NULL, entries[BlockOf(t)]}
                            \/ loc[t].cand \in pool /\ elock[loc[t].cand].wr # NoThread

HoldsRead(t, e) == pc[t] \in Holding /\ ~IsWrite(t) /\ loc[t].head = e
HoldsWrite(t, e) == pc[t] \in Holding /\ IsWrite(t) /\ loc[t].head = e
ReadHolders(e) == {t \in Threads : HoldsRead(t, e)}
CkptHolds(e) == pc[Ckpt] \in {"recheck", "free"} /\ ck.entry = e
InTable(e) == \E b \in Blocks : entries[b] = e

\* The lock of an entry in the table says who holds it.
LockInv(e) ==
    /\ elock[e].rd = Cardinality(ReadHolders(e))
    /\ elock[e].wr # NoThread => elock[e].rd = 0
    /\ \A t \in Threads : elock[e].wr = t <=> HoldsWrite(t, e)
    /\ elock[e].wr = Ckpt <=> CkptHolds(e)

BlockInv ==
    /\ \A e \in Entries : next[e] = NULL /\ elock[e].rd >= 0
    /\ \A t \in Threads : LocalInv(t) /\ SharedInv(t)
    /\ \A e \in Entries : InTable(e) => LockInv(e)

\* The size never shrinks, because at most one thread is about to set it.
SizeOf(t) ==
    /\ pc[t] \notin {"idle", "commit"} => loc[t].req.off <= fsize
    /\ pc[t] = "setsize" => fsize < End(loc[t].req)
    /\ pc[t] \in {"unlock", "advance", "leave"} /\ IsWrite(t) => End(loc[t].req) <= fsize
SizeInv == wend \in Nat /\ wend <= fsize /\ \A t \in Threads : SizeOf(t)

\* The epoch fits the field of an entry.
NoWrap == epoch < EpochMod

\* What a thread has found empty in this epoch, nobody frees in this epoch.
ThisEpoch(e) == e \in Entries /\ ent[e].epoch = epoch
EpochOf(t) ==
    /\ pc[t] = "publish" => /\ ThisEpoch(loc[t].cand)
                            /\ entries[Index(t)] = NULL \/ ThisEpoch(entries[Index(t)])
    /\ pc[t] = "reload" => ThisEpoch(entries[Index(t)])
    /\ pc[t] = "trylock" => loc[t].cand # NULL
CkptEpoch ==
    /\ pc[Ckpt] # "idle" => ck.epoch <= epoch
    /\ pc[Ckpt] = "free" => ent[ck.entry].epoch < ck.epoch
EpochInv == CkptEpoch /\ \A t \in Threads : EpochOf(t)

-----------------------------------------------------------------------------
(* Constants and numbers.                                                   *)

LEMMA Least ==
    ASSUME NEW S \in SUBSET Nat, S # {}
    PROVE  \E x \in S : \A y \in S : x <= y
<1>1. PICK x \in S : \A y \in S : ~(<<y, x>> \in OpToRel(<, Nat))
  BY NatLessThanWellFounded, WFMin
<1>2. OpToRel(<, Nat) = {ss \in Nat \X Nat : ss[1] < ss[2]}
  BY Zenon DEF OpToRel
<1>3. \A y \in S : ~(y < x)
  BY <1>1, <1>2
<1> QED
  BY <1>3

LEMMA Division ==
    ASSUME NEW a \in Int, NEW b \in Nat \ {0}
    PROVE  /\ a \div b \in Int /\ a % b \in 0 .. b - 1
           /\ a = b * (a \div b) + (a % b)
           /\ a \in Nat => a \div b \in Nat
OBVIOUS

LEMMA DivisionIs ==
    ASSUME NEW a \in Nat, NEW b \in Nat \ {0}, NEW c \in Nat, NEW r \in 0 .. b - 1, a = b * c + r
    PROVE  a \div b = c /\ a % b = r
OBVIOUS

LEMMA SmallModulo ==
    ASSUME NEW a \in Nat, NEW b \in Nat \ {0}
    PROVE  a % b \in Nat /\ (a < b => a % b = a)
OBVIOUS

LEMMA Constants ==
    /\ LogSize \in Nat \ {0} /\ MaxBlocks \in Nat \ {0} /\ MaxBlocks * LogSize \in Nat
    /\ InitSize \in Nat /\ DefaultMmap \in Nat /\ BasicMmap \in Nat \ {0}
    /\ NULL \notin Entries /\ Entries \subseteq Nat
    /\ Ckpt \notin Threads /\ NoThread \notin Agents /\ IsFiniteSet(Threads)
    /\ Agents = Threads \cup {Ckpt} /\ EpochMod \in Nat \ {0}
    /\ EagerReuse \in BOOLEAN /\ Policies \subseteq {"UNDO", "REDO"}
BY MmioAssumption, LogSizeAssumption DEF Agents

\* The calls.
LEMMA Request ==
    ASSUME NEW r \in AllRequests
    PROVE  /\ r.kind \in {"read", "write", "fsync"} /\ r.off \in Nat /\ r.len \in Nat
           /\ End(r) = r.off + r.len
           /\ r.kind # "fsync" => /\ r.len > 0 /\ r.off \in Positions
                                  /\ End(r) \in 1 .. MaxBlocks * LogSize
<1>1. PICK p \in Policies : r \in Requests[p]
  BY DEF AllRequests
<1>2. /\ r.kind \in {"read", "write", "fsync"} /\ r.off \in Nat /\ r.len \in Nat
      /\ r.kind # "fsync" => r.len > 0 /\ r.off + r.len - 1 \in Positions
  BY <1>1, MmioAssumption
<1> QED
  BY <1>2, Constants DEF End, Positions

\* A position of the file is in one block.
LEMMA Product ==
    ASSUME NEW a \in Int, NEW b \in Int, NEW c \in Nat, a <= b
    PROVE  a * c <= b * c /\ a * c \in Int
OBVIOUS

LEMMA BlockIs ==
    ASSUME NEW p \in Positions
    PROVE  /\ Block(p) \in Blocks /\ Base(Block(p)) \in Nat
           /\ Base(Block(p)) <= p /\ p < Base(Block(p) + 1)
           /\ Base(Block(p) + 1) = Base(Block(p)) + LogSize
           /\ p % LogSize \in 0 .. LogSize - 1 /\ p = Base(Block(p)) + (p % LogSize)
<1>0. p \in Nat /\ p < MaxBlocks * LogSize
  BY Constants DEF Positions
<1>1. PICK q : q = p \div LogSize
  OBVIOUS
<1>2. q \in Nat /\ p = LogSize * q + (p % LogSize) /\ p % LogSize \in 0 .. LogSize - 1
  <2>1. p \in Int /\ p \in Nat /\ LogSize \in Nat \ {0}
    BY <1>0, Constants
  <2>2. /\ p \div LogSize \in Nat /\ p % LogSize \in 0 .. LogSize - 1
        /\ p = LogSize * (p \div LogSize) + (p % LogSize)
    BY <2>1, Division
  <2> QED
    BY <1>1, <2>2
<1>3. (q + 1) * LogSize = q * LogSize + LogSize /\ LogSize * q = q * LogSize /\ q * LogSize \in Nat
  BY <1>2, Constants
<1>4. q < MaxBlocks
  <2>1. SUFFICES ASSUME MaxBlocks <= q PROVE FALSE
    BY <1>2, Constants
  <2>2. MaxBlocks * LogSize <= q * LogSize
    BY <1>2, <2>1, Product, Constants
  <2> QED
    BY <1>0, <1>2, <1>3, <2>2, Constants
<1>5. Block(p) = q /\ Base(q) = q * LogSize /\ Base(q + 1) = (q + 1) * LogSize
  BY <1>1 DEF Block, Base
<1> QED
  BY <1>0, <1>2, <1>3, <1>4, <1>5, Constants DEF Blocks

\* The next block starts where the request goes on.
LEMMA NextBlock ==
    ASSUME NEW p \in Positions, NEW r \in AllRequests, r.kind # "fsync",
           Base(Block(p) + 1) < End(r)
    PROVE  Base(Block(p) + 1) \in Positions
BY BlockIs, Request, Constants DEF Positions

-----------------------------------------------------------------------------
(* What the actions of a thread do to its own variables.                    *)

\* Nobody else moves.
Alone(t) == /\ pc' = [a \in Agents |-> pc'[a]] /\ pc'[Ckpt] = pc[Ckpt]
            /\ loc' = [u \in Threads |-> loc'[u]]
            /\ \A u \in Threads : u # t => pc'[u] = pc[u] /\ loc'[u] = loc[u]

\* The thread goes on with the same request.
Onward(t) == Alone(t) /\ IsLocals(loc'[t]) /\ loc'[t].req = loc[t].req

LEMMA Moved ==
    ASSUME Types, NEW t \in Threads, NEW to, NEW l,
           pc' = [pc EXCEPT ![t] = to], loc' = [loc EXCEPT ![t] = l]
    PROVE  Alone(t) /\ pc'[t] = to /\ loc'[t] = l
BY Constants DEF Alone, Types, Agents

\* A thread that only moves on.
LEMMA MovedOn ==
    ASSUME Types, NEW t \in Threads, NEW to, pc' = [pc EXCEPT ![t] = to], loc' = loc
    PROVE  Onward(t) /\ pc'[t] = to /\ loc'[t] = loc[t]
BY Constants DEF Onward, Alone, Types, ThreadTypes, Agents

LEMMA LockEntryStep ==
    ASSUME Types, NEW t \in Threads, LockEntry(t)
    PROVE  LET more == Base(Index(t) + 1) < End(loc[t].req)
           IN  /\ Onward(t)
               /\ loc'[t].head = loc[t].cand /\ loc'[t].cur = loc[t].cand
               /\ loc'[t].cand = NULL /\ loc'[t].n = loc[t].req.len
               /\ loc'[t].ret = loc[t].ret
               /\ loc'[t].off = IF more THEN Base(Index(t) + 1) ELSE loc[t].req.off
               /\ pc'[t] = IF more THEN "get" ELSE IF IsWrite(t) THEN "log" ELSE "check"
               /\ loc[t].cand \in Entries
<1> DEFINE more == Base(Index(t) + 1) < End(loc[t].req)
<1>1. PICK k, off, to :
         /\ k = loc[t]
         /\ off = IF more THEN Base(Index(t) + 1) ELSE loc[t].req.off
         /\ to = IF more THEN "get" ELSE IF IsWrite(t) THEN "log" ELSE "check"
  OBVIOUS
<1> DEFINE l == [k EXCEPT !.head = k.cand, !.cand = NULL, !.cur = k.cand,
                          !.n = k.req.len, !.off = off]
<1>2. IsLocals(k) /\ pc[t] = "trylock" /\ k.req \in AllRequests /\ k.req.kind # "fsync"
      /\ k.off \in Positions
  BY <1>1 DEF Types, ThreadTypes, LockEntry, Finding
<1>3. pc' = [pc EXCEPT ![t] = to] /\ loc' = [loc EXCEPT ![t] = l] /\ k.cand # NULL
  BY <1>1 DEF LockEntry, Goto
<1>4. off \in Int /\ k.req.len \in Int
  <2>1. more => Base(Index(t) + 1) \in Positions
    BY <1>1, <1>2, NextBlock DEF Index
  <2> QED
    BY <1>1, <1>2, <2>1, Request, Constants DEF Positions
<1>5. /\ IsLocals(l) /\ l.req = k.req /\ l.head = k.cand /\ l.cur = k.cand /\ l.cand = NULL
      /\ l.n = k.req.len /\ l.ret = k.ret /\ l.off = off
  BY <1>2, <1>4 DEF IsLocals, MaybeEntry
<1>6. k.cand \in Entries
  BY <1>2, <1>3 DEF IsLocals, MaybeEntry
<1> HIDE DEF l
<1>7. Alone(t) /\ pc'[t] = to /\ loc'[t] = l
  BY <1>3, Moved
<1> QED
  BY <1>1, <1>5, <1>6, <1>7 DEF Onward

\* Of a thread's variables only the entry it has found changes.
SamePlace(t) == /\ loc'[t].head = loc[t].head /\ loc'[t].cur = loc[t].cur
                /\ loc'[t].off = loc[t].off /\ loc'[t].n = loc[t].n
                /\ loc'[t].ret = loc[t].ret

LEMMA CandStep ==
    ASSUME Types, NEW t \in Threads, NEW to, NEW c \in MaybeEntry,
           pc' = [pc EXCEPT ![t] = to], loc' = [loc EXCEPT ![t].cand = c]
    PROVE  Onward(t) /\ SamePlace(t) /\ pc'[t] = to /\ loc'[t].cand = c
<1>1. PICK k : k = loc[t]
  OBVIOUS
<1> DEFINE l == [k EXCEPT !.cand = c]
<1>2. loc' = [loc EXCEPT ![t] = l]
  BY <1>1
<1>3. IsLocals(k)
  BY <1>1 DEF Types, ThreadTypes
<1>4. /\ IsLocals(l) /\ l.req = k.req /\ l.head = k.head /\ l.cur = k.cur /\ l.cand = c
      /\ l.n = k.n /\ l.ret = k.ret /\ l.off = k.off
  BY <1>3 DEF IsLocals
<1> HIDE DEF l
<1>5. Alone(t) /\ pc'[t] = to /\ loc'[t] = l
  BY <1>2, Moved
<1> QED
  BY <1>1, <1>4, <1>5 DEF Onward, SamePlace

LEMMA FreshLocals ==
    /\ IsLocals(NoLocals) /\ NoLocals.head = NULL /\ NoLocals.cand = NULL
    /\ NoLocals.cur = NULL /\ NoLocals.ret = 0
BY DEF IsLocals, NoLocals, MaybeEntry

LEMMA CallStep ==
    ASSUME Types, NEW t \in Threads, Call(t)
    PROVE  \E r \in AllRequests :
              /\ Alone(t) /\ IsLocals(loc'[t]) /\ loc'[t].req = r /\ loc'[t].off = r.off
              /\ loc'[t].head = NULL /\ loc'[t].cand = NULL /\ loc'[t].cur = NULL
              /\ loc'[t].ret = 0
              /\ r.kind # "fsync" => r.off <= fsize
              /\ pc'[t] = IF r.kind = "fsync" THEN "commit" ELSE "enter"
<1>1. PICK r \in Requests[policy] :
         /\ r.kind # "fsync" => r.off <= fsize
         /\ loc' = [loc EXCEPT ![t] = [NoLocals EXCEPT !.req = r, !.off = r.off]]
         /\ pc' = [pc EXCEPT ![t] = IF r.kind = "fsync" THEN "commit" ELSE "enter"]
  BY DEF Call, Goto
<1> DEFINE l == [NoLocals EXCEPT !.req = r, !.off = r.off]
<1>2. r \in AllRequests
  BY <1>1 DEF Types, AllRequests
<1>3. r.off \in Int
  BY <1>2, Request
<1>4. /\ IsLocals(l) /\ l.req = r /\ l.off = r.off /\ l.head = NULL /\ l.cand = NULL
      /\ l.cur = NULL /\ l.ret = 0
  <2>1. PICK k : k = NoLocals
    OBVIOUS
  <2>2. IsLocals(k) /\ k.head = NULL /\ k.cand = NULL /\ k.cur = NULL /\ k.ret = 0
    BY <2>1, FreshLocals
  <2> DEFINE m == [k EXCEPT !.req = r, !.off = r.off]
  <2>3. /\ IsLocals(m) /\ m.req = r /\ m.off = r.off /\ m.head = NULL /\ m.cand = NULL
        /\ m.cur = NULL /\ m.ret = 0
    BY <1>3, <2>2 DEF IsLocals
  <2> QED
    BY <2>1, <2>3
<1> HIDE DEF l
<1>5. /\ Alone(t) /\ loc'[t] = l
      /\ pc'[t] = IF r.kind = "fsync" THEN "commit" ELSE "enter"
  BY <1>1, Moved DEF l
<1> QED
  BY <1>1, <1>2, <1>4, <1>5

LEMMA ReturnStep ==
    ASSUME Types, NEW t \in Threads, Leave(t) \/ Commit(t)
    PROVE  Alone(t) /\ pc'[t] = "idle" /\ loc'[t] = NoLocals /\ IsLocals(loc'[t])
<1>1. pc' = [pc EXCEPT ![t] = "idle"] /\ loc' = [loc EXCEPT ![t] = NoLocals]
  BY DEF Leave, Commit, Goto
<1> QED
  BY <1>1, FreshLocals, Moved

\* Where get_log_entry looks exists.
LEMMA IndexIn ==
    ASSUME Types, NEW t \in Threads, pc[t] \in Finding
    PROVE  Index(t) \in Blocks /\ entries[Index(t)] \in MaybeEntry
<1>1. loc[t].off \in Positions
  BY DEF Types, ThreadTypes
<1>2. Index(t) \in Blocks
  BY <1>1, BlockIs DEF Index
<1> QED
  BY <1>2 DEF Types

LEMMA GetEntryStep ==
    ASSUME Types, NEW t \in Threads, GetEntry(t)
    PROVE  /\ Onward(t) /\ SamePlace(t) /\ pc[t] = "get"
           /\ \/ /\ entries[Index(t)] \in Entries /\ loc'[t].cand = entries[Index(t)]
                 /\ pc'[t] = "trylock" /\ UNCHANGED tables
              \/ \E e \in Reusable :
                    /\ entries[Index(t)] = NULL /\ loc'[t].cand = e /\ pc'[t] = "publish"
                    /\ alloc_idx_entry(e) /\ e \in Entries /\ e \in pool /\ entries' = entries
<1>1. pc[t] = "get" /\ pc[t] \in Finding /\ entries[Index(t)] \in MaybeEntry
  BY IndexIn DEF GetEntry, Finding
<1>2. CASE /\ entries[Index(t)] # NULL /\ loc' = [loc EXCEPT ![t].cand = entries[Index(t)]]
           /\ pc' = [pc EXCEPT ![t] = "trylock"] /\ UNCHANGED tables
  <2>1. entries[Index(t)] \in Entries
    BY <1>1, <1>2 DEF MaybeEntry
  <2> QED
    BY <1>1, <1>2, <2>1, CandStep
<1>3. CASE entries[Index(t)] = NULL /\ ~(/\ entries[Index(t)] # NULL
           /\ loc' = [loc EXCEPT ![t].cand = entries[Index(t)]]
           /\ pc' = [pc EXCEPT ![t] = "trylock"] /\ UNCHANGED tables)
  <2> DEFINE new == CHOOSE f \in Reusable : \A g \in Reusable : f <= g
  <2>1. /\ Reusable # {} /\ alloc_idx_entry(new) /\ loc' = [loc EXCEPT ![t].cand = new]
        /\ pc' = [pc EXCEPT ![t] = "publish"] /\ entries' = entries
    BY <1>3 DEF GetEntry, Goto
  <2>2. Reusable \in SUBSET Nat /\ Reusable \subseteq pool /\ pool \subseteq Entries
    BY Constants DEF Reusable, Types
  <2>3. new \in Reusable
    BY <2>1, <2>2, Least
  <2> HIDE DEF new
  <2>4. new \in Entries /\ new \in pool /\ new \in MaybeEntry
    BY <2>2, <2>3 DEF MaybeEntry
  <2>5. Onward(t) /\ SamePlace(t) /\ pc'[t] = "publish" /\ loc'[t].cand = new
    BY <2>1, <2>4, CandStep
  <2> QED
    BY <1>1, <1>3, <2>1, <2>3, <2>4, <2>5
<1> QED
  BY <1>2, <1>3 DEF GetEntry, Goto, tables

LEMMA PublishStep ==
    ASSUME Types, NEW t \in Threads, Publish(t)
    PROVE  /\ Onward(t) /\ SamePlace(t) /\ pc[t] = "publish" /\ loc[t].cand \in Entries
           /\ Index(t) \in Blocks /\ entries[Index(t)] \in MaybeEntry
           /\ next' = next /\ elock' = elock
           /\ \/ /\ entries[Index(t)] = NULL
                 /\ entries' = [entries EXCEPT ![Index(t)] = loc[t].cand]
                 /\ pc'[t] = "trylock" /\ loc'[t].cand = loc[t].cand
                 /\ ent' = ent /\ pool' = pool
              \/ /\ entries[Index(t)] # NULL /\ entries' = entries
                 /\ free_idx_entry(loc[t].cand)
                 /\ pc'[t] = "reload" /\ loc'[t].cand = NULL
<1>1. pc[t] = "publish" /\ loc[t].cand \in Entries /\ pc[t] \in Finding
  BY DEF Publish, Types, ThreadTypes, Finding
<1>2. Index(t) \in Blocks /\ entries[Index(t)] \in MaybeEntry
  BY <1>1, IndexIn
<1>3. CASE CasWins(t)
  <2>1. pc' = [pc EXCEPT ![t] = "trylock"] /\ loc' = loc
    BY <1>3 DEF Publish, Goto
  <2>2. Onward(t) /\ pc'[t] = "trylock" /\ loc'[t] = loc[t]
    BY <2>1, MovedOn
  <2>3. SamePlace(t)
    BY <2>2 DEF SamePlace
  <2> QED
    BY <1>1, <1>2, <1>3, <2>2, <2>3 DEF Publish, CasWins
<1>4. CASE ~CasWins(t)
  <2>1. pc' = [pc EXCEPT ![t] = "reload"] /\ loc' = [loc EXCEPT ![t].cand = NULL]
    BY <1>4 DEF Publish, Goto
  <2>2. Onward(t) /\ SamePlace(t) /\ pc'[t] = "reload" /\ loc'[t].cand = NULL
    BY <2>1, CandStep DEF MaybeEntry
  <2> QED
    BY <1>1, <1>2, <1>4, <2>2 DEF Publish, CasWins
<1> QED
  BY <1>3, <1>4

LEMMA ReloadStep ==
    ASSUME Types, NEW t \in Threads, Reload(t)
    PROVE  /\ Onward(t) /\ SamePlace(t) /\ pc'[t] = "trylock"
           /\ loc'[t].cand = entries[Index(t)] /\ Index(t) \in Blocks
<1>1. Index(t) \in Blocks /\ entries[Index(t)] \in MaybeEntry
  BY IndexIn DEF Reload, Finding
<1> QED
  BY <1>1, CandStep DEF Reload, Goto

LEMMA LockBusyStep ==
    ASSUME Types, NEW t \in Threads, LockBusy(t)
    PROVE  Onward(t) /\ SamePlace(t) /\ pc'[t] = "get" /\ loc'[t].cand = NULL
BY CandStep DEF LockBusy, Goto, MaybeEntry

\* The entry a loop is at, and the one after it.
LEMMA CurIn ==
    ASSUME Types, NEW t \in Threads, pc[t] \in Working
    PROVE  /\ loc[t].cur \in Entries /\ next[loc[t].cur] \in MaybeEntry
           /\ elock[loc[t].cur] \in Locks /\ IsEntry(ent[loc[t].cur])
BY DEF Types, ThreadTypes

LEMMA LogOneStep ==
    ASSUME Types, NEW t \in Threads, LogOne(t)
    PROVE  LET n == Smaller(loc[t].n, LogSize - (loc[t].off % LogSize))
           IN  /\ Onward(t) /\ pc[t] \in {"log", "append"}
               /\ loc'[t].head = loc[t].head /\ loc'[t].cand = loc[t].cand
               /\ loc'[t].cur = next[loc[t].cur] /\ loc'[t].n = n /\ n \in Nat
               /\ loc'[t].ret = loc[t].ret + n
               /\ pc'[t] = IF next[loc[t].cur] = NULL THEN "count" ELSE "log"
<1>1. PICK k, c, to, n :
         /\ k = loc[t] /\ c = next[loc[t].cur]
         /\ to = IF next[loc[t].cur] = NULL THEN "count" ELSE "log"
         /\ n = Smaller(loc[t].n, LogSize - (loc[t].off % LogSize))
  OBVIOUS
<1>0. PICK ret, off : ret = k.ret + n /\ off = k.off + n
  OBVIOUS
<1> DEFINE l == [k EXCEPT !.cur = c, !.n = n, !.ret = ret, !.off = off]
<1>2. pc[t] \in {"log", "append"} /\ pc[t] \in Working
  BY DEF LogOne, Working
<1>3. IsLocals(k) /\ c \in MaybeEntry /\ k.n \in Int /\ k.off \in Int /\ k.ret \in Nat
  BY <1>1, <1>2, CurIn DEF Types, ThreadTypes, IsLocals
<1>4. k.n >= 0
  BY <1>1, <1>2 DEF Types, ThreadTypes
<1>5. k.off % LogSize \in 0 .. LogSize - 1
  BY <1>3, Constants, Division
<1>6. n \in Nat
  BY <1>1, <1>3, <1>4, <1>5, Constants DEF Smaller
<1>7. pc' = [pc EXCEPT ![t] = to] /\ loc' = [loc EXCEPT ![t] = l]
  BY <1>0, <1>1 DEF LogOne, Goto
<1>8. ret \in Nat /\ off \in Int /\ n \in Int
  BY <1>0, <1>3, <1>6
<1>9. /\ IsLocals(l) /\ l.req = k.req /\ l.head = k.head /\ l.cand = k.cand /\ l.cur = c
      /\ l.n = n /\ l.ret = ret
  BY <1>3, <1>8 DEF IsLocals
<1> HIDE DEF l
<1>10. Alone(t) /\ pc'[t] = to /\ loc'[t] = l
  BY <1>7, Moved
<1> QED
  BY <1>0, <1>1, <1>2, <1>6, <1>9, <1>10 DEF Onward

LEMMA CountStep ==
    ASSUME Types, NEW t \in Threads, Count(t)
    PROVE  /\ Onward(t) /\ loc'[t].head = loc[t].head /\ loc'[t].cand = loc[t].cand
           /\ loc'[t].cur = loc[t].head /\ loc'[t].ret = loc[t].ret
           /\ pc'[t] = IF ~IsWrite(t) THEN "unlock"
                       ELSE IF policy = "UNDO" THEN "store" ELSE "size"
<1>1. PICK k, h, to : /\ k = loc[t] /\ h = k.head
                   /\ to = IF ~IsWrite(t) THEN "unlock"
                           ELSE IF policy = "UNDO" THEN "store" ELSE "size"
  OBVIOUS
<1>0. PICK z \in Int : z = 0
  OBVIOUS
<1> DEFINE l == [k EXCEPT !.n = z, !.cur = h]
<1>2. IsLocals(k) /\ h \in MaybeEntry
  BY <1>1 DEF Types, ThreadTypes, IsLocals
<1>3. pc' = [pc EXCEPT ![t] = to] /\ loc' = [loc EXCEPT ![t] = l]
  BY <1>0, <1>1 DEF Count, Goto
<1>4. /\ IsLocals(l) /\ l.req = k.req /\ l.head = k.head /\ l.cand = k.cand
      /\ l.cur = h /\ l.ret = k.ret
  BY <1>2 DEF IsLocals
<1> HIDE DEF l
<1>5. Alone(t) /\ pc'[t] = to /\ loc'[t] = l
  BY <1>3, Moved
<1> QED
  BY <1>1, <1>4, <1>5 DEF Onward

\* Of a thread's variables only n changes.
SameEntries(t) == /\ Onward(t) /\ loc'[t].head = loc[t].head /\ loc'[t].cand = loc[t].cand
                  /\ loc'[t].cur = loc[t].cur /\ loc'[t].ret = loc[t].ret

LEMMA LengthStep ==
    ASSUME Types, NEW t \in Threads, NEW to, NEW n \in Int,
           pc' = [pc EXCEPT ![t] = to], loc' = [loc EXCEPT ![t].n = n]
    PROVE  SameEntries(t) /\ pc'[t] = to
<1>1. PICK k : k = loc[t]
  OBVIOUS
<1> DEFINE l == [k EXCEPT !.n = n]
<1>2. IsLocals(k)
  BY <1>1 DEF Types, ThreadTypes
<1>3. loc' = [loc EXCEPT ![t] = l]
  BY <1>1
<1>4. /\ IsLocals(l) /\ l.req = k.req /\ l.head = k.head /\ l.cand = k.cand
      /\ l.cur = k.cur /\ l.ret = k.ret
  BY <1>2 DEF IsLocals
<1> HIDE DEF l
<1>5. Alone(t) /\ pc'[t] = to /\ loc'[t] = l
  BY <1>3, Moved
<1> QED
  BY <1>1, <1>4, <1>5 DEF Onward, SameEntries

LEMMA StoreCellStep ==
    ASSUME Types, NEW t \in Threads, StoreCell(t)
    PROVE  SameEntries(t) /\ pc[t] = "store" /\ pc'[t] \in {"store", "size"}
<1>1. PICK n, to : /\ n = loc[t].n + 1
                   /\ to = IF loc[t].n + 1 = loc[t].req.len THEN "size" ELSE "store"
  OBVIOUS
<1>2. /\ pc' = [pc EXCEPT ![t] = to] /\ loc' = [loc EXCEPT ![t].n = n]
      /\ pc[t] = "store" /\ to \in {"store", "size"}
  BY <1>1 DEF StoreCell, Goto
<1>3. n \in Int
  <2>1. IsLocals(loc[t])
    BY DEF Types, ThreadTypes
  <2>2. loc[t].n \in Int
    BY <2>1 DEF IsLocals
  <2> QED
    BY <1>1, <2>2
<1> QED
  BY <1>2, <1>3, LengthStep

LEMMA CheckSizeStep ==
    ASSUME Types, NEW t \in Threads, CheckSize(t)
    PROVE  SameEntries(t) /\ pc[t] = "check" /\ pc'[t] \in {"copy", "count"}
<1>1. PICK n : n = IF fsize < End(loc[t].req) THEN fsize - loc[t].req.off ELSE loc[t].req.len
  OBVIOUS
<1>2. PICK to : to = IF n > 0 THEN "copy" ELSE "count"
  OBVIOUS
<1>3. /\ pc' = [pc EXCEPT ![t] = to] /\ loc' = [loc EXCEPT ![t].n = n]
      /\ pc[t] = "check" /\ to \in {"copy", "count"}
  BY <1>1, <1>2 DEF CheckSize, Goto
<1>4. n \in Int
  <2>1. loc[t].req \in AllRequests /\ fsize \in Nat
    BY <1>3 DEF Types, ThreadTypes
  <2>2. loc[t].req.off \in Nat /\ loc[t].req.len \in Nat
    BY <2>1, Request
  <2> QED
    BY <1>1, <2>1, <2>2
<1> QED
  BY <1>3, <1>4, LengthStep

LEMMA AdvanceStep ==
    ASSUME Types, NEW t \in Threads, Advance(t)
    PROVE  /\ Onward(t) /\ loc'[t].head = loc[t].head /\ loc'[t].cand = loc[t].cand
           /\ loc'[t].cur = next[loc[t].cur] /\ loc'[t].ret = loc[t].ret
           /\ loc[t].cur \in Entries
           /\ pc'[t] = IF next[loc[t].cur] = NULL THEN "leave" ELSE "unlock"
<1>1. PICK k, c, to : /\ k = loc[t] /\ c = next[loc[t].cur]
                      /\ to = IF next[loc[t].cur] = NULL THEN "leave" ELSE "unlock"
  OBVIOUS
<1> DEFINE l == [k EXCEPT !.cur = c]
<1>2. IsLocals(k) /\ c \in MaybeEntry /\ loc[t].cur \in Entries
  BY <1>1, CurIn DEF Types, ThreadTypes, Advance, Working
<1>3. pc' = [pc EXCEPT ![t] = to] /\ loc' = [loc EXCEPT ![t] = l]
  BY <1>1 DEF Advance, Goto, ListNext
<1>4. /\ IsLocals(l) /\ l.req = k.req /\ l.head = k.head /\ l.cand = k.cand
      /\ l.cur = c /\ l.ret = k.ret
  BY <1>2 DEF IsLocals
<1> HIDE DEF l
<1>5. Alone(t) /\ pc'[t] = to /\ loc'[t] = l
  BY <1>3, Moved
<1> QED
  BY <1>1, <1>2, <1>4, <1>5 DEF Onward

\* A read goes on in its part, or to the next entry of its list, or ends.
LEMMA CopyCellStep ==
    ASSUME Types, NEW t \in Threads, CopyCell(t)
    PROVE  /\ Onward(t) /\ pc[t] = "copy"
           /\ loc'[t].head = loc[t].head /\ loc'[t].cand = loc[t].cand
           /\ \/ pc'[t] = "copy" /\ loc'[t].cur = loc[t].cur
              \/ pc'[t] = "copy" /\ loc'[t].cur = next[loc[t].cur] /\ loc'[t].cur \in Entries
              \/ pc'[t] = "count" /\ loc'[t].cur = next[loc[t].cur]
<1>1. PICK k, c, lo : k = loc[t] /\ c = next[loc[t].cur] /\ lo = loc[t].off % LogSize
  OBVIOUS
<1>2. PICK part : part = IF policy = "UNDO" THEN loc[t].n ELSE Smaller(loc[t].n, LogSize - lo)
  OBVIOUS
<1>3. /\ IsLocals(k) /\ c \in MaybeEntry /\ loc[t].cur \in Entries /\ pc[t] = "copy"
      /\ pc = [pc EXCEPT ![t] = "copy"]
  <2>1. pc[t] = "copy" /\ pc[t] \in Working
    BY DEF CopyCell, Working
  <2>2. c \in MaybeEntry /\ loc[t].cur \in Entries
    BY <1>1, <2>1, CurIn
  <2>3. IsLocals(k)
    BY <1>1 DEF Types, ThreadTypes
  <2>4. pc = [pc EXCEPT ![t] = "copy"]
    BY <2>1 DEF Types, Agents
  <2> QED
    BY <2>1, <2>2, <2>3, <2>4
<1>4. k.n \in Int /\ k.off \in Int /\ k.ret \in Nat
  BY <1>3 DEF IsLocals
<1>5. part \in Int
  BY <1>1, <1>2, <1>4, Division, Constants DEF Smaller
<1>6. \E got :
         \/ /\ loc' = [loc EXCEPT ![t].got = got, ![t].ret = k.ret + 1] /\ pc' = pc
         \/ /\ loc' = [loc EXCEPT ![t].got = got, ![t].ret = 0,
                                  ![t].off = k.off + part, ![t].n = k.n - part,
                                  ![t].cur = c]
            /\ pc' = [pc EXCEPT ![t] = IF k.n - part > 0 /\ c # NULL THEN "copy" ELSE "count"]
  BY <1>1, <1>2 DEF CopyCell, Goto
<1>7. PICK got :
         \/ /\ loc' = [loc EXCEPT ![t].got = got, ![t].ret = k.ret + 1] /\ pc' = pc
         \/ /\ loc' = [loc EXCEPT ![t].got = got, ![t].ret = 0,
                                  ![t].off = k.off + part, ![t].n = k.n - part,
                                  ![t].cur = c]
            /\ pc' = [pc EXCEPT ![t] = IF k.n - part > 0 /\ c # NULL THEN "copy" ELSE "count"]
  BY <1>6
<1>8. CASE loc' = [loc EXCEPT ![t].got = got, ![t].ret = k.ret + 1] /\ pc' = pc
  <2>0. PICK ret \in Nat : ret = k.ret + 1
    BY <1>4
  <2> DEFINE l == [k EXCEPT !.got = got, !.ret = ret]
  <2>1. pc' = [pc EXCEPT ![t] = "copy"] /\ loc' = [loc EXCEPT ![t] = l]
    BY <1>1, <1>3, <1>8, <2>0
  <2>2. /\ IsLocals(l) /\ l.req = k.req /\ l.head = k.head /\ l.cand = k.cand
        /\ l.cur = k.cur
    BY <1>3, <1>4 DEF IsLocals
  <2> HIDE DEF l
  <2>3. Alone(t) /\ pc'[t] = "copy" /\ loc'[t] = l
    BY <2>1, Moved
  <2> QED
    BY <1>1, <1>3, <2>2, <2>3 DEF Onward
<1>9. CASE /\ loc' = [loc EXCEPT ![t].got = got, ![t].ret = 0,
                                 ![t].off = k.off + part, ![t].n = k.n - part,
                                 ![t].cur = c]
           /\ pc' = [pc EXCEPT ![t] = IF k.n - part > 0 /\ c # NULL THEN "copy" ELSE "count"]
  <2>1. PICK to, off, n : /\ to = IF k.n - part > 0 /\ c # NULL THEN "copy" ELSE "count"
                          /\ off = k.off + part /\ n = k.n - part
    OBVIOUS
  <2> DEFINE l == [k EXCEPT !.got = got, !.ret = 0, !.off = off, !.n = n, !.cur = c]
  <2>2. pc' = [pc EXCEPT ![t] = to] /\ loc' = [loc EXCEPT ![t] = l]
    BY <1>1, <1>9, <2>1
  <2>3. off \in Int /\ n \in Int
    BY <1>4, <1>5, <2>1
  <2>4. /\ IsLocals(l) /\ l.req = k.req /\ l.head = k.head /\ l.cand = k.cand
        /\ l.cur = c
    BY <1>3, <2>3 DEF IsLocals
  <2> HIDE DEF l
  <2>5. Alone(t) /\ pc'[t] = to /\ loc'[t] = l
    BY <2>2, Moved
  <2>6. to = "copy" => c \in Entries
    BY <1>3, <2>1 DEF MaybeEntry
  <2> QED
    BY <1>1, <1>3, <2>1, <2>4, <2>5, <2>6 DEF Onward
<1> QED
  BY <1>7, <1>8, <1>9

-----------------------------------------------------------------------------
(* Types are kept.                                                          *)

\* A thread inside has a request and, unless it commits, one with a length.
LEMMA Asked ==
    ASSUME Types, NEW t \in Threads, pc[t] \notin {"idle", "commit"}
    PROVE  /\ loc[t].req \in AllRequests /\ loc[t].req.kind # "fsync"
           /\ loc[t].req.off \in Positions /\ loc[t].req.off \in Nat
           /\ loc[t].req.len \in Nat \ {0} /\ End(loc[t].req) = loc[t].req.off + loc[t].req.len
           /\ End(loc[t].req) \in 1 .. MaxBlocks * LogSize
<1>1. loc[t].req \in AllRequests /\ loc[t].req.kind # "fsync"
  BY DEF Types, ThreadTypes
<1> QED
  BY <1>1, Request

\* The steps that leave a thread's variables alone.
Moving(t) ==
    \/ Enter(t) \/ ExpendUnlock(t) \/ Expend(t) \/ ExpendRelock(t) \/ CheckpointEntry(t)
    \/ TestSize(t) \/ SetSize(t) \/ UnlockEntry(t)

LEMMA MovingStep ==
    ASSUME Types, NEW t \in Threads, Moving(t)
    PROVE  /\ Onward(t) /\ loc'[t] = loc[t]
           /\ Enter(t) => pc[t] = "enter" /\ pc'[t] \in {"expend", "get"}
           /\ ExpendUnlock(t) => pc[t] = "expend" /\ pc'[t] = "grow"
           /\ Expend(t) => pc[t] = "grow" /\ pc'[t] = "relock"
           /\ ExpendRelock(t) => pc[t] = "relock" /\ pc'[t] = "get"
           /\ CheckpointEntry(t) => pc[t] = "log" /\ pc'[t] = "append"
           /\ TestSize(t) => pc[t] = "size" /\ pc'[t] \in {"setsize", "unlock"}
           /\ SetSize(t) => pc[t] = "setsize" /\ pc'[t] = "unlock"
           /\ UnlockEntry(t) => pc[t] = "unlock" /\ pc'[t] = "advance"
<1>1. CASE Enter(t)
  <2>1. PICK to \in {"expend", "get"} : pc' = [pc EXCEPT ![t] = to]
    BY <1>1 DEF Enter, Goto
  <2>2. pc[t] = "enter" /\ loc' = loc
    BY <1>1 DEF Enter
  <2> QED
    BY <2>1, <2>2, MovedOn DEF ExpendUnlock, Expend, ExpendRelock, CheckpointEntry,
       TestSize, SetSize, UnlockEntry
<1>2. CASE ExpendUnlock(t)
  <2>1. pc' = [pc EXCEPT ![t] = "grow"] /\ pc[t] = "expend" /\ loc' = loc
    BY <1>2 DEF ExpendUnlock, Goto
  <2> QED
    BY <2>1, MovedOn DEF Enter, Expend, ExpendRelock, CheckpointEntry, TestSize,
       SetSize, UnlockEntry
<1>3. CASE Expend(t)
  <2>1. pc' = [pc EXCEPT ![t] = "relock"] /\ pc[t] = "grow" /\ loc' = loc
    BY <1>3 DEF Expend, Goto
  <2> QED
    BY <2>1, MovedOn DEF Enter, ExpendUnlock, ExpendRelock, CheckpointEntry, TestSize,
       SetSize, UnlockEntry
<1>4. CASE ExpendRelock(t)
  <2>1. pc' = [pc EXCEPT ![t] = "get"] /\ pc[t] = "relock" /\ loc' = loc
    BY <1>4 DEF ExpendRelock, Goto
  <2> QED
    BY <2>1, MovedOn DEF Enter, ExpendUnlock, Expend, CheckpointEntry, TestSize,
       SetSize, UnlockEntry
<1>5. CASE CheckpointEntry(t)
  <2>1. pc' = [pc EXCEPT ![t] = "append"] /\ pc[t] = "log" /\ loc' = loc
    BY <1>5 DEF CheckpointEntry, Goto
  <2> QED
    BY <2>1, MovedOn DEF Enter, ExpendUnlock, Expend, ExpendRelock, TestSize,
       SetSize, UnlockEntry
<1>6. CASE TestSize(t)
  <2>1. PICK to \in {"setsize", "unlock"} : pc' = [pc EXCEPT ![t] = to]
    BY <1>6 DEF TestSize, Goto
  <2>2. pc[t] = "size" /\ loc' = loc
    BY <1>6 DEF TestSize
  <2> QED
    BY <2>1, <2>2, MovedOn DEF Enter, ExpendUnlock, Expend, ExpendRelock, CheckpointEntry,
       SetSize, UnlockEntry
<1>7. CASE SetSize(t)
  <2>1. pc' = [pc EXCEPT ![t] = "unlock"] /\ pc[t] = "setsize" /\ loc' = loc
    BY <1>7 DEF SetSize, Goto
  <2> QED
    BY <2>1, MovedOn DEF Enter, ExpendUnlock, Expend, ExpendRelock, CheckpointEntry,
       TestSize, UnlockEntry
<1>8. CASE UnlockEntry(t)
  <2>1. pc' = [pc EXCEPT ![t] = "advance"] /\ pc[t] = "unlock" /\ loc' = loc
    BY <1>8 DEF UnlockEntry, Goto
  <2> QED
    BY <2>1, MovedOn DEF Enter, ExpendUnlock, Expend, ExpendRelock, CheckpointEntry,
       TestSize, SetSize
<1> QED
  BY <1>1, <1>2, <1>3, <1>4, <1>5, <1>6, <1>7, <1>8 DEF Moving

LEMMA OtherTypes ==
    ASSUME Types, NEW t, Alone(t), NEW u \in Threads, u # t
    PROVE  ThreadTypes(u)'
BY DEF Types, ThreadTypes, Alone

LEMMA ThreadTypesStep ==
    ASSUME Types, NEW t \in Threads, Call(t) \/ ThreadStep(t)
    PROVE  Alone(t) /\ ThreadTypes(t)'
<1>0. ThreadTypes(t)
  BY DEF Types
<1> USE DEF ThreadPCs, Entering, Finding, Working
<1>1. CASE Call(t)
  <2>1. PICK r \in AllRequests :
           /\ Alone(t) /\ IsLocals(loc'[t]) /\ loc'[t].req = r /\ loc'[t].off = r.off
           /\ pc'[t] = IF r.kind = "fsync" THEN "commit" ELSE "enter"
    BY <1>1, CallStep
  <2> QED
    BY <2>1, Request DEF ThreadTypes
<1>2. CASE Moving(t)
  <2>1. Onward(t) /\ loc'[t] = loc[t]
    BY <1>2, MovingStep
  <2>2. \/ pc[t] \in {"enter", "relock"} /\ pc'[t] \in {"expend", "get"}
        \/ pc[t] = "expend" /\ pc'[t] = "grow"
        \/ pc[t] = "grow" /\ pc'[t] = "relock"
        \/ pc[t] = "log" /\ pc'[t] = "append"
        \/ pc[t] \in {"size", "setsize"} /\ pc'[t] \in {"setsize", "unlock"}
        \/ pc[t] = "unlock" /\ pc'[t] = "advance"
    BY <1>2, MovingStep DEF Moving
  <2> QED
    BY <1>0, <2>1, <2>2 DEF ThreadTypes, Onward
<1>3. CASE GetEntry(t)
  <2>1. /\ Onward(t) /\ SamePlace(t) /\ pc[t] = "get"
        /\ pc'[t] = "trylock" \/ (pc'[t] = "publish" /\ loc'[t].cand \in Entries)
    BY <1>3, GetEntryStep
  <2> QED
    BY <1>0, <2>1 DEF ThreadTypes, Onward, SamePlace
<1>4. CASE Publish(t)
  <2>1. Onward(t) /\ SamePlace(t) /\ pc[t] = "publish" /\ pc'[t] \in {"trylock", "reload"}
    BY <1>4, PublishStep
  <2> QED
    BY <1>0, <2>1 DEF ThreadTypes, Onward, SamePlace
<1>5. CASE Reload(t)
  <2>1. Onward(t) /\ SamePlace(t) /\ pc[t] = "reload" /\ pc'[t] = "trylock"
    BY <1>5, ReloadStep DEF Reload
  <2> QED
    BY <1>0, <2>1 DEF ThreadTypes, Onward, SamePlace
<1>6. CASE LockBusy(t)
  <2>1. Onward(t) /\ SamePlace(t) /\ pc[t] = "trylock" /\ pc'[t] = "get"
    BY <1>6, LockBusyStep DEF LockBusy
  <2> QED
    BY <1>0, <2>1 DEF ThreadTypes, Onward, SamePlace
<1>7. CASE LockEntry(t)
  <2> DEFINE more == Base(Index(t) + 1) < End(loc[t].req)
  <2>1. pc[t] = "trylock" /\ loc[t].off \in Positions
    BY <1>0, <1>7 DEF LockEntry, ThreadTypes
  <2>2. /\ Onward(t) /\ loc'[t].head \in Entries /\ loc'[t].cur \in Entries
        /\ loc'[t].n = loc[t].req.len
        /\ loc'[t].off = IF more THEN Base(Index(t) + 1) ELSE loc[t].req.off
        /\ pc'[t] = IF more THEN "get" ELSE IF IsWrite(t) THEN "log" ELSE "check"
    BY <1>7, LockEntryStep
  <2>3. /\ loc[t].req \in AllRequests /\ loc[t].req.kind # "fsync"
        /\ loc[t].req.len >= 0
    BY <2>1, Asked
  <2>4. more => Base(Index(t) + 1) \in Positions
    BY <2>1, <2>3, NextBlock DEF Index
  <2> QED
    BY <1>0, <2>2, <2>3, <2>4 DEF ThreadTypes, Onward
<1>8. CASE LogOne(t)
  <2>1. /\ Onward(t) /\ pc[t] \in {"log", "append"} /\ loc'[t].head = loc[t].head
        /\ loc'[t].cur = next[loc[t].cur] /\ loc'[t].n >= 0
        /\ pc'[t] = IF next[loc[t].cur] = NULL THEN "count" ELSE "log"
    BY <1>8, LogOneStep
  <2>2. next[loc[t].cur] \in MaybeEntry
    BY <2>1, CurIn
  <2> QED
    BY <1>0, <2>1, <2>2 DEF ThreadTypes, Onward, MaybeEntry
<1>9. CASE Count(t)
  <2>1. /\ Onward(t) /\ pc[t] = "count" /\ loc'[t].cur = loc[t].head
        /\ pc'[t] \in {"unlock", "store", "size"}
    BY <1>9, CountStep DEF Count
  <2> QED
    BY <1>0, <2>1 DEF ThreadTypes, Onward
<1>10. CASE StoreCell(t) \/ CheckSize(t)
  <2>1. /\ SameEntries(t)
        /\ \/ pc[t] = "store" /\ pc'[t] \in {"store", "size"}
           \/ pc[t] = "check" /\ pc'[t] \in {"copy", "count"}
    BY <1>10, StoreCellStep, CheckSizeStep
  <2> QED
    BY <1>0, <2>1 DEF ThreadTypes, SameEntries, Onward
<1>11. CASE CopyCell(t)
  <2>1. /\ Onward(t) /\ pc[t] = "copy" /\ loc'[t].head = loc[t].head
        /\ \/ pc'[t] = "copy" /\ loc'[t].cur = loc[t].cur
           \/ pc'[t] = "copy" /\ loc'[t].cur \in Entries
           \/ pc'[t] = "count"
    BY <1>11, CopyCellStep
  <2> QED
    BY <1>0, <2>1 DEF ThreadTypes, Onward
<1>12. CASE Advance(t)
  <2>1. /\ Onward(t) /\ pc[t] = "advance" /\ loc'[t].cur = next[loc[t].cur]
        /\ pc'[t] = IF next[loc[t].cur] = NULL THEN "leave" ELSE "unlock"
    BY <1>12, AdvanceStep DEF Advance
  <2>2. next[loc[t].cur] \in MaybeEntry
    BY <2>1, CurIn
  <2> QED
    BY <1>0, <2>1, <2>2 DEF ThreadTypes, Onward, MaybeEntry
<1>13. CASE Leave(t) \/ Commit(t)
  <2>1. Alone(t) /\ pc'[t] = "idle" /\ IsLocals(loc'[t])
    BY <1>13, ReturnStep
  <2> QED
    BY <2>1 DEF ThreadTypes
<1> QED
  BY <1>1, <1>2, <1>3, <1>4, <1>5, <1>6, <1>7, <1>8, <1>9, <1>10, <1>11, <1>12, <1>13
     DEF ThreadStep, Moving

\* The lock of an entry.
LEMMA LockValues ==
    ASSUME Types, NEW e \in Entries, NEW a \in Agents
    PROVE  /\ elock[e] \in Locks
           /\ elock[e] = Unlocked <=> elock[e].rd = 0 /\ elock[e].wr = NoThread
           /\ ReadLocked(e) \in [Entries -> Locks] /\ WriteLocked(e, a) \in [Entries -> Locks]
           /\ Released(e) \in [Entries -> Locks] /\ Unlocked \in Locks
           /\ ReadLocked(e)[e].rd = elock[e].rd + 1 /\ ReadLocked(e)[e].wr = elock[e].wr
           /\ WriteLocked(e, a)[e].rd = elock[e].rd /\ WriteLocked(e, a)[e].wr = a
           /\ Released(e)[e].wr = NoThread
           /\ elock[e].wr # NoThread => Released(e)[e].rd = elock[e].rd
           /\ elock[e].wr = NoThread => Released(e)[e].rd = elock[e].rd - 1
           /\ \A f \in Entries : f # e => /\ ReadLocked(e)[f] = elock[f]
                                          /\ WriteLocked(e, a)[f] = elock[f]
                                          /\ Released(e)[f] = elock[f]
<1>1. PICK k : k = elock[e]
  OBVIOUS
<1>2. elock \in [Entries -> Locks] /\ k \in Locks
  BY <1>1 DEF Types
<1> DEFINE kr == [k EXCEPT !.rd = @ + 1]
           kw == [k EXCEPT !.wr = a]
           ku == [k EXCEPT !.wr = NoThread]
           kd == [k EXCEPT !.rd = @ - 1]
<1>3. /\ kr \in Locks /\ kr.rd = k.rd + 1 /\ kr.wr = k.wr
      /\ kw \in Locks /\ kw.rd = k.rd /\ kw.wr = a
      /\ ku \in Locks /\ ku.rd = k.rd /\ ku.wr = NoThread
      /\ kd \in Locks /\ kd.rd = k.rd - 1 /\ kd.wr = k.wr
  BY <1>2 DEF Locks
<1>4. Unlocked \in Locks /\ Unlocked.rd = 0 /\ Unlocked.wr = NoThread
  BY DEF Locks, Unlocked
<1>5. k = Unlocked <=> k.rd = 0 /\ k.wr = NoThread
  BY <1>2, <1>4 DEF Locks, Unlocked
<1>6. /\ ReadLocked(e) = [elock EXCEPT ![e] = kr] /\ WriteLocked(e, a) = [elock EXCEPT ![e] = kw]
      /\ Released(e) = [elock EXCEPT ![e] = IF k.wr # NoThread THEN ku ELSE kd]
  BY <1>1 DEF ReadLocked, WriteLocked, Released
<1> HIDE DEF kr, kw, ku, kd
<1> QED
  BY <1>1, <1>2, <1>3, <1>4, <1>5, <1>6

\* An entry after free_idx_entry, alloc_idx_entry, checkpoint_entry and a write.
LEMMA FreeEntryIs == IsEntry(FreeEntry) /\ FreeEntry.epoch = 0
BY DEF IsEntry, FreeEntry

LEMMA EntryEpoch ==
    ASSUME NEW x, IsEntry(x), NEW ep \in Nat
    PROVE  IsEntry([x EXCEPT !.epoch = ep]) /\ [x EXCEPT !.epoch = ep].epoch = ep
BY DEF IsEntry

LEMMA LogWriteIs ==
    ASSUME NEW x, IsEntry(x), NEW lo, NEW n, NEW data, NEW blk, NEW p, NEW d,
           NEW y, y = LogWrite(x, lo, n, data, blk, p)
    PROVE  /\ IsEntry(y) /\ y.epoch = x.epoch
           /\ IsEntry([y EXCEPT !.dst = d]) /\ [y EXCEPT !.dst = d].epoch = x.epoch
<1>1. PICK a, b, c, g : \/ y = [x EXCEPT !.offset = a, !.len = b, !.log = c]
                        \/ y = [x EXCEPT !.offset = a, !.len = b, !.policy = p, !.log = g]
  BY DEF LogWrite
<1>2. IsEntry(y) /\ y.epoch = x.epoch
  <2>1. CASE y = [x EXCEPT !.offset = a, !.len = b, !.log = c]
    BY <2>1 DEF IsEntry
  <2>2. CASE y = [x EXCEPT !.offset = a, !.len = b, !.policy = p, !.log = g]
    BY <2>2 DEF IsEntry
  <2> QED
    BY <1>1, <2>1, <2>2
<1>3. IsEntry([y EXCEPT !.dst = d]) /\ [y EXCEPT !.dst = d].epoch = y.epoch
  BY <1>2 DEF IsEntry
<1> QED
  BY <1>2, <1>3

LEMMA EntSet ==
    ASSUME Types, NEW e \in Entries, NEW x, IsEntry(x), ent' = [ent EXCEPT ![e] = x]
    PROVE  /\ ent' = [f \in Entries |-> ent'[f]] /\ \A f \in Entries : IsEntry(ent'[f])
           /\ ent'[e] = x /\ \A f \in Entries : f # e => ent'[f] = ent[f]
BY DEF Types

Epochs == ent' = [f \in Entries |-> ent'[f]] /\ \A f \in Entries : IsEntry(ent'[f])

\* The effects on the entries.
LEMMA EpochNat == ASSUME Types PROVE Epoch20 \in Nat /\ (NoWrap => Epoch20 = epoch)
<1>1. epoch \in Nat /\ EpochMod \in Nat \ {0}
  BY Constants DEF Types
<1> QED
  BY <1>1, SmallModulo DEF Epoch20, NoWrap

LEMMA AllocEnt ==
    ASSUME Types, NEW e \in Entries, alloc_idx_entry(e)
    PROVE  /\ Epochs /\ ent'[e].epoch = Epoch20 /\ \A f \in Entries : f # e => ent'[f] = ent[f]
<1>1. PICK x, ep : x = ent[e] /\ ep = Epoch20
  OBVIOUS
<1>2. IsEntry(x) /\ ep \in Nat
  BY <1>1, EpochNat DEF Types
<1> DEFINE y == [x EXCEPT !.epoch = ep]
<1>3. IsEntry(y) /\ y.epoch = ep
  BY <1>2, EntryEpoch
<1>4. ent' = [ent EXCEPT ![e] = y]
  BY <1>1 DEF alloc_idx_entry
<1> HIDE DEF y
<1> QED
  BY <1>1, <1>3, <1>4, EntSet DEF Epochs

LEMMA FreeEnt ==
    ASSUME Types, NEW e \in Entries, free_idx_entry(e)
    PROVE  Epochs /\ ent'[e].epoch = 0 /\ \A f \in Entries : f # e => ent'[f] = ent[f]
BY FreeEntryIs, EntSet DEF Epochs, free_idx_entry

LEMMA CheckpointEnt ==
    ASSUME Types, NEW t \in Threads, CheckpointEntry(t)
    PROVE  /\ Epochs /\ ent'[loc[t].cur].epoch = Epoch20 /\ loc[t].cur \in Entries
           /\ \A f \in Entries : f # loc[t].cur => ent'[f] = ent[f]
<1>1. PICK e, x, ep, p : e = loc[t].cur /\ x = ent[e] /\ ep = Epoch20 /\ p = policy
  OBVIOUS
<1>2. e \in Entries /\ IsEntry(x) /\ ep \in Nat
  BY <1>1, CurIn, EpochNat DEF CheckpointEntry, Working
<1>3. PICK z : z = 0
  OBVIOUS
<1> DEFINE y == [x EXCEPT !.epoch = ep, !.policy = p, !.len = z, !.offset = z]
<1>4. IsEntry(y) /\ y.epoch = ep
  BY <1>2 DEF IsEntry
<1>5. ent' = [ent EXCEPT ![e] = y]
  BY <1>1, <1>3 DEF CheckpointEntry
<1> HIDE DEF y
<1> QED
  BY <1>1, <1>2, <1>4, <1>5, EntSet DEF Epochs

LEMMA LogOneEnt ==
    ASSUME Types, NEW t \in Threads, LogOne(t)
    PROVE  Epochs /\ \A f \in Entries : ent'[f].epoch = ent[f].epoch
<1>1. PICK e, x : e = loc[t].cur /\ x = ent[e]
  OBVIOUS
<1>2. e \in Entries /\ IsEntry(x)
  <2>1. pc[t] \in Working
    BY DEF LogOne, Working
  <2> QED
    BY <1>1, <2>1, CurIn
<1>3. \E lo, n, data, blk, p, d :
         LET y == LogWrite(x, lo, n, data, blk, p)
         IN  ent' = [ent EXCEPT ![e] = y] \/ ent' = [ent EXCEPT ![e] = [y EXCEPT !.dst = d]]
  BY <1>1 DEF LogOne
<1>4. \E z : IsEntry(z) /\ z.epoch = x.epoch /\ ent' = [ent EXCEPT ![e] = z]
  <2>1. PICK lo, n, data, blk, p, d :
           LET y == LogWrite(x, lo, n, data, blk, p)
           IN  ent' = [ent EXCEPT ![e] = y] \/ ent' = [ent EXCEPT ![e] = [y EXCEPT !.dst = d]]
    BY <1>3
  <2>2. PICK y : y = LogWrite(x, lo, n, data, blk, p)
    OBVIOUS
  <2> DEFINE w == [y EXCEPT !.dst = d]
  <2>3. ent' = [ent EXCEPT ![e] = y] \/ ent' = [ent EXCEPT ![e] = w]
    BY <2>1, <2>2
  <2>4. IsEntry(y) /\ y.epoch = x.epoch /\ IsEntry(w) /\ w.epoch = x.epoch
    BY <1>2, <2>2, LogWriteIs
  <2> HIDE DEF w
  <2> QED
    BY <2>3, <2>4
<1> QED
  BY <1>1, <1>2, <1>4, EntSet DEF Epochs

\* expend_mmio: the mapping grows and covers the request.
LEMMA ExpendedIs ==
    ASSUME Types, NEW r \in AllRequests, r.kind # "fsync"
    PROVE  Expended(r) \in Nat /\ Expended(r) >= End(r) /\ Expended(r) >= mapped
<1> DEFINE first == IF mapped >= BasicMmap THEN 2 * mapped ELSE BasicMmap
           sizes == {mapped} \cup {first * 2^k : k \in 0 .. End(r)}
           S == {m \in sizes : m >= End(r)}
<1>1. /\ End(r) \in Nat /\ End(r) <= MaxBlocks * LogSize /\ MaxBlocks * LogSize \in Nat
      /\ mapped \in Nat /\ BasicMmap \in Nat \ {0}
  BY Request, Constants DEF Types
<1>2. first \in Nat /\ first >= 1 /\ first >= mapped
  BY <1>1
<1> HIDE DEF first
<1>3. ASSUME NEW k \in 0 .. End(r)
      PROVE  first * 2^k \in Nat /\ first * 2^k >= mapped /\ first * 2^k >= k
  <2>1. PICK p : p = 2^k
    OBVIOUS
  <2>2. p \in Nat /\ p > k /\ k \in Nat
    BY <1>1, <2>1, PowersOfTwo
  <2>3. first * p \in Nat /\ first * p >= first /\ first * p >= p
    <3>1. p >= 1
      BY <2>2
    <3>2. 1 * p <= first * p /\ 1 * first <= p * first /\ first * p \in Int
      BY <1>2, <2>2, <3>1, Product
    <3> QED
      BY <1>2, <2>2, <3>2
  <2> QED
    BY <1>1, <1>2, <2>1, <2>2, <2>3
<1>4. sizes \in SUBSET Nat /\ \A m \in sizes : m >= mapped
  BY <1>1, <1>3
<1>5. first * 2^End(r) \in S
  BY <1>1, <1>3
<1>6. S \in SUBSET Nat /\ S # {}
  BY <1>4, <1>5
<1>7. PICK m \in S : \A l \in S : m <= l
  BY <1>6, Least
<1>8. m \in sizes /\ m >= End(r) /\ \A l \in sizes : l >= End(r) => m <= l
  BY <1>7
<1>9. Expended(r) = CHOOSE n \in sizes : /\ n >= End(r)
                                          /\ \A l \in sizes : l >= End(r) => n <= l
  BY DEF Expended, first
<1> HIDE DEF sizes
<1>10. Expended(r) \in sizes /\ Expended(r) >= End(r)
  BY <1>8, <1>9
<1> QED
  BY <1>4, <1>10

LEMMA AppliedIs ==
    ASSUME Types, NEW e
    PROVE  Applied(e) = [p \in Positions |-> Applied(e)[p]]
<1>1. CASE ent[e].policy = "REDO" /\ ent[e].dst # NULL /\ ent[e].dst.start = start
  <2>1. Applied(e) = [p \in Positions |-> IF Logged(e, p) THEN LoggedCell(e, p) ELSE file[p]]
    BY <1>1 DEF Applied
  <2> QED
    BY <2>1
<1>2. CASE ~(ent[e].policy = "REDO" /\ ent[e].dst # NULL /\ ent[e].dst.start = start)
  BY <1>2 DEF Applied, Types
<1> QED
  BY <1>1, <1>2

\* Who has mmio->rwlock follows from where everybody is.
Inside == {a \in Agents : pc[a] \notin Outside}

LEMMA ReadersAfter ==
    ASSUME Types, NEW a \in Agents,
           \A b \in Agents : b # a => pc'[b] = pc[b],
           \/ readers' = readers \cup {a} /\ pc'[a] \notin Outside
           \/ readers' = readers \ {a} /\ pc'[a] \in Outside
           \/ readers' = readers /\ (pc[a] \in Outside <=> pc'[a] \in Outside)
    PROVE  readers' = Inside'
BY DEF Types, Inside

LEMMA AloneAgents ==
    ASSUME NEW t \in Threads, Alone(t)
    PROVE  t \in Agents /\ \A b \in Agents : b # t => pc'[b] = pc[b]
BY DEF Alone, Agents

\* The locations a step of a thread writes.
LEMMA ReadersStep ==
    ASSUME Types, NEW t \in Threads, Call(t) \/ ThreadStep(t)
    PROVE  readers' = Inside'
<1>1. Alone(t) /\ t \in Agents /\ \A b \in Agents : b # t => pc'[b] = pc[b]
  BY ThreadTypesStep, AloneAgents
<1> USE DEF Outside
<1>2. CASE Call(t)
  <2>1. pc'[t] \in {"commit", "enter"} /\ pc[t] = "idle" /\ readers' = readers
    BY <1>2, CallStep DEF Call
  <2> QED
    BY <1>1, <2>1, ReadersAfter
<1>3. CASE Enter(t) \/ ExpendRelock(t)
  <2>1. pc'[t] \in {"expend", "get"} /\ readers' = readers \cup {t}
    BY <1>3, MovingStep DEF Enter, ExpendRelock, Moving
  <2> QED
    BY <1>1, <2>1, ReadersAfter
<1>4. CASE ExpendUnlock(t)
  <2>1. pc'[t] = "grow" /\ readers' = readers \ {t}
    BY <1>4, MovingStep DEF ExpendUnlock, Moving
  <2> QED
    BY <1>1, <2>1, ReadersAfter
<1>5. CASE Expend(t)
  <2>1. pc[t] = "grow" /\ pc'[t] = "relock" /\ readers' = readers
    BY <1>5, MovingStep DEF Expend, Moving
  <2> QED
    BY <1>1, <2>1, ReadersAfter
<1>6. CASE CheckpointEntry(t) \/ TestSize(t) \/ SetSize(t) \/ UnlockEntry(t)
  <2>1. /\ pc[t] \in {"log", "size", "setsize", "unlock"} /\ readers' = readers
        /\ pc'[t] \in {"append", "setsize", "unlock", "advance"}
    BY <1>6, MovingStep DEF CheckpointEntry, TestSize, SetSize, UnlockEntry, Moving
  <2> QED
    BY <1>1, <2>1, ReadersAfter
<1>7. CASE GetEntry(t) \/ Publish(t) \/ Reload(t) \/ LockBusy(t)
  <2>1. pc[t] \in Finding /\ pc'[t] \in Finding
    BY <1>7, GetEntryStep, PublishStep, ReloadStep, LockBusyStep
       DEF Finding, Reload, LockBusy
  <2>2. readers' = readers
    BY <1>7 DEF GetEntry, Publish, Reload, LockBusy
  <2> QED
    BY <1>1, <2>1, <2>2, ReadersAfter DEF Finding
<1>8. CASE LockEntry(t)
  <2>1. pc[t] = "trylock" /\ readers' = readers /\ pc'[t] \in {"get", "log", "check"}
    BY <1>8, LockEntryStep DEF LockEntry
  <2> QED
    BY <1>1, <2>1, ReadersAfter
<1>9. CASE LogOne(t)
  <2>1. pc[t] \in {"log", "append"} /\ readers' = readers /\ pc'[t] \in {"count", "log"}
    BY <1>9, LogOneStep DEF LogOne
  <2> QED
    BY <1>1, <2>1, ReadersAfter
<1>10. CASE Count(t)
  <2>1. pc[t] = "count" /\ readers' = readers /\ pc'[t] \in {"unlock", "store", "size"}
    BY <1>10, CountStep DEF Count
  <2> QED
    BY <1>1, <2>1, ReadersAfter
<1>11. CASE StoreCell(t) \/ CheckSize(t) \/ CopyCell(t)
  <2>1. pc[t] \in {"store", "check", "copy"} /\ pc'[t] \in {"store", "size", "copy", "count"}
    BY <1>11, StoreCellStep, CheckSizeStep, CopyCellStep
  <2>2. readers' = readers
    BY <1>11 DEF StoreCell, CheckSize, CopyCell
  <2> QED
    BY <1>1, <2>1, <2>2, ReadersAfter
<1>12. CASE Advance(t)
  <2>1. pc[t] = "advance" /\ readers' = readers /\ pc'[t] \in {"unlock", "leave"}
    BY <1>12, AdvanceStep DEF Advance
  <2> QED
    BY <1>1, <2>1, ReadersAfter
<1>13. CASE Leave(t)
  <2>1. pc'[t] = "idle" /\ readers' = readers \ {t}
    BY <1>13, ReturnStep DEF Leave
  <2> QED
    BY <1>1, <2>1, ReadersAfter
<1>14. CASE Commit(t)
  <2>1. pc'[t] = "idle" /\ pc[t] = "commit" /\ readers' = readers
    BY <1>14, ReturnStep DEF Commit
  <2> QED
    BY <1>1, <2>1, ReadersAfter
<1> QED
  BY <1>2, <1>3, <1>4, <1>5, <1>6, <1>7, <1>8, <1>9, <1>10, <1>11, <1>12, <1>13, <1>14
     DEF ThreadStep

\* The checkpoint thread.
CkType == [epoch : Nat, i : Blocks, entry : MaybeEntry]
CkptAlone == /\ pc' = [a \in Agents |-> pc'[a]] /\ pc'[Ckpt] \in CkptPCs
             /\ \A t \in Threads : pc'[t] = pc[t]
             /\ ck' \in CkType /\ readers' = Inside'
             /\ pc'[Ckpt] \in {"lock", "recheck", "free"} => ck'.entry \in Entries

LEMMA CkptMoved ==
    ASSUME Types, NEW to \in CkptPCs, pc' = [pc EXCEPT ![Ckpt] = to], ck' \in CkType,
           to \in {"lock", "recheck", "free"} => ck'.entry \in Entries,
           \/ readers' = readers \cup {Ckpt} /\ to \notin Outside
           \/ readers' = readers \ {Ckpt} /\ to \in Outside
           \/ readers' = readers /\ (pc[Ckpt] \in Outside <=> to \in Outside)
    PROVE  CkptAlone /\ pc'[Ckpt] = to
<1>1. /\ pc' = [a \in Agents |-> pc'[a]] /\ pc'[Ckpt] = to /\ \A t \in Threads : pc'[t] = pc[t]
      /\ Ckpt \in Agents /\ \A b \in Agents : b # Ckpt => pc'[b] = pc[b]
  BY Constants DEF Types, Agents
<1>2. readers' = Inside'
  BY <1>1, ReadersAfter
<1> QED
  BY <1>1, <1>2 DEF CkptAlone

LEMMA AsleepIs == Asleep \in CkType
BY Constants DEF Asleep, CkType, Blocks, MaybeEntry

LEMMA NextIndexStep ==
    ASSUME Types, NextIndex, pc[Ckpt] \in {"scan", "lock", "recheck", "free"}
    PROVE  /\ CkptAlone /\ pc'[Ckpt] \in {"scan", "idle"}
           /\ pc'[Ckpt] = "scan" => ck'.epoch = ck.epoch
<1>1. ck \in CkType
  BY DEF Types, CkType
<1>2. CASE ck.i + 1 \in Blocks
  <2>1. PICK k, j, z : k = ck /\ j = ck.i + 1 /\ z = NULL
    OBVIOUS
  <2> DEFINE l == [k EXCEPT !.i = j, !.entry = z]
  <2>2. k \in CkType /\ j \in Blocks /\ z \in MaybeEntry
    BY <1>1, <1>2, <2>1 DEF MaybeEntry
  <2>3. l \in CkType /\ l.epoch = k.epoch
    BY <2>2 DEF CkType
  <2>4. ck' = l /\ pc' = [pc EXCEPT ![Ckpt] = "scan"] /\ readers' = readers
    BY <1>2, <2>1 DEF NextIndex, Goto
  <2> HIDE DEF l
  <2> QED
    BY <2>1, <2>3, <2>4, CkptMoved DEF CkptPCs, Outside
<1>3. CASE ck.i + 1 \notin Blocks
  <2>1. ck' = Asleep /\ pc' = [pc EXCEPT ![Ckpt] = "idle"] /\ readers' = readers \ {Ckpt}
    BY <1>3 DEF NextIndex, Goto
  <2> QED
    BY <2>1, AsleepIs, CkptMoved DEF CkptPCs, Outside
<1> QED
  BY <1>2, <1>3

LEMMA CkptStepIs ==
    ASSUME Types, CkptStep
    PROVE  CkptAlone /\ loc' = loc
<1>0. /\ ck \in CkType /\ epoch \in Nat
      /\ pc[Ckpt] \in {"lock", "recheck", "free"} => ck.entry \in Entries
  BY DEF Types, CkType
<1> USE DEF CkptPCs, Outside
<1>1. CASE CkptWake
  <2>1. PICK k : k = Asleep
    OBVIOUS
  <2>2. [k EXCEPT !.epoch = epoch] \in CkType
    BY <1>0, <2>1, AsleepIs DEF CkType
  <2>3. ck' \in CkType
    BY <1>1, <2>1, <2>2 DEF CkptWake
  <2>4. pc[Ckpt] = "idle" /\ pc' = [pc EXCEPT ![Ckpt] = "try"] /\ readers' = readers /\ loc' = loc
    BY <1>1 DEF CkptWake, Goto
  <2> QED
    BY <2>3, <2>4, CkptMoved
<1>2. CASE CkptTry
  <2>1. /\ loc' = loc
        /\ \/ /\ readers' = readers \cup {Ckpt} /\ ck' = ck
              /\ pc' = [pc EXCEPT ![Ckpt] = "scan"]
           \/ /\ readers' = readers /\ ck' = Asleep /\ pc[Ckpt] = "try"
              /\ pc' = [pc EXCEPT ![Ckpt] = "idle"]
    BY <1>2 DEF CkptTry, Goto
  <2> QED
    BY <1>0, <2>1, AsleepIs, CkptMoved
<1>3. CASE CkptScan
  <2>1. pc[Ckpt] = "scan" /\ loc' = loc
    BY <1>3 DEF CkptScan
  <2>2. CASE NextIndex
    BY <2>1, <2>2, NextIndexStep
  <2>3. CASE ~NextIndex
    <3>1. /\ ck' = [ck EXCEPT !.entry = entries[ck.i]] /\ readers' = readers
          /\ pc' = [pc EXCEPT ![Ckpt] = "lock"]
      BY <1>3, <2>3 DEF CkptScan, Goto
    <3>2. PICK k, e : k = ck /\ e = entries[ck.i]
      OBVIOUS
    <3>3. k \in CkType /\ e \in MaybeEntry /\ e # NULL
      BY <1>0, <1>3, <2>3, <3>2 DEF Types, CkType, CkptScan, Stale
    <3>4. [k EXCEPT !.entry = e] \in CkType /\ [k EXCEPT !.entry = e].entry = e
      BY <3>3 DEF CkType
    <3>5. ck' \in CkType /\ ck'.entry \in Entries
      BY <3>1, <3>2, <3>3, <3>4 DEF MaybeEntry
    <3> QED
      BY <2>1, <3>1, <3>5, CkptMoved
  <2> QED
    BY <2>2, <2>3
<1>4. CASE CkptLock
  <2>1. pc[Ckpt] = "lock" /\ loc' = loc
    BY <1>4 DEF CkptLock
  <2>2. CASE NextIndex
    BY <2>1, <2>2, NextIndexStep
  <2>3. CASE ~NextIndex
    <3>1. ck' = ck /\ readers' = readers /\ pc' = [pc EXCEPT ![Ckpt] = "recheck"]
      BY <1>4, <2>3 DEF CkptLock, Goto
    <3> QED
      BY <1>0, <2>1, <3>1, CkptMoved
  <2> QED
    BY <2>2, <2>3
<1>5. CASE CkptApply
  <2>1. pc[Ckpt] = "recheck" /\ loc' = loc
    BY <1>5 DEF CkptApply
  <2>2. CASE NextIndex
    BY <2>1, <2>2, NextIndexStep
  <2>3. CASE ~NextIndex
    <3>1. ck' = ck /\ readers' = readers /\ pc' = [pc EXCEPT ![Ckpt] = "free"]
      BY <1>5, <2>3 DEF CkptApply, Goto
    <3> QED
      BY <1>0, <2>1, <3>1, CkptMoved
  <2> QED
    BY <2>2, <2>3
<1>6. CASE CkptFree
  <2>1. pc[Ckpt] = "free" /\ loc' = loc /\ NextIndex
    BY <1>6 DEF CkptFree
  <2> QED
    BY <2>1, NextIndexStep
<1> QED
  BY <1>1, <1>2, <1>3, <1>4, <1>5, <1>6 DEF CkptStep

\* The file, its mapping and the tables.
MemTypes ==
    /\ file = [p \in Positions |-> file[p]]
    /\ mapped \in Nat /\ start \in Nat /\ fsize \in Nat /\ epoch \in Nat
    /\ policy \in Policies
    /\ entries \in [Blocks -> MaybeEntry] /\ next \in [Entries -> MaybeEntry]
    /\ elock \in [Entries -> Locks]
    /\ ent = [e \in Entries |-> ent[e]] /\ \A e \in Entries : IsEntry(ent[e])
    /\ pool \subseteq Entries

LEMMA MemSame ==
    ASSUME Types, UNCHANGED <<file, mapping, fsize, epoch, policy, tables>>
    PROVE  MemTypes'
<1>1. MemTypes
  BY DEF Types, MemTypes
<1> QED
  BY <1>1 DEF MemTypes, mapping, tables

LEMMA MemStep ==
    ASSUME Types, NEW t \in Threads, Call(t) \/ ThreadStep(t)
    PROVE  MemTypes'
<1>0. MemTypes /\ Epoch20 \in Nat
  BY EpochNat DEF Types, MemTypes
<1> USE DEF mapping, tables, counts
<1>1. CASE \/ Call(t) \/ Enter(t) \/ ExpendUnlock(t) \/ ExpendRelock(t) \/ Reload(t)
           \/ LockBusy(t)
  <2>1. UNCHANGED <<file, mapping, fsize, epoch, policy, tables>>
    BY <1>1 DEF Call, Enter, ExpendUnlock, ExpendRelock, Reload, LockBusy
  <2> QED
    BY <2>1, MemSame
<1>2. CASE \/ Count(t) \/ TestSize(t) \/ CheckSize(t) \/ CopyCell(t) \/ Advance(t) \/ Leave(t)
  <2>1. UNCHANGED <<file, mapping, fsize, epoch, policy, tables>>
    BY <1>2 DEF Count, TestSize, CheckSize, CopyCell, Advance, Leave
  <2> QED
    BY <2>1, MemSame
<1>3. CASE Expend(t)
  <2>1. /\ pc[t] = "grow" /\ UNCHANGED <<file, fsize, epoch, policy, tables>>
        /\ mapped' = Expended(loc[t].req) /\ start' \in {start, start + 1}
    BY <1>3 DEF Expend
  <2>2. mapped' \in Nat
    BY <2>1, Asked, ExpendedIs
  <2> QED
    BY <1>0, <2>1, <2>2 DEF MemTypes
<1>4. CASE GetEntry(t)
  <2>1. UNCHANGED <<file, mapping, fsize, epoch, policy, entries>>
    BY <1>4 DEF GetEntry
  <2>2. CASE UNCHANGED tables
    BY <2>1, <2>2, MemSame
  <2>3. CASE ~UNCHANGED tables
    <3>1. PICK e \in Entries : alloc_idx_entry(e)
      BY <1>4, <2>3, GetEntryStep
    <3>2. Epochs
      BY <3>1, AllocEnt
    <3>3. /\ next' \in [Entries -> MaybeEntry] /\ elock' \in [Entries -> Locks]
          /\ pool' \subseteq Entries
      BY <1>0, <3>1 DEF alloc_idx_entry, MemTypes, MaybeEntry, Locks, Unlocked
    <3> QED
      BY <1>0, <2>1, <3>2, <3>3 DEF MemTypes, Epochs
  <2> QED
    BY <2>2, <2>3
<1>5. CASE Publish(t)
  <2>1. UNCHANGED <<file, mapping, fsize, epoch, policy, next, elock>>
    BY <1>5 DEF Publish
  <2>2. loc[t].cand \in Entries /\ Index(t) \in Blocks
    BY <1>5, PublishStep
  <2>3. CASE ent' = ent /\ pool' = pool /\ entries' = [entries EXCEPT ![Index(t)] = loc[t].cand]
    BY <1>0, <2>1, <2>2, <2>3 DEF MemTypes, MaybeEntry
  <2>4. CASE entries' = entries /\ free_idx_entry(loc[t].cand)
    <3>1. Epochs /\ pool' \subseteq Entries
      BY <1>0, <2>2, <2>4, FreeEnt DEF free_idx_entry, MemTypes
    <3> QED
      BY <1>0, <2>1, <2>4, <3>1 DEF MemTypes, Epochs
  <2> QED
    BY <1>5, <2>3, <2>4, PublishStep
<1>6. CASE LockEntry(t)
  <2>1. UNCHANGED <<file, mapping, fsize, epoch, policy, entries, ent, pool>>
    BY <1>6 DEF LockEntry
  <2>2. PICK e \in Entries : e = loc[t].cand
    BY <1>6, LockEntryStep
  <2>3. /\ next' = [next EXCEPT ![e] = loc[t].head]
        /\ elock' = ReadLocked(e) \/ elock' = WriteLocked(e, t)
    BY <1>6, <2>2 DEF LockEntry
  <2>4. elock' \in [Entries -> Locks]
    BY <2>3, LockValues DEF Agents
  <2>5. next' \in [Entries -> MaybeEntry]
    <3>1. loc[t].head \in MaybeEntry
      BY DEF Types, ThreadTypes, IsLocals
    <3> QED
      BY <1>0, <2>3, <3>1 DEF MemTypes
  <2> QED
    BY <1>0, <2>1, <2>4, <2>5 DEF MemTypes
<1>7. CASE CheckpointEntry(t)
  <2>1. /\ UNCHANGED <<mapping, fsize, epoch, policy, entries, next, elock, pool>>
        /\ file' = Applied(loc[t].cur)
    BY <1>7 DEF CheckpointEntry
  <2>2. Epochs /\ file' = [p \in Positions |-> file'[p]]
    BY <1>7, <2>1, CheckpointEnt, AppliedIs
  <2> QED
    BY <1>0, <2>1, <2>2 DEF MemTypes, Epochs
<1>8. CASE LogOne(t)
  <2>1. UNCHANGED <<file, mapping, fsize, epoch, policy, entries, next, elock, pool>>
    BY <1>8 DEF LogOne
  <2> QED
    BY <1>0, <1>8, <2>1, LogOneEnt DEF MemTypes, Epochs
<1>9. CASE StoreCell(t)
  <2>1. UNCHANGED <<mapping, fsize, epoch, policy, tables>>
    BY <1>9 DEF StoreCell
  <2>2. PICK p, v : file' = [file EXCEPT ![p] = v]
    BY <1>9 DEF StoreCell
  <2>3. file' = [q \in Positions |-> file'[q]]
    BY <1>0, <2>2 DEF MemTypes
  <2> QED
    BY <1>0, <2>1, <2>3 DEF MemTypes
<1>10. CASE SetSize(t)
  <2>1. /\ UNCHANGED <<file, mapping, epoch, policy, tables>> /\ pc[t] = "setsize"
        /\ fsize' = loc[t].req.off + loc[t].ret
    BY <1>10 DEF SetSize, NewSize
  <2>2. loc[t].ret \in Nat /\ loc[t].req.off \in Nat
    BY <2>1, Asked DEF Types, ThreadTypes, IsLocals
  <2> QED
    BY <1>0, <2>1, <2>2 DEF MemTypes
<1>11. CASE UnlockEntry(t)
  <2>1. /\ UNCHANGED <<file, mapping, fsize, epoch, policy, entries, ent, next, pool>>
        /\ elock' = Released(loc[t].cur) /\ pc[t] \in Working
    BY <1>11 DEF UnlockEntry, Working
  <2>2. elock' \in [Entries -> Locks]
    BY <2>1, CurIn, LockValues DEF Agents
  <2> QED
    BY <1>0, <2>1, <2>2 DEF MemTypes
<1>12. CASE Commit(t)
  <2>1. UNCHANGED <<file, mapping, fsize, policy, tables>> /\ epoch' = epoch + 1
    BY <1>12 DEF Commit
  <2> QED
    BY <1>0, <2>1 DEF MemTypes
<1> QED
  BY <1>1, <1>2, <1>3, <1>4, <1>5, <1>6, <1>7, <1>8, <1>9, <1>10, <1>11, <1>12 DEF ThreadStep

LEMMA CkptMem ==
    ASSUME Types, CkptStep
    PROVE  MemTypes'
<1>0. MemTypes /\ ck.i \in Blocks /\ (pc[Ckpt] \in {"lock", "recheck", "free"} => ck.entry \in Entries)
  BY DEF Types, MemTypes
<1> USE DEF mapping, tables, counts
<1>1. CASE CkptWake \/ CkptTry \/ CkptScan
  BY <1>1, MemSame DEF CkptWake, CkptTry, CkptScan
<1>2. CASE CkptLock
  <2>1. /\ UNCHANGED <<file, mapping, fsize, epoch, policy, entries, ent, next, pool>>
        /\ elock' = elock \/ elock' = WriteLocked(ck.entry, Ckpt)
        /\ ck.entry \in Entries
    BY <1>0, <1>2 DEF CkptLock
  <2>2. elock' \in [Entries -> Locks]
    <3>1. Ckpt \in Agents
      BY DEF Agents
    <3>2. WriteLocked(ck.entry, Ckpt) \in [Entries -> Locks] /\ elock \in [Entries -> Locks]
      BY <1>0, <2>1, <3>1, LockValues DEF MemTypes
    <3> QED
      BY <2>1, <3>2
  <2> QED
    BY <1>0, <2>1, <2>2 DEF MemTypes
<1>3. CASE CkptApply
  <2>1. /\ UNCHANGED <<mapping, fsize, epoch, policy, entries, ent, next, pool>>
        /\ elock' = elock \/ elock' = Released(ck.entry)
        /\ file' = file \/ file' = Applied(ck.entry)
        /\ ck.entry \in Entries
    BY <1>0, <1>3 DEF CkptApply
  <2>2. elock' \in [Entries -> Locks]
    <3>1. Released(ck.entry) \in [Entries -> Locks] /\ elock \in [Entries -> Locks]
      BY <1>0, <2>1, LockValues DEF Agents, MemTypes
    <3> QED
      BY <2>1, <3>1
  <2>3. file' = [p \in Positions |-> file'[p]]
    BY <1>0, <2>1, AppliedIs DEF MemTypes
  <2> QED
    BY <1>0, <2>1, <2>2, <2>3 DEF MemTypes
<1>4. CASE CkptFree
  <2>1. /\ UNCHANGED <<file, mapping, fsize, epoch, policy, next, elock>>
        /\ entries' = [entries EXCEPT ![ck.i] = NULL]
        /\ free_idx_entry(ck.entry) /\ ck.entry \in Entries
    BY <1>0, <1>4 DEF CkptFree, OutOfTable
  <2>2. Epochs /\ pool' \subseteq Entries
    BY <1>0, <2>1, FreeEnt DEF free_idx_entry, MemTypes
  <2> QED
    BY <1>0, <2>1, <2>2 DEF MemTypes, Epochs, MaybeEntry
<1> QED
  BY <1>1, <1>2, <1>3, <1>4 DEF CkptStep

LEMMA TypesInit == Init => Types
<1> SUFFICES ASSUME Init PROVE Types
  OBVIOUS
<1> USE DEF Init
<1>1. /\ pc = [a \in Agents |-> pc[a]] /\ \A a \in Agents : pc[a] = "idle"
      /\ loc = [t \in Threads |-> loc[t]] /\ \A t \in Threads : loc[t] = NoLocals
      /\ Ckpt \in Agents /\ Threads \subseteq Agents
  BY DEF Agents
<1>2. \A t \in Threads : ThreadTypes(t)
  BY <1>1, FreshLocals DEF ThreadTypes, ThreadPCs, Entering, Finding, Working
<1>3. /\ file = [p \in Positions |-> file[p]] /\ pool \subseteq Entries
      /\ ent = [e \in Entries |-> ent[e]] /\ \A e \in Entries : IsEntry(ent[e])
  BY FreeEntryIs
<1>4. mapped \in Nat /\ start \in Nat /\ fsize \in Nat /\ epoch \in Nat /\ policy \in Policies
  BY Constants
<1>5. /\ entries \in [Blocks -> MaybeEntry] /\ next \in [Entries -> MaybeEntry]
      /\ elock \in [Entries -> Locks]
  BY DEF MaybeEntry, Locks, Unlocked
<1>6. ck \in [epoch : Nat, i : Blocks, entry : MaybeEntry]
  BY AsleepIs DEF CkType
<1>7. readers = {a \in Agents : pc[a] \notin Outside}
  BY <1>1 DEF Outside
<1> QED
  BY <1>1, <1>2, <1>3, <1>4, <1>5, <1>6, <1>7 DEF Types, CkptPCs

LEMMA TypesNext == Types /\ [Next]_vars => Types'
<1> SUFFICES ASSUME Types, [Next]_vars PROVE Types'
  OBVIOUS
<1>1. ASSUME NEW t \in Threads, Call(t) \/ ThreadStep(t) PROVE Types'
  <2>1. Alone(t) /\ ThreadTypes(t)' /\ MemTypes' /\ readers' = Inside'
    BY <1>1, ThreadTypesStep, MemStep, ReadersStep
  <2>2. \A u \in Threads : ThreadTypes(u)'
    BY <2>1, OtherTypes
  <2>3. ck' = ck
    BY <1>1 DEF ThreadStep, Call, Enter, ExpendUnlock, Expend, ExpendRelock, GetEntry, Publish,
       Reload, LockEntry, LockBusy, CheckpointEntry, LogOne, Count, StoreCell, TestSize,
       SetSize, CheckSize, CopyCell, UnlockEntry, Advance, Leave, Commit
  <2> QED
    BY <2>1, <2>2, <2>3 DEF Types, Alone, MemTypes, Inside
<1>2. CASE CkptStep
  <2>1. CkptAlone /\ loc' = loc /\ MemTypes'
    BY <1>2, CkptStepIs, CkptMem
  <2>2. \A u \in Threads : ThreadTypes(u)'
    BY <2>1 DEF Types, ThreadTypes, CkptAlone
  <2> QED
    BY <2>1, <2>2 DEF Types, CkptAlone, MemTypes, Inside, CkType
<1>3. CASE UNCHANGED vars
  BY <1>3 DEF vars, mapping, counts, tables, history, Types, ThreadTypes
<1> QED
  BY <1>1, <1>2, <1>3 DEF Next

-----------------------------------------------------------------------------
(* The mapping.                                                             *)

LEMMA MapNext == Types /\ MapInv /\ [Next]_vars => MapInv'
<1> SUFFICES ASSUME Types, MapInv, [Next]_vars PROVE MapInv'
  OBVIOUS
<1> DEFINE Before == {"idle", "enter", "expend", "grow", "commit"}
           Safe(u) == pc[u] \notin Before /\ IsWrite(u) => End(loc[u].req) <= mapped
<1>1. ASSUME NEW t \in Threads, Call(t) \/ ThreadStep(t) PROVE MapInv'
  <2>1. Alone(t) /\ mapped \in Nat /\ mapped' \in Nat
    BY <1>1, ThreadTypesStep, MemStep DEF MemTypes, Types
  <2>2. mapped' >= mapped
    <3>1. CASE Expend(t)
      <4>1. pc[t] = "grow" /\ mapped' = Expended(loc[t].req)
        BY <3>1 DEF Expend
      <4> QED
        BY <4>1, Asked, ExpendedIs
    <3>2. CASE ~Expend(t)
      <4>1. mapped' = mapped
        BY <1>1, <3>2 DEF mapping, ThreadStep, Call, Enter, ExpendUnlock, ExpendRelock, GetEntry,
           Publish, Reload, LockEntry, LockBusy, CheckpointEntry, LogOne, Count, StoreCell,
           TestSize, SetSize, CheckSize, CopyCell, UnlockEntry, Advance, Leave, Commit
      <4> QED
        BY <2>1, <4>1
    <3> QED
      BY <3>1, <3>2
  <2>3. ASSUME NEW u \in Threads, u # t PROVE Safe(u)'
    <3>1. SUFFICES ASSUME pc'[u] \notin Before, loc'[u].req.kind = "write"
                   PROVE  End(loc'[u].req) <= mapped'
      BY DEF IsWrite, End
    <3>2. pc[u] \notin Before /\ IsWrite(u) /\ loc'[u] = loc[u]
      BY <2>1, <2>3, <3>1 DEF Alone, IsWrite
    <3>3. End(loc[u].req) <= mapped /\ End(loc[u].req) \in Nat
      BY <3>2, Asked, Constants DEF MapInv
    <3> QED
      BY <2>1, <2>2, <3>2, <3>3
  <2>4. Safe(t)'
    <3>1. SUFFICES ASSUME pc'[t] \notin Before, loc'[t].req.kind = "write"
                   PROVE  End(loc'[t].req) <= mapped'
      BY DEF IsWrite, End
    <3>2. ~Call(t) /\ ~Leave(t) /\ ~Commit(t)
      BY <3>1, CallStep, ReturnStep
    <3>3. Onward(t) /\ pc[t] \notin {"idle", "commit"}
      <4>1. CASE Moving(t)
        BY <4>1, MovingStep DEF Moving
      <4>2. CASE GetEntry(t) \/ Publish(t) \/ Reload(t) \/ LockBusy(t) \/ LockEntry(t)
        BY <4>2, GetEntryStep, PublishStep, ReloadStep, LockBusyStep, LockEntryStep
           DEF Reload, LockBusy, LockEntry
      <4>3. CASE LogOne(t) \/ Count(t) \/ CopyCell(t) \/ Advance(t)
        BY <4>3, LogOneStep, CountStep, CopyCellStep, AdvanceStep DEF Count, Advance
      <4>4. CASE StoreCell(t) \/ CheckSize(t)
        BY <4>4, StoreCellStep, CheckSizeStep DEF SameEntries
      <4> QED
        BY <1>1, <3>2, <4>1, <4>2, <4>3, <4>4 DEF ThreadStep, Moving
    <3>4. PICK r : r = loc[t].req /\ loc'[t].req = r
      BY <3>3 DEF Onward
    <3>5. r \in AllRequests /\ r.kind = "write" /\ End(r) \in Nat /\ IsWrite(t)
      BY <3>1, <3>3, <3>4, Asked, Constants DEF IsWrite
    <3>6. CASE Enter(t)
      <4>1. ~check_expend(r) /\ mapped' = mapped
        BY <3>1, <3>4, <3>5, <3>6, MovingStep DEF Enter, Goto, Moving, mapping, Types, Agents
      <4> QED
        BY <2>1, <3>4, <3>5, <4>1 DEF check_expend
    <3>7. CASE Expend(t)
      <4>1. mapped' = Expended(r)
        BY <3>4, <3>7 DEF Expend
      <4> QED
        BY <3>4, <3>5, <4>1, ExpendedIs
    <3>8. CASE ~Enter(t) /\ ~Expend(t)
      <4>1. pc[t] \notin Before
        BY <1>1, <3>1, <3>2, <3>8, MovingStep
           DEF ThreadStep, Moving, GetEntry, Publish, Reload, LockEntry, LockBusy,
               CheckpointEntry, LogOne, Count, StoreCell, TestSize, SetSize, CheckSize, CopyCell,
               UnlockEntry, Advance, ExpendRelock
      <4>2. End(r) <= mapped
        BY <3>4, <3>5, <4>1 DEF MapInv
      <4> QED
        BY <2>1, <2>2, <3>4, <3>5, <4>2
    <3> QED
      BY <3>6, <3>7, <3>8
  <2> QED
    BY <2>3, <2>4 DEF MapInv
<1>2. CASE CkptStep
  <2>1. CkptAlone /\ loc' = loc
    BY <1>2, CkptStepIs
  <2>2. mapped' = mapped
    BY <1>2 DEF CkptStep, CkptWake, CkptTry, CkptScan, CkptLock, CkptApply, CkptFree, mapping
  <2> QED
    BY <2>1, <2>2 DEF MapInv, CkptAlone, IsWrite, End
<1>3. CASE UNCHANGED vars
  BY <1>3 DEF vars, mapping, MapInv, IsWrite, End
<1> QED
  BY <1>1, <1>2, <1>3 DEF Next

\* A write is performed only inside the mapping, whatever other threads and
\* commits do between the two locks of expend_mmio, for any calls.
THEOREM WritesMapped == Spec => []MappedWrites
<1>1. Init => Types /\ MapInv
  BY TypesInit DEF Init, MapInv, Agents
<1>2. Types /\ MapInv /\ [Next]_vars => Types' /\ MapInv'
  BY TypesNext, MapNext
<1>3. MapInv => MappedWrites
  BY DEF MapInv, MappedWrites, Performing
<1> QED
  BY <1>1, <1>2, <1>3, PTL DEF Spec

-----------------------------------------------------------------------------
(* Entries.                                                                 *)

\* A step of a thread that takes no entry from the pool and gives none back.
LEMMA PlaceSame ==
    ASSUME Types, PlaceInv, NEW t \in Threads, Alone(t), entries' = entries, pool' = pool,
           ck' = ck, pc'[t] # "publish",
           loc'[t].cand \in {loc[t].cand, NULL} \cup {entries[b] : b \in Blocks}
    PROVE  PlaceInv'
<1>1. Reclaiming'
  BY DEF PlaceInv, Reclaiming, Alone
<1>2. ASSUME NEW v \in Threads, pc'[v] = "publish"
      PROVE  /\ loc'[v].cand \notin pool /\ \A b \in Blocks : entries[b] # loc'[v].cand
             /\ \A u \in Threads \ {v} : loc'[u].cand # loc'[v].cand
  <2>1. v # t /\ pc[v] = "publish" /\ loc'[v] = loc[v]
    BY <1>2 DEF Alone
  <2>2. /\ loc[v].cand \notin pool /\ \A b \in Blocks : entries[b] # loc[v].cand
        /\ \A u \in Threads \ {v} : loc[u].cand # loc[v].cand
    BY <2>1 DEF PlaceInv, OnePlace
  <2>3. loc[v].cand # NULL
    BY <2>1, Constants DEF Types, ThreadTypes
  <2>4. loc'[t].cand # loc[v].cand
    BY <2>1, <2>2, <2>3
  <2> QED
    BY <2>1, <2>2, <2>4 DEF Alone
<1> QED
  BY <1>1, <1>2 DEF PlaceInv, OnePlace

\* The steps PlaceSame is for.
LEMMA QuietStep ==
    ASSUME Types, NEW t \in Threads, Call(t) \/ ThreadStep(t), ~GetEntry(t), ~Publish(t)
    PROVE  /\ Alone(t) /\ entries' = entries /\ pool' = pool /\ ck' = ck
           /\ pc'[t] # "publish"
           /\ loc'[t].cand \in {loc[t].cand, NULL} \cup {entries[b] : b \in Blocks}
<1>1. Alone(t) /\ entries' = entries /\ pool' = pool /\ ck' = ck
  BY ThreadTypesStep DEF ThreadStep, Call, Enter, ExpendUnlock, Expend, ExpendRelock,
     Reload, LockEntry, LockBusy, CheckpointEntry, LogOne, Count, StoreCell, TestSize,
     SetSize, CheckSize, CopyCell, UnlockEntry, Advance, Leave, Commit, tables
<1>2. CASE Call(t)
  BY <1>1, <1>2, CallStep
<1>3. CASE Leave(t) \/ Commit(t)
  BY <1>1, <1>3, ReturnStep, FreshLocals
<1>4. CASE Moving(t)
  BY <1>1, <1>4, MovingStep DEF Moving
<1>5. CASE Reload(t) \/ LockBusy(t) \/ LockEntry(t)
  <2>1. CASE Reload(t)
    BY <1>1, <2>1, ReloadStep
  <2>2. CASE LockBusy(t) \/ LockEntry(t)
    BY <1>1, <2>2, LockBusyStep, LockEntryStep
  <2> QED
    BY <1>5, <2>1, <2>2
<1>6. CASE LogOne(t) \/ Count(t) \/ CopyCell(t) \/ Advance(t)
  BY <1>1, <1>6, LogOneStep, CountStep, CopyCellStep, AdvanceStep
<1>7. CASE StoreCell(t) \/ CheckSize(t)
  BY <1>1, <1>7, StoreCellStep, CheckSizeStep DEF SameEntries
<1> QED
  BY <1>2, <1>3, <1>4, <1>5, <1>6, <1>7 DEF ThreadStep, Moving

LEMMA GetEntryPlace ==
    ASSUME ~EagerReuse, Types, PlaceInv, NEW t \in Threads, GetEntry(t)
    PROVE  PlaceInv'
<1>1. Onward(t) /\ Alone(t) /\ entries' = entries /\ ck' = ck /\ pc[t] = "get"
  BY GetEntryStep DEF Onward, GetEntry
<1>2. CASE UNCHANGED tables /\ pc'[t] = "trylock" /\ loc'[t].cand = entries[Index(t)]
  <2>1. Index(t) \in Blocks
    BY <1>1, IndexIn DEF Finding
  <2> QED
    BY <1>1, <1>2, <2>1, PlaceSame DEF tables
<1>3. CASE pc'[t] = "publish"
  <2>1. PICK e \in Reusable : loc'[t].cand = e /\ alloc_idx_entry(e) /\ e \in Entries /\ e \in pool
    BY <1>3, GetEntryStep
  <2>2. pool' = pool \ {e} /\ \A u \in Threads : loc[u].cand # e
    BY <2>1 DEF alloc_idx_entry, Reusable
  <2>3. Reclaiming'
    BY <1>1 DEF PlaceInv, Reclaiming, Alone
  <2>4. \A b \in Blocks : entries[b] \notin pool
    BY DEF PlaceInv, OnePlace
  <2>5. ASSUME NEW v \in Threads, pc'[v] = "publish"
        PROVE  /\ loc'[v].cand \notin pool' /\ \A b \in Blocks : entries[b] # loc'[v].cand
               /\ \A u \in Threads \ {v} : loc'[u].cand # loc'[v].cand
    <3>1. CASE v = t
      BY <1>1, <2>1, <2>2, <2>4, <3>1 DEF Alone
    <3>2. CASE v # t
      <4>1. pc[v] = "publish" /\ loc'[v] = loc[v]
        BY <1>1, <2>5, <3>2 DEF Alone
      <4>2. /\ loc[v].cand \notin pool /\ \A b \in Blocks : entries[b] # loc[v].cand
            /\ \A u \in Threads \ {v} : loc[u].cand # loc[v].cand
        BY <4>1 DEF PlaceInv, OnePlace
      <4> QED
        BY <1>1, <2>1, <2>2, <3>2, <4>1, <4>2 DEF Alone
    <3> QED
      BY <3>1, <3>2
  <2> QED
    BY <1>1, <2>2, <2>3, <2>4, <2>5 DEF PlaceInv, OnePlace
<1> QED
  BY <1>2, <1>3, GetEntryStep

LEMMA PublishPlace ==
    ASSUME Types, PlaceInv, NEW t \in Threads, Publish(t)
    PROVE  PlaceInv'
<1>1. PICK e, i : e = loc[t].cand /\ i = Index(t)
  OBVIOUS
<1>2. /\ Alone(t) /\ pc[t] = "publish" /\ e \in Entries /\ i \in Blocks /\ e # NULL
      /\ ck' = ck /\ entries \in [Blocks -> MaybeEntry]
  <2>1. Alone(t) /\ pc[t] = "publish" /\ e \in Entries /\ i \in Blocks
    BY <1>1, PublishStep DEF Onward
  <2>2. ck' = ck /\ entries \in [Blocks -> MaybeEntry]
    BY DEF Publish, Types
  <2> QED
    BY <2>1, <2>2, Constants
<1>3. /\ e \notin pool /\ \A b \in Blocks : entries[b] # e
      /\ \A u \in Threads \ {t} : loc[u].cand # e
  BY <1>1, <1>2 DEF PlaceInv, OnePlace
<1>4. /\ \A b \in Blocks : entries[b] \notin pool
      /\ \A b, c \in Blocks : b # c => entries[b] = NULL \/ entries[b] # entries[c]
      /\ ck.i \in Blocks
  BY DEF PlaceInv, OnePlace, Types
<1>5. ASSUME NEW v \in Threads, pc'[v] = "publish"
      PROVE  /\ v # t /\ pc[v] = "publish" /\ loc'[v] = loc[v]
             /\ loc[v].cand \notin pool /\ \A b \in Blocks : entries[b] # loc[v].cand
             /\ \A u \in Threads \ {v} : loc[u].cand # loc[v].cand
             /\ loc[v].cand \in Entries
  <2>1. v # t /\ pc[v] = "publish" /\ loc'[v] = loc[v]
    BY <1>2, <1>5, PublishStep DEF Alone
  <2> QED
    BY <2>1 DEF PlaceInv, OnePlace, Types, ThreadTypes
<1>6. CASE /\ entries[i] = NULL /\ entries' = [entries EXCEPT ![i] = e] /\ pool' = pool
           /\ loc'[t].cand = e
  <2>1. \A b \in Blocks : entries'[b] = IF b = i THEN e ELSE entries[b]
    BY <1>2, <1>6
  <2>2. Reclaiming'
    <3>1. SUFFICES ASSUME pc[Ckpt] \in {"lock", "recheck", "free"} PROVE entries'[ck.i] = ck.entry
      BY <1>2 DEF Reclaiming, Alone
    <3>2. entries[ck.i] = ck.entry /\ ck.entry # NULL
      BY <3>1, Constants DEF PlaceInv, Reclaiming, Types
    <3> QED
      BY <1>4, <1>6, <2>1, <3>2
  <2>3. \A b \in Blocks : entries'[b] \notin pool'
    BY <1>3, <1>4, <1>6, <2>1
  <2>4. \A b, c \in Blocks : b # c => entries'[b] = NULL \/ entries'[b] # entries'[c]
    BY <1>3, <1>4, <2>1
  <2>5. ASSUME NEW v \in Threads, pc'[v] = "publish"
        PROVE  /\ loc'[v].cand \notin pool' /\ \A b \in Blocks : entries'[b] # loc'[v].cand
               /\ \A u \in Threads \ {v} : loc'[u].cand # loc'[v].cand
    <3>1. loc[v].cand # e
      BY <1>3, <1>5, <2>5
    <3>2. \A u \in Threads : loc'[u].cand = loc[u].cand
      BY <1>1, <1>2, <1>6 DEF Alone
    <3> QED
      BY <1>5, <1>6, <2>1, <2>5, <3>1, <3>2
  <2> QED
    BY <2>2, <2>3, <2>4, <2>5 DEF PlaceInv, OnePlace
<1>7. CASE entries' = entries /\ free_idx_entry(e) /\ loc'[t].cand = NULL
  <2>1. pool' = pool \cup {e}
    BY <1>7 DEF free_idx_entry
  <2>2. Reclaiming'
    BY <1>2, <1>7 DEF PlaceInv, Reclaiming, Alone
  <2>3. ASSUME NEW v \in Threads, pc'[v] = "publish"
        PROVE  /\ loc'[v].cand \notin pool' /\ \A b \in Blocks : entries'[b] # loc'[v].cand
               /\ \A u \in Threads \ {v} : loc'[u].cand # loc'[v].cand
    <3>1. loc[v].cand # e /\ loc[v].cand # NULL
      BY <1>3, <1>5, <2>3, Constants
    <3>2. \A u \in Threads : loc'[u].cand \in {loc[u].cand, NULL}
      BY <1>2, <1>7 DEF Alone
    <3> QED
      BY <1>5, <1>7, <2>1, <2>3, <3>1, <3>2
  <2> QED
    BY <1>3, <1>4, <1>7, <2>1, <2>2, <2>3 DEF PlaceInv, OnePlace
<1> QED
  BY <1>1, <1>6, <1>7, PublishStep

\* What the checkpoint thread has done when it takes a step.
LEMMA NextIndexOut ==
    ASSUME Types, NextIndex, pc[Ckpt] \in {"scan", "lock", "recheck", "free"}
    PROVE  pc'[Ckpt] \notin {"lock", "recheck", "free"}
BY NextIndexStep

LEMMA CkptPlace ==
    ASSUME Types, PlaceInv, CkptStep
    PROVE  PlaceInv'
<1>1. CkptAlone /\ loc' = loc
  BY CkptStepIs
<1>2. CASE CkptFree
  <2>1. /\ pc[Ckpt] = "free" /\ entries' = [entries EXCEPT ![ck.i] = NULL]
        /\ pool' = pool \cup {ck.entry} /\ NextIndex
    BY <1>2 DEF CkptFree, OutOfTable, free_idx_entry
  <2>2. /\ entries[ck.i] = ck.entry /\ ck.i \in Blocks /\ ck.entry \in Entries
        /\ entries \in [Blocks -> MaybeEntry] /\ NULL \notin Entries
        /\ pool \subseteq Entries
    BY <2>1, Constants DEF PlaceInv, Reclaiming, Types
  <2>3. \A b \in Blocks : entries'[b] = IF b = ck.i THEN NULL ELSE entries[b]
    BY <2>1, <2>2
  <2>4. Reclaiming'
    BY <2>1, NextIndexOut DEF Reclaiming
  <2>5. /\ \A b \in Blocks : entries[b] \notin pool
        /\ \A b, c \in Blocks : b # c => entries[b] = NULL \/ entries[b] # entries[c]
    BY DEF PlaceInv, OnePlace
  <2>6. \A b \in Blocks : entries'[b] \notin pool'
    BY <2>1, <2>2, <2>3, <2>5
  <2>7. \A b, c \in Blocks : b # c => entries'[b] = NULL \/ entries'[b] # entries'[c]
    BY <2>3, <2>5
  <2>8. ASSUME NEW v \in Threads, pc'[v] = "publish"
        PROVE  /\ loc'[v].cand \notin pool' /\ \A b \in Blocks : entries'[b] # loc'[v].cand
               /\ \A u \in Threads \ {v} : loc'[u].cand # loc'[v].cand
    <3>1. pc[v] = "publish"
      BY <1>1, <2>8 DEF CkptAlone
    <3>2. /\ loc[v].cand \notin pool /\ \A b \in Blocks : entries[b] # loc[v].cand
          /\ \A u \in Threads \ {v} : loc[u].cand # loc[v].cand /\ loc[v].cand \in Entries
      BY <3>1 DEF PlaceInv, OnePlace, Types, ThreadTypes
    <3>3. loc[v].cand \in Entries
      BY <3>1 DEF Types, ThreadTypes
    <3> QED
      BY <1>1, <2>1, <2>2, <2>3, <3>2, <3>3
  <2> QED
    BY <2>4, <2>6, <2>7, <2>8 DEF PlaceInv, OnePlace
<1>3. CASE ~CkptFree
  <2>1. entries' = entries /\ pool' = pool
    BY <1>3 DEF CkptStep, CkptWake, CkptTry, CkptScan, CkptLock, CkptApply, tables
  <2>2. OnePlace'
    BY <1>1, <2>1 DEF PlaceInv, OnePlace, CkptAlone
  <2>3. Reclaiming'
    <3>1. SUFFICES ASSUME pc'[Ckpt] \in {"lock", "recheck", "free"} PROVE entries[ck'.i] = ck'.entry
      BY <2>1 DEF Reclaiming
    <3>2. pc[Ckpt] \in {"scan", "lock", "recheck", "free"} => ~NextIndex
      BY <3>1, NextIndexOut
    <3>3. CASE CkptWake \/ CkptTry
      <4>1. PICK to \in {"try", "scan", "idle"} : pc' = [pc EXCEPT ![Ckpt] = to]
        BY <3>3 DEF CkptWake, CkptTry, Goto
      <4> QED
        BY <3>1, <4>1 DEF Types, Agents
    <3>4. CASE CkptScan
      <4>1. ck' = [ck EXCEPT !.entry = entries[ck.i]]
        BY <3>2, <3>4 DEF CkptScan
      <4>2. PICK k, e : k = ck /\ e = entries[ck.i]
        OBVIOUS
      <4>3. k \in CkType
        BY <4>2 DEF Types, CkType
      <4>4. [k EXCEPT !.entry = e].i = k.i /\ [k EXCEPT !.entry = e].entry = e
        BY <4>3 DEF CkType
      <4> QED
        BY <4>1, <4>2, <4>4
    <3>5. CASE CkptLock \/ CkptApply
      <4>1. ck' = ck /\ pc[Ckpt] \in {"lock", "recheck"}
        BY <3>2, <3>5 DEF CkptLock, CkptApply
      <4> QED
        BY <4>1 DEF PlaceInv, Reclaiming
    <3> QED
      BY <1>3, <3>3, <3>4, <3>5 DEF CkptStep
  <2> QED
    BY <2>2, <2>3 DEF PlaceInv
<1> QED
  BY <1>2, <1>3

LEMMA PlaceNext ==
    ASSUME ~EagerReuse, Types, PlaceInv, [Next]_vars
    PROVE  PlaceInv'
<1>1. ASSUME NEW t \in Threads, Call(t) \/ ThreadStep(t) PROVE PlaceInv'
  <2>1. CASE GetEntry(t) \/ Publish(t)
    BY <2>1, GetEntryPlace, PublishPlace
  <2>2. CASE ~GetEntry(t) /\ ~Publish(t)
    BY <1>1, <2>2, QuietStep, PlaceSame
  <2> QED
    BY <2>1, <2>2
<1>2. CASE UNCHANGED vars
  BY <1>2 DEF vars, tables, PlaceInv, OnePlace, Reclaiming
<1> QED
  BY <1>1, <1>2, CkptPlace DEF Next

LEMMA PlaceInit == Init => PlaceInv
BY Constants DEF Init, PlaceInv, OnePlace, Reclaiming, Agents

\* An index entry is in one slot of the table, or taken by one thread to be
\* published, or free: no race of get_log_entry, of its compare-and-swap and of
\* the checkpoint thread makes two of it, for any calls, as long as an entry
\* is not reused while a thread still holds a pointer to it.
THEOREM EntriesInOnePlace ==
    ASSUME ~EagerReuse
    PROVE  Spec => []OnePlace
<1>1. ~EagerReuse /\ Types /\ PlaceInv /\ [Next]_vars => Types' /\ PlaceInv'
  BY TypesNext, PlaceNext
<1>2. Init => Types /\ PlaceInv
  BY TypesInit, PlaceInit
<1>3. PlaceInv => OnePlace
  BY DEF PlaceInv
<1> QED
  BY <1>1, <1>2, <1>3, PTL DEF Spec

-----------------------------------------------------------------------------
(* Calls within one block: lists of one entry.                              *)

LEMMA OneBlockIs ==
    ASSUME OneBlock, Types, NEW t \in Threads, pc[t] \notin {"idle", "commit"}
    PROVE  /\ BlockOf(t) \in Blocks /\ Span(loc[t].req) = {BlockOf(t)}
           /\ End(loc[t].req) <= Base(BlockOf(t) + 1)
           /\ Smaller(loc[t].req.len, LogSize - (loc[t].req.off % LogSize)) = loc[t].req.len
<1>1. PICK r, b : r = loc[t].req /\ b = Block(r.off)
  OBVIOUS
<1>2. /\ r \in AllRequests /\ r.kind # "fsync" /\ r.off \in Positions /\ r.off \in Nat
      /\ r.len \in Nat \ {0} /\ End(r) = r.off + r.len
  BY <1>1, Asked
<1>3. End(r) <= Base(b + 1)
  BY <1>1, <1>2 DEF OneBlock
<1>4. /\ b \in Blocks /\ Base(b) \in Nat /\ Base(b + 1) = Base(b) + LogSize
      /\ r.off % LogSize \in 0 .. LogSize - 1 /\ r.off = Base(b) + (r.off % LogSize)
  BY <1>1, <1>2, BlockIs
<1>5. Smaller(r.len, LogSize - (r.off % LogSize)) = r.len
  BY <1>2, <1>3, <1>4, Constants DEF Smaller
<1>6. ASSUME NEW p \in Written(r) PROVE Block(p) = b
  <2>1. p \in Int /\ r.off <= p /\ p < Base(b) + LogSize /\ Base(b) <= p
    BY <1>2, <1>3, <1>4, Constants DEF Written
  <2>2. Base(b) = b * LogSize /\ b \in Nat /\ LogSize \in Nat \ {0}
    BY <1>4, Constants DEF Base, Blocks
  <2>3. p \div LogSize = b
    <3>1. p \in Nat /\ p - Base(b) \in 0 .. LogSize - 1 /\ p = LogSize * b + (p - Base(b))
      BY <1>4, <2>1, <2>2
    <3> QED
      BY <2>2, <3>1, DivisionIs
  <2> QED
    BY <2>3 DEF Block
<1>7. r.off \in Written(r)
  BY <1>2 DEF Written
<1>8. Span(r) = {b}
  BY <1>6, <1>7 DEF Span
<1> QED
  BY <1>1, <1>3, <1>4, <1>5, <1>8 DEF BlockOf

\* Where get_log_entry looks is the block of the request.
LEMMA IndexIs ==
    ASSUME BlockInv, NEW t \in Threads, pc[t] \in Finding
    PROVE  Index(t) = BlockOf(t)
<1>1. loc[t].off = loc[t].req.off
  BY DEF BlockInv, LocalInv
<1> QED
  BY <1>1 DEF Index, BlockOf

LEMMA LocalStep ==
    ASSUME OneBlock, Types, BlockInv, NEW t \in Threads, Call(t) \/ ThreadStep(t)
    PROVE  LocalInv(t)'
<1>0. LocalInv(t) /\ \A e \in Entries : next[e] = NULL
  BY DEF BlockInv
<1> USE DEF Entering, Finding, Working, Holding
<1>1. CASE Call(t) \/ Leave(t) \/ Commit(t)
  <2>1. CASE Call(t)
    BY <2>1, CallStep DEF LocalInv
  <2>2. CASE Leave(t) \/ Commit(t)
    BY <2>2, ReturnStep DEF LocalInv
  <2> QED
    BY <1>1, <2>1, <2>2
<1>2. CASE Moving(t)
  <2>1. loc'[t] = loc[t]
    BY <1>2, MovingStep
  <2>2. \/ pc[t] \in {"enter", "relock"} /\ pc'[t] \in {"expend", "get"}
        \/ pc[t] = "expend" /\ pc'[t] = "grow"
        \/ pc[t] = "grow" /\ pc'[t] = "relock"
        \/ pc[t] = "log" /\ pc'[t] = "append"
        \/ pc[t] \in {"size", "setsize"} /\ pc'[t] \in {"setsize", "unlock"}
        \/ pc[t] = "unlock" /\ pc'[t] = "advance"
    BY <1>2, MovingStep DEF Moving
  <2> QED
    BY <1>0, <2>1, <2>2 DEF LocalInv, IsWrite
<1>3. CASE GetEntry(t) \/ Publish(t) \/ Reload(t) \/ LockBusy(t)
  <2>1. Onward(t) /\ SamePlace(t) /\ pc[t] \in Finding /\ pc'[t] \in Finding
    BY <1>3, GetEntryStep, PublishStep, ReloadStep, LockBusyStep DEF Reload, LockBusy
  <2> QED
    BY <1>0, <2>1 DEF LocalInv, Onward, SamePlace
<1>4. CASE LockEntry(t)
  <2>1. pc[t] = "trylock" /\ pc[t] \in Finding
    BY <1>4 DEF LockEntry
  <2>2. ~(Base(Index(t) + 1) < End(loc[t].req))
    <3>1. Index(t) = BlockOf(t)
      BY <2>1, IndexIs
    <3>2. End(loc[t].req) <= Base(BlockOf(t) + 1) /\ End(loc[t].req) \in Nat
      BY <2>1, OneBlockIs, Asked, Constants
    <3>3. Base(BlockOf(t) + 1) \in Nat
      BY <2>1, Asked, BlockIs, Constants DEF BlockOf
    <3> QED
      BY <3>1, <3>2, <3>3
  <2>3. /\ Onward(t) /\ loc'[t].head = loc[t].cand /\ loc'[t].cur = loc[t].cand
        /\ loc'[t].n = loc[t].req.len /\ loc'[t].ret = loc[t].ret
        /\ loc'[t].off = loc[t].req.off /\ loc[t].cand \in Entries
        /\ pc'[t] = IF IsWrite(t) THEN "log" ELSE "check"
    BY <1>4, <2>2, LockEntryStep
  <2> QED
    BY <1>0, <2>1, <2>3 DEF LocalInv, Onward, IsWrite
<1>5. CASE LogOne(t)
  <2>1. pc[t] \in {"log", "append"} /\ pc[t] \in Working
    BY <1>5, LogOneStep
  <2>2. next[loc[t].cur] = NULL
    BY <1>0, <2>1, CurIn
  <2>3. /\ loc[t].n = loc[t].req.len /\ loc[t].off = loc[t].req.off /\ loc[t].ret = 0
        /\ loc[t].req.len \in Nat
    BY <1>0, <2>1, Asked DEF LocalInv
  <2>4. Smaller(loc[t].n, LogSize - (loc[t].off % LogSize)) = loc[t].req.len
    BY <2>1, <2>3, OneBlockIs
  <2>5. /\ Onward(t) /\ loc'[t].head = loc[t].head /\ loc'[t].ret = loc[t].req.len
        /\ pc'[t] = "count"
    BY <1>5, <2>2, <2>3, <2>4, LogOneStep
  <2> QED
    BY <1>0, <2>1, <2>5 DEF LocalInv, Onward
<1>6. CASE Count(t)
  <2>1. /\ Onward(t) /\ loc'[t].head = loc[t].head /\ loc'[t].cur = loc[t].head
        /\ loc'[t].ret = loc[t].ret /\ pc[t] = "count"
        /\ pc'[t] = IF ~IsWrite(t) THEN "unlock" ELSE IF policy = "UNDO" THEN "store" ELSE "size"
    BY <1>6, CountStep DEF Count
  <2> QED
    BY <1>0, <2>1 DEF LocalInv, Onward, IsWrite
<1>7. CASE StoreCell(t) \/ CheckSize(t)
  <2>1. /\ SameEntries(t)
        /\ \/ pc[t] = "store" /\ pc'[t] \in {"store", "size"}
           \/ pc[t] = "check" /\ pc'[t] \in {"copy", "count"}
    BY <1>7, StoreCellStep, CheckSizeStep
  <2> QED
    BY <1>0, <2>1 DEF LocalInv, Onward, SameEntries, IsWrite
<1>8. CASE CopyCell(t)
  <2>1. pc[t] = "copy" /\ next[loc[t].cur] = NULL
    BY <1>0, <1>8, CopyCellStep, CurIn
  <2>2. /\ Onward(t) /\ loc'[t].head = loc[t].head
        /\ (pc'[t] = "copy" /\ loc'[t].cur = loc[t].cur) \/ pc'[t] = "count"
    BY <1>8, <2>1, CopyCellStep, Constants
  <2> QED
    BY <1>0, <2>1, <2>2 DEF LocalInv, Onward, IsWrite
<1>9. CASE Advance(t)
  <2>1. pc'[t] = "leave"
    BY <1>0, <1>9, AdvanceStep
  <2> QED
    BY <2>1 DEF LocalInv
<1> QED
  BY <1>1, <1>2, <1>3, <1>4, <1>5, <1>6, <1>7, <1>8, <1>9 DEF ThreadStep, Moving

\* A thread that neither takes nor gives back the lock of an entry.
SameHold(t) ==
    /\ pc'[t] \in Holding <=> pc[t] \in Holding
    /\ pc[t] \in Holding => loc'[t].head = loc[t].head /\ loc'[t].req = loc[t].req

LEMMA HoldStep ==
    ASSUME OneBlock, Types, BlockInv, NEW t \in Threads, Call(t) \/ ThreadStep(t),
           ~LockEntry(t), ~UnlockEntry(t)
    PROVE  SameHold(t)
<1>0. LocalInv(t) /\ \A e \in Entries : next[e] = NULL
  BY DEF BlockInv
<1> USE DEF Working, Holding, SameHold
<1>1. CASE Call(t)
  BY <1>1, CallStep DEF Call
<1>2. CASE Leave(t) \/ Commit(t)
  BY <1>2, ReturnStep DEF Leave, Commit
<1>3. CASE Moving(t)
  <2>1. loc'[t] = loc[t]
    BY <1>3, MovingStep
  <2>2. \/ pc[t] \in Entering /\ pc'[t] \in Entering \cup {"get"}
        \/ pc[t] = "log" /\ pc'[t] = "append"
        \/ pc[t] \in {"size", "setsize"} /\ pc'[t] \in {"setsize", "unlock"}
    BY <1>3, MovingStep DEF Moving, Entering
  <2> QED
    BY <2>1, <2>2 DEF Entering
<1>4. CASE GetEntry(t) \/ Publish(t) \/ Reload(t) \/ LockBusy(t)
  <2>1. pc[t] \in Finding /\ pc'[t] \in Finding
    BY <1>4, GetEntryStep, PublishStep, ReloadStep, LockBusyStep DEF Reload, LockBusy, Finding
  <2> QED
    BY <2>1 DEF Finding
<1>5. CASE LogOne(t)
  BY <1>5, LogOneStep DEF Onward
<1>6. CASE Count(t)
  BY <1>6, CountStep DEF Onward, Count
<1>7. CASE StoreCell(t) \/ CheckSize(t)
  BY <1>7, StoreCellStep, CheckSizeStep DEF SameEntries, Onward
<1>8. CASE CopyCell(t)
  BY <1>8, CopyCellStep DEF Onward
<1>9. CASE Advance(t)
  <2>1. pc'[t] = "leave" /\ pc[t] = "advance"
    BY <1>0, <1>9, AdvanceStep DEF Advance
  <2> QED
    BY <2>1
<1> QED
  BY <1>1, <1>2, <1>3, <1>4, <1>5, <1>6, <1>7, <1>8, <1>9 DEF ThreadStep, Moving

-----------------------------------------------------------------------------
(* Calls within one block: the locks.                                       *)

LEMMA HoldersFinite ==
    ASSUME NEW e
    PROVE  IsFiniteSet(ReadHolders(e)) /\ IsFiniteSet(ReadHolders(e)')
<1>1. ReadHolders(e) \subseteq Threads /\ ReadHolders(e)' \subseteq Threads
  BY DEF ReadHolders
<1> QED
  BY <1>1, Constants, FS_Subset

\* An entry that nobody takes or gives back.
LEMMA LockSame ==
    ASSUME NEW e, LockInv(e), elock'[e] = elock[e], CkptHolds(e)' <=> CkptHolds(e),
           \A u \in Threads : /\ HoldsRead(u, e)' <=> HoldsRead(u, e)
                              /\ HoldsWrite(u, e)' <=> HoldsWrite(u, e)
    PROVE  LockInv(e)'
<1>1. ReadHolders(e)' = ReadHolders(e)
  BY DEF ReadHolders
<1> QED
  BY <1>1 DEF LockInv

\* A thread that is not at it, and one that neither takes nor gives back.
LEMMA HoldsSame ==
    ASSUME NEW u, NEW e, SameHold(u)
    PROVE  /\ HoldsRead(u, e)' <=> HoldsRead(u, e)
           /\ HoldsWrite(u, e)' <=> HoldsWrite(u, e)
BY DEF SameHold, HoldsRead, HoldsWrite, IsWrite

LEMMA OthersHold ==
    ASSUME NEW t, Alone(t), NEW u \in Threads, u # t
    PROVE  SameHold(u)
BY DEF Alone, SameHold

LEMMA OtherLocal ==
    ASSUME NEW t, Alone(t), NEW u \in Threads, u # t, LocalInv(u)
    PROVE  LocalInv(u)'
BY DEF Alone, LocalInv, IsWrite

LEMMA OtherShared ==
    ASSUME NEW u, SharedInv(u), pc'[u] = pc[u], loc'[u] = loc[u],
           pc[u] \in Holding => entries'[BlockOf(u)] = entries[BlockOf(u)],
           pc[u] = "publish" => elock'[loc[u].cand] = elock[loc[u].cand],
           pc[u] = "trylock" =>
              \/ loc[u].cand = NULL
              \/ entries'[BlockOf(u)] = entries[BlockOf(u)] /\ loc[u].cand = entries[BlockOf(u)]
              \/ loc[u].cand \in pool' /\ elock'[loc[u].cand].wr # NoThread
    PROVE  SharedInv(u)'
<1>1. PICK l : l = loc[u] /\ loc'[u] = l
  OBVIOUS
<1> QED
  BY <1>1 DEF SharedInv, BlockOf

\* A step that leaves the tables alone.
LEMMA QuietBlock ==
    ASSUME Types, BlockInv, NEW t \in Threads, Alone(t), ck' = ck,
           entries' = entries, pool' = pool, elock' = elock, next' = next,
           LocalInv(t)', SharedInv(t)', SameHold(t)
    PROVE  BlockInv'
<1>1. \A e \in Entries : next'[e] = NULL /\ elock'[e].rd >= 0
  BY DEF BlockInv
<1>2. ASSUME NEW u \in Threads PROVE LocalInv(u)' /\ SharedInv(u)'
  <2>1. CASE u # t
    <3>1. LocalInv(u) /\ SharedInv(u) /\ pc'[u] = pc[u] /\ loc'[u] = loc[u]
      BY <2>1 DEF BlockInv, Alone
    <3>2. SharedInv(u)'
      BY <3>1, OtherShared DEF SharedInv
    <3> QED
      BY <2>1, <3>1, <3>2, OtherLocal
  <2> QED
    BY <2>1
<1>3. ASSUME NEW e \in Entries, InTable(e)' PROVE LockInv(e)'
  <2>1. LockInv(e) /\ (CkptHolds(e)' <=> CkptHolds(e))
    BY <1>3 DEF InTable, BlockInv, CkptHolds, Alone
  <2>2. \A u \in Threads : /\ HoldsRead(u, e)' <=> HoldsRead(u, e)
                           /\ HoldsWrite(u, e)' <=> HoldsWrite(u, e)
    BY OthersHold, HoldsSame
  <2> QED
    BY <2>1, <2>2, LockSame
<1> QED
  BY <1>1, <1>2, <1>3 DEF BlockInv

\* Who finds the entry of a block.
LEMMA NotFound ==
    ASSUME Types, NEW t \in Threads, Call(t) \/ ThreadStep(t), ~GetEntry(t), ~Publish(t), ~Reload(t)
    PROVE  pc'[t] \notin {"publish", "reload", "trylock"}
<1>1. CASE Call(t) \/ Leave(t) \/ Commit(t)
  BY <1>1, CallStep, ReturnStep
<1>2. CASE Moving(t)
  BY <1>2, MovingStep DEF Moving
<1>3. CASE LockBusy(t) \/ LockEntry(t)
  BY <1>3, LockBusyStep, LockEntryStep
<1>4. CASE LogOne(t) \/ Count(t) \/ CopyCell(t) \/ Advance(t)
  BY <1>4, LogOneStep, CountStep, CopyCellStep, AdvanceStep
<1>5. CASE StoreCell(t) \/ CheckSize(t)
  BY <1>5, StoreCellStep, CheckSizeStep
<1> QED
  BY <1>1, <1>2, <1>3, <1>4, <1>5 DEF ThreadStep, Moving

LEMMA QuietStepBlock ==
    ASSUME OneBlock, Types, BlockInv, NEW t \in Threads, Call(t) \/ ThreadStep(t),
           ~GetEntry(t), ~Publish(t), ~LockEntry(t), ~UnlockEntry(t)
    PROVE  BlockInv'
<1>1. /\ Alone(t) /\ entries' = entries /\ pool' = pool /\ ck' = ck /\ pc'[t] # "publish"
  BY QuietStep
<1>2. elock' = elock /\ next' = next
  BY DEF ThreadStep, Call, Enter, ExpendUnlock, Expend, ExpendRelock, Reload, LockBusy,
     CheckpointEntry, LogOne, Count, StoreCell, TestSize, SetSize, CheckSize, CopyCell, Advance,
     Leave, Commit, tables
<1>3. LocalInv(t)' /\ SameHold(t)
  BY LocalStep, HoldStep
<1>4. pc'[t] = "trylock" => Reload(t)
  BY NotFound
<1>5. ASSUME pc'[t] = "trylock" PROVE loc'[t].cand = entries'[Block(loc'[t].req.off)]
  <2>1. Reload(t) /\ pc[t] = "reload" /\ pc[t] \in Finding
    BY <1>4, <1>5 DEF Reload, Finding
  <2>2. loc'[t].cand = entries[Index(t)] /\ loc'[t].req = loc[t].req
    BY <2>1, ReloadStep DEF Onward
  <2> QED
    BY <1>1, <2>1, <2>2, IndexIs DEF BlockOf
<1>6. ASSUME pc'[t] \in Holding PROVE entries'[Block(loc'[t].req.off)] = loc'[t].head
  <2>1. pc[t] \in Holding /\ loc'[t].head = loc[t].head /\ loc'[t].req = loc[t].req
    BY <1>3, <1>6 DEF SameHold
  <2>2. entries[Block(loc[t].req.off)] = loc[t].head
    BY <2>1 DEF BlockInv, SharedInv, BlockOf
  <2> QED
    BY <1>1, <2>1, <2>2
<1>7. SharedInv(t)'
  BY <1>1, <1>5, <1>6 DEF SharedInv, BlockOf
<1> QED
  BY <1>1, <1>2, <1>3, <1>7, QuietBlock

LEMMA GetEntryBlock ==
    ASSUME OneBlock, ~EagerReuse, Types, PlaceInv, BlockInv, NEW t \in Threads, GetEntry(t)
    PROVE  BlockInv'
<1>1. /\ Onward(t) /\ Alone(t) /\ pc[t] = "get" /\ pc[t] \in Finding /\ entries' = entries
      /\ ck' = ck
  BY GetEntryStep DEF Onward, GetEntry, Finding
<1>2. ThreadStep(t) /\ ~LockEntry(t) /\ ~UnlockEntry(t)
  BY <1>1 DEF ThreadStep, LockEntry, UnlockEntry
<1>3. LocalInv(t)' /\ SameHold(t) /\ Index(t) = BlockOf(t) /\ loc'[t].req = loc[t].req
  BY <1>1, <1>2, LocalStep, HoldStep, IndexIs DEF Onward
<1>4. CASE UNCHANGED tables /\ pc'[t] = "trylock" /\ loc'[t].cand = entries[Index(t)]
  <2>1. loc'[t].cand = entries'[Block(loc'[t].req.off)]
    BY <1>1, <1>3, <1>4 DEF BlockOf
  <2>2. SharedInv(t)'
    BY <1>4, <2>1 DEF SharedInv, BlockOf, Holding, Working
  <2> QED
    BY <1>1, <1>3, <1>4, <2>2, QuietBlock DEF tables
<1>5. CASE pc'[t] = "publish"
  <2>1. PICK e \in Reusable : loc'[t].cand = e /\ alloc_idx_entry(e) /\ e \in Entries /\ e \in pool
    BY <1>5, GetEntryStep
  <2>2. /\ pool' = pool \ {e} /\ \A u \in Threads : loc[u].cand # e
        /\ next' = [next EXCEPT ![e] = NULL] /\ elock' = [elock EXCEPT ![e] = Unlocked]
    BY <2>1 DEF alloc_idx_entry, Reusable
  <2>3. /\ elock'[e] = Unlocked /\ \A f \in Entries : f # e => elock'[f] = elock[f]
        /\ \A f \in Entries : next'[f] = NULL
    BY <2>1, <2>2 DEF Types, BlockInv
  <2>4. \A f \in Entries : next'[f] = NULL /\ elock'[f].rd >= 0
    BY <2>3 DEF BlockInv, Unlocked
  <2>5. ASSUME NEW f \in Entries, InTable(f)' PROVE LockInv(f)'
    <3>1. InTable(f) /\ f # e
      BY <1>1, <2>1, <2>5 DEF InTable, PlaceInv, OnePlace
    <3>2. LockInv(f) /\ (CkptHolds(f)' <=> CkptHolds(f)) /\ elock'[f] = elock[f]
      BY <1>1, <2>3, <3>1 DEF BlockInv, CkptHolds, Alone
    <3>3. \A u \in Threads : /\ HoldsRead(u, f)' <=> HoldsRead(u, f)
                             /\ HoldsWrite(u, f)' <=> HoldsWrite(u, f)
      BY <1>1, <1>3, OthersHold, HoldsSame
    <3> QED
      BY <3>2, <3>3, LockSame
  <2>6. ASSUME NEW u \in Threads PROVE LocalInv(u)' /\ SharedInv(u)'
    <3>1. CASE u = t
      <4>1. SharedInv(t)'
        BY <1>5, <2>1, <2>3 DEF SharedInv, Holding, Working
      <4> QED
        BY <1>3, <3>1, <4>1
    <3>2. CASE u # t
      <4>1. LocalInv(u) /\ SharedInv(u) /\ pc'[u] = pc[u] /\ loc'[u] = loc[u]
        BY <1>1, <3>2 DEF BlockInv, Alone
      <4>2. pc[u] = "publish" => elock'[loc[u].cand] = elock[loc[u].cand]
        BY <2>2, <2>3 DEF Types, ThreadTypes
      <4>3. loc[u].cand # e /\ pool \subseteq Entries
        BY <2>2 DEF Types
      <4>4. SharedInv(u)'
        BY <1>1, <2>2, <2>3, <4>1, <4>2, <4>3, OtherShared DEF SharedInv
      <4> QED
        BY <1>1, <3>2, <4>1, <4>4, OtherLocal
    <3> QED
      BY <3>1, <3>2
  <2> QED
    BY <2>4, <2>5, <2>6 DEF BlockInv
<1> QED
  BY <1>4, <1>5, GetEntryStep

\* Nobody holds an entry that is not in the table.
LEMMA HeldInTable ==
    ASSUME OneBlock, Types, BlockInv, NEW e, ~InTable(e), NEW t \in Threads
    PROVE  ~HoldsRead(t, e) /\ ~HoldsWrite(t, e)
<1>1. SUFFICES ASSUME pc[t] \in Holding, loc[t].head = e PROVE FALSE
  BY DEF HoldsRead, HoldsWrite
<1>2. entries[BlockOf(t)] = e /\ BlockOf(t) \in Blocks
  BY <1>1, OneBlockIs DEF BlockInv, SharedInv, Holding, Working
<1> QED
  BY <1>2 DEF InTable

LEMMA PublishBlock ==
    ASSUME OneBlock, Types, PlaceInv, BlockInv, NEW t \in Threads, Publish(t)
    PROVE  BlockInv'
<1>1. PICK e, i : e = loc[t].cand /\ i = Index(t)
  OBVIOUS
<1>2. /\ Onward(t) /\ Alone(t) /\ pc[t] = "publish" /\ pc[t] \in Finding /\ e \in Entries
      /\ i \in Blocks /\ ck' = ck /\ next' = next /\ elock' = elock /\ e # NULL
  BY <1>1, PublishStep, Constants DEF Onward, Publish, Finding
<1>3. ThreadStep(t) /\ ~LockEntry(t) /\ ~UnlockEntry(t)
  BY <1>2 DEF ThreadStep, LockEntry, UnlockEntry
<1>4. LocalInv(t)' /\ SameHold(t) /\ i = BlockOf(t) /\ loc'[t].req = loc[t].req
  BY <1>1, <1>2, <1>3, LocalStep, HoldStep, IndexIs DEF Onward
<1>5. /\ ~InTable(e) /\ elock[e] = Unlocked /\ \A u \in Threads \ {t} : loc[u].cand # e
  BY <1>1, <1>2 DEF InTable, PlaceInv, OnePlace, BlockInv, SharedInv
<1>6. \A f \in Entries : next'[f] = NULL /\ elock'[f].rd >= 0
  BY <1>2 DEF BlockInv
<1>7. ASSUME NEW f \in Entries, LockInv(f) PROVE LockInv(f)'
  <2>1. CkptHolds(f)' <=> CkptHolds(f)
    BY <1>2 DEF CkptHolds, Alone
  <2>2. \A u \in Threads : /\ HoldsRead(u, f)' <=> HoldsRead(u, f)
                           /\ HoldsWrite(u, f)' <=> HoldsWrite(u, f)
    BY <1>2, <1>4, OthersHold, HoldsSame
  <2> QED
    BY <1>2, <1>7, <2>1, <2>2, LockSame
<1>8. ASSUME NEW u \in Threads, u # t
      PROVE  /\ LocalInv(u)' /\ SharedInv(u) /\ pc'[u] = pc[u] /\ loc'[u] = loc[u]
  BY <1>2, <1>8, OtherLocal DEF BlockInv, Alone
<1>9. CASE /\ entries[i] = NULL /\ entries' = [entries EXCEPT ![i] = e] /\ pool' = pool
           /\ pc'[t] = "trylock" /\ loc'[t].cand = e
  <2>1. \A b \in Blocks : entries'[b] = IF b = i THEN e ELSE entries[b]
    BY <1>2, <1>9 DEF Types
  <2>2. LockInv(e)
    <3>1. ReadHolders(e) = {} /\ \A u \in Threads : ~HoldsWrite(u, e)
      BY <1>5, HeldInTable DEF ReadHolders
    <3>2. elock[e].rd = 0 /\ elock[e].wr = NoThread
      BY <1>5 DEF Unlocked
    <3>3. ~CkptHolds(e)
      <4>1. SUFFICES ASSUME pc[Ckpt] \in {"recheck", "free"}, ck.entry = e PROVE FALSE
        BY DEF CkptHolds
      <4>2. entries[ck.i] = e /\ ck.i \in Blocks
        BY <4>1 DEF PlaceInv, Reclaiming, Types
      <4> QED
        BY <1>5, <4>2 DEF InTable
    <3>4. Cardinality(ReadHolders(e)) = 0
      BY <3>1, FS_EmptySet
    <3> QED
      BY <3>1, <3>2, <3>3, <3>4, Constants DEF LockInv, Agents
  <2>3. ASSUME NEW f \in Entries, InTable(f)' PROVE LockInv(f)'
    <3>1. InTable(f) \/ f = e
      BY <2>1, <2>3 DEF InTable
    <3> QED
      BY <1>7, <2>2, <3>1 DEF BlockInv
  <2>4. SharedInv(t)'
    <3>1. entries'[Block(loc'[t].req.off)] = e
      BY <1>2, <1>4, <2>1 DEF BlockOf
    <3> QED
      BY <1>9, <3>1 DEF SharedInv, BlockOf, Holding, Working
  <2>5. ASSUME NEW u \in Threads, u # t PROVE SharedInv(u)'
    <3>1. SharedInv(u) /\ pc'[u] = pc[u] /\ loc'[u] = loc[u]
      BY <1>8, <2>5
    <3>2. pc[u] \in Holding \cup {"trylock"} => BlockOf(u) \in Blocks
      BY OneBlockIs DEF Holding, Working
    <3>3. ASSUME pc[u] \in Holding PROVE entries'[BlockOf(u)] = entries[BlockOf(u)]
      <4>1. entries[BlockOf(u)] = loc[u].head /\ loc[u].head \in Entries
        BY <3>1, <3>3 DEF SharedInv, BlockInv, LocalInv
      <4> QED
        BY <1>9, <2>1, <3>2, <3>3, <4>1, Constants
    <3>4. ASSUME pc[u] = "trylock"
          PROVE  \/ loc[u].cand = NULL
                 \/ entries'[BlockOf(u)] = entries[BlockOf(u)] /\ loc[u].cand = entries[BlockOf(u)]
                 \/ loc[u].cand \in pool' /\ elock'[loc[u].cand].wr # NoThread
      BY <1>2, <1>9, <2>1, <3>1, <3>2, <3>4 DEF SharedInv
    <3> QED
      BY <1>2, <3>1, <3>3, <3>4, OtherShared
  <2> QED
    BY <1>4, <1>6, <1>8, <2>3, <2>4, <2>5 DEF BlockInv
<1>10. CASE /\ entries' = entries /\ free_idx_entry(e) /\ pc'[t] = "reload"
  <2>1. pool' = pool \cup {e}
    BY <1>10 DEF free_idx_entry
  <2>2. SharedInv(t)'
    BY <1>10 DEF SharedInv, Holding, Working
  <2>3. ASSUME NEW f \in Entries, InTable(f)' PROVE LockInv(f)'
    BY <1>7, <1>10, <2>3 DEF BlockInv, InTable
  <2>4. ASSUME NEW u \in Threads, u # t PROVE SharedInv(u)'
    BY <1>2, <1>8, <1>10, <2>1, <2>4, OtherShared DEF SharedInv
  <2> QED
    BY <1>4, <1>6, <1>8, <2>2, <2>3, <2>4 DEF BlockInv
<1> QED
  BY <1>1, <1>9, <1>10, PublishStep

\* Readers keep writers out.
LEMMA ReaderInside ==
    ASSUME NEW e, LockInv(e), NEW t \in Threads, HoldsRead(t, e)
    PROVE  elock[e].rd \in Nat /\ elock[e].rd > 0 /\ elock[e].wr = NoThread
<1>1. PICK S : S = ReadHolders(e)
  OBVIOUS
<1>2. IsFiniteSet(S) /\ t \in S
  BY <1>1, HoldersFinite DEF ReadHolders
<1>3. Cardinality(S) \in Nat /\ Cardinality(S) # 0
  BY <1>2, FS_CardinalityType, FS_EmptySet
<1> QED
  BY <1>1, <1>3 DEF LockInv

LEMMA LockEntryBlock ==
    ASSUME OneBlock, Types, PlaceInv, BlockInv, NEW t \in Threads, LockEntry(t)
    PROVE  BlockInv'
<1>1. PICK e \in Entries : e = loc[t].cand
  BY LockEntryStep
<1>2. /\ Onward(t) /\ Alone(t) /\ loc'[t].head = e /\ loc'[t].req = loc[t].req
      /\ pc[t] = "trylock" /\ entries' = entries /\ pool' = pool /\ ck' = ck
      /\ next' = [next EXCEPT ![e] = loc[t].head]
  BY <1>1, LockEntryStep DEF Onward, LockEntry
<1>3. LocalInv(t)' /\ loc[t].head = NULL /\ BlockOf(t) \in Blocks
  BY <1>2, LocalStep, OneBlockIs DEF ThreadStep, BlockInv, LocalInv, Finding
<1>4. pc'[t] = IF IsWrite(t) THEN "log" ELSE "check"
  <2>1. pc'[t] # "get"
    <3>1. SUFFICES ASSUME pc'[t] = "get" PROVE FALSE
      OBVIOUS
    <3>2. loc'[t].head = NULL
      BY <1>3, <3>1 DEF LocalInv, Finding
    <3> QED
      BY <1>2, <3>2, Constants
  <2> QED
    BY <2>1, LockEntryStep
<1>5. /\ IsWrite(t) => elock[e] = Unlocked /\ elock' = WriteLocked(e, t)
      /\ ~IsWrite(t) => elock[e].wr = NoThread /\ elock' = ReadLocked(e)
  BY <1>1 DEF LockEntry, CanWrite, CanRead
<1>6. elock[e].wr = NoThread /\ (IsWrite(t) => elock[e].rd = 0)
  BY <1>5 DEF Unlocked
<1>7. entries[BlockOf(t)] = e /\ InTable(e) /\ LockInv(e) /\ e \notin pool
  <2>1. loc[t].cand \in {NULL, entries[BlockOf(t)]}
    BY <1>1, <1>2, <1>6 DEF BlockInv, SharedInv
  <2>2. entries[BlockOf(t)] = e
    BY <1>1, <2>1, Constants
  <2> QED
    BY <1>3, <2>2 DEF InTable, BlockInv, PlaceInv, OnePlace
<1>8. /\ \A f \in Entries : f # e => elock'[f] = elock[f]
      /\ IsWrite(t) => elock'[e].rd = 0 /\ elock'[e].wr = t
      /\ ~IsWrite(t) => elock'[e].rd = elock[e].rd + 1 /\ elock'[e].wr = NoThread
      /\ elock[e].rd \in Int /\ elock[e].rd >= 0
  <2>1. elock[e].rd \in Int /\ elock[e].rd >= 0 /\ t \in Agents
    BY DEF Agents, BlockInv, Types, Locks
  <2>2. CASE IsWrite(t)
    BY <1>5, <1>6, <2>1, <2>2, LockValues
  <2>3. CASE ~IsWrite(t)
    BY <1>5, <1>6, <2>1, <2>3, LockValues
  <2> QED
    BY <2>1, <2>2, <2>3
<1>9. \A f \in Entries : next'[f] = NULL /\ elock'[f].rd >= 0
  <2>1. elock'[e].rd >= 0
    BY <1>8
  <2> QED
    BY <1>2, <1>3, <1>8, <2>1 DEF BlockInv, Types
<1>10. \A f : CkptHolds(f)' <=> CkptHolds(f)
  BY <1>2 DEF CkptHolds, Alone
<1>11. \A u \in Threads : u # t =>
          \A f : /\ HoldsRead(u, f)' <=> HoldsRead(u, f)
                 /\ HoldsWrite(u, f)' <=> HoldsWrite(u, f)
  BY <1>2, OthersHold, HoldsSame
<1>12. \A f : /\ ~HoldsRead(t, f) /\ ~HoldsWrite(t, f)
              /\ HoldsRead(t, f)' <=> f = e /\ ~IsWrite(t)
              /\ HoldsWrite(t, f)' <=> f = e /\ IsWrite(t)
  <2>1. pc'[t] \in Holding /\ pc[t] \notin Holding
    BY <1>2, <1>4 DEF Holding, Working
  <2>2. loc'[t].req.kind = "write" <=> IsWrite(t)
    BY <1>2 DEF IsWrite
  <2> QED
    BY <1>2, <2>1, <2>2 DEF HoldsRead, HoldsWrite, IsWrite
<1>13. LockInv(e)'
  <2>1. \A u \in Threads : ~HoldsWrite(u, e)
    BY <1>6, <1>7, Constants DEF LockInv, Agents
  <2>2. ~CkptHolds(e)
    BY <1>6, <1>7, Constants DEF LockInv, Agents
  <2>3. CASE IsWrite(t)
    <3>1. ReadHolders(e)' = ReadHolders(e)
      BY <1>11, <1>12, <2>3 DEF ReadHolders
    <3>2. \A u \in Threads : elock'[e].wr = u <=> HoldsWrite(u, e)'
      BY <1>8, <1>11, <1>12, <2>1, <2>3
    <3>3. elock'[e].rd = Cardinality(ReadHolders(e)')
      BY <1>6, <1>7, <1>8, <2>3, <3>1 DEF LockInv
    <3>4. elock'[e].wr = Ckpt <=> CkptHolds(e)'
      BY <1>8, <1>10, <2>2, <2>3, Constants
    <3> QED
      BY <1>8, <2>3, <3>2, <3>3, <3>4 DEF LockInv
  <2>4. CASE ~IsWrite(t)
    <3>1. ReadHolders(e)' = ReadHolders(e) \cup {t} /\ t \notin ReadHolders(e)
      BY <1>11, <1>12, <2>4 DEF ReadHolders
    <3>2. PICK S : S = ReadHolders(e)
      OBVIOUS
    <3>3. IsFiniteSet(S) /\ t \notin S
      BY <3>1, <3>2, HoldersFinite
    <3>4. Cardinality(S \cup {t}) = Cardinality(S) + 1
      BY <3>3, FS_AddElement
    <3>5. elock'[e].rd = Cardinality(ReadHolders(e)')
      BY <1>7, <1>8, <2>4, <3>1, <3>2, <3>4 DEF LockInv
    <3>6. \A u \in Threads : elock'[e].wr = u <=> HoldsWrite(u, e)'
      BY <1>8, <1>11, <1>12, <2>1, <2>4, Constants DEF Agents
    <3>7. elock'[e].wr = Ckpt <=> CkptHolds(e)'
      BY <1>8, <1>10, <2>2, <2>4, Constants DEF Agents
    <3> QED
      BY <1>8, <2>4, <3>5, <3>6, <3>7 DEF LockInv
  <2> QED
    BY <2>3, <2>4
<1>14. ASSUME NEW f \in Entries, InTable(f)' PROVE LockInv(f)'
  <2>1. CASE f # e
    <3>1. LockInv(f)
      BY <1>2, <1>14 DEF InTable, BlockInv
    <3>2. \A u \in Threads : /\ HoldsRead(u, f)' <=> HoldsRead(u, f)
                             /\ HoldsWrite(u, f)' <=> HoldsWrite(u, f)
      BY <1>11, <1>12, <2>1
    <3> QED
      BY <1>8, <1>10, <2>1, <3>1, <3>2, LockSame
  <2> QED
    BY <1>13, <2>1
<1>15. SharedInv(t)'
  <2>1. entries'[Block(loc'[t].req.off)] = loc'[t].head
    BY <1>2, <1>7 DEF BlockOf
  <2> QED
    BY <1>4, <2>1 DEF SharedInv, BlockOf
<1>16. ASSUME NEW u \in Threads, u # t PROVE LocalInv(u)' /\ SharedInv(u)'
  <2>1. LocalInv(u) /\ SharedInv(u) /\ pc'[u] = pc[u] /\ loc'[u] = loc[u]
    BY <1>2, <1>16 DEF BlockInv, Alone
  <2>2. pc[u] = "publish" => elock'[loc[u].cand] = elock[loc[u].cand]
    <3>1. pc[u] = "publish" => loc[u].cand \in Entries /\ loc[u].cand # e
      BY <1>7 DEF PlaceInv, OnePlace, InTable, Types, ThreadTypes
    <3> QED
      BY <1>8, <3>1
  <2>3. loc[u].cand \in pool => elock'[loc[u].cand] = elock[loc[u].cand]
    BY <1>7, <1>8 DEF Types
  <2>4. SharedInv(u)'
    BY <1>2, <2>1, <2>2, <2>3, OtherShared DEF SharedInv
  <2> QED
    BY <1>2, <1>16, <2>1, <2>4, OtherLocal
<1> QED
  BY <1>3, <1>9, <1>14, <1>15, <1>16 DEF BlockInv

LEMMA UnlockEntryBlock ==
    ASSUME OneBlock, Types, PlaceInv, BlockInv, NEW t \in Threads, UnlockEntry(t)
    PROVE  BlockInv'
<1>0. pc[t] = "unlock" /\ pc[t] \in Working /\ pc[t] \in Holding
  BY DEF UnlockEntry, Working, Holding
<1>1. PICK e \in Entries : e = loc[t].cur /\ e = loc[t].head
  BY <1>0, CurIn DEF BlockInv, LocalInv
<1>2. /\ Onward(t) /\ Alone(t) /\ loc'[t] = loc[t] /\ pc'[t] = "advance"
      /\ entries' = entries /\ pool' = pool /\ ck' = ck /\ next' = next
      /\ elock' = Released(e)
  BY <1>1, MovingStep DEF Onward, UnlockEntry, Moving
<1>3. LocalInv(t)' /\ BlockOf(t) \in Blocks
  BY <1>0, LocalStep, OneBlockIs DEF ThreadStep
<1>4. entries[BlockOf(t)] = e /\ InTable(e) /\ LockInv(e) /\ e \notin pool
  BY <1>0, <1>1, <1>3 DEF BlockInv, SharedInv, InTable, PlaceInv, OnePlace
<1>5. /\ IsWrite(t) => HoldsWrite(t, e) /\ elock[e].wr = t /\ elock[e].rd = 0
      /\ ~IsWrite(t) => HoldsRead(t, e) /\ elock[e].wr = NoThread /\ elock[e].rd > 0
      /\ t # NoThread
  BY <1>0, <1>1, <1>4, ReaderInside, Constants DEF HoldsWrite, HoldsRead, LockInv, Agents
<1>6. /\ \A f \in Entries : f # e => elock'[f] = elock[f]
      /\ elock'[e].wr = NoThread /\ elock[e].rd \in Int
      /\ IsWrite(t) => elock'[e].rd = elock[e].rd
      /\ ~IsWrite(t) => elock'[e].rd = elock[e].rd - 1
  <2>1. elock[e].rd \in Int /\ t \in Agents
    BY DEF Agents, Types, Locks
  <2>2. CASE IsWrite(t)
    BY <1>2, <1>5, <2>1, <2>2, LockValues
  <2>3. CASE ~IsWrite(t)
    BY <1>2, <1>5, <2>1, <2>3, LockValues
  <2> QED
    BY <2>2, <2>3
<1>7. \A f \in Entries : next'[f] = NULL /\ elock'[f].rd >= 0
  <2>1. elock'[e].rd >= 0
    BY <1>5, <1>6
  <2> QED
    BY <1>2, <1>6, <2>1 DEF BlockInv
<1>8. \A f : CkptHolds(f)' <=> CkptHolds(f)
  BY <1>2 DEF CkptHolds, Alone
<1>9. \A u \in Threads : u # t =>
          \A f : /\ HoldsRead(u, f)' <=> HoldsRead(u, f)
                 /\ HoldsWrite(u, f)' <=> HoldsWrite(u, f)
  BY <1>2, OthersHold, HoldsSame
<1>10. \A f : /\ ~HoldsRead(t, f)' /\ ~HoldsWrite(t, f)'
              /\ f # e => ~HoldsRead(t, f) /\ ~HoldsWrite(t, f)
  BY <1>1, <1>2 DEF HoldsRead, HoldsWrite, Holding, Working
<1>11. LockInv(e)'
  <2>1. \A u \in Threads : ~HoldsWrite(u, e)'
    BY <1>4, <1>5, <1>9, <1>10, Constants DEF LockInv, Agents
  <2>2. ~CkptHolds(e)
    BY <1>4, <1>5, Constants DEF LockInv, Agents
  <2>3. elock'[e].rd = Cardinality(ReadHolders(e)')
    <3>1. CASE IsWrite(t)
      <4>1. ReadHolders(e)' = ReadHolders(e)
        <5>1. ~HoldsRead(t, e)
          BY <3>1 DEF HoldsRead
        <5> QED
          BY <1>9, <1>10, <5>1 DEF ReadHolders
      <4> QED
        BY <1>4, <1>6, <3>1, <4>1 DEF LockInv
    <3>2. CASE ~IsWrite(t)
      <4>1. ReadHolders(e)' = ReadHolders(e) \ {t} /\ t \in ReadHolders(e)
        BY <1>5, <1>9, <1>10, <3>2 DEF ReadHolders
      <4>2. PICK S : S = ReadHolders(e)
        OBVIOUS
      <4>3. IsFiniteSet(S) /\ t \in S
        BY <4>1, <4>2, HoldersFinite
      <4>4. Cardinality(S \ {t}) = Cardinality(S) - 1
        BY <4>3, FS_RemoveElement
      <4> QED
        BY <1>4, <1>6, <3>2, <4>1, <4>2, <4>4 DEF LockInv
    <3> QED
      BY <3>1, <3>2
  <2> QED
    BY <1>6, <1>8, <2>1, <2>2, <2>3, Constants DEF LockInv, Agents
<1>12. ASSUME NEW f \in Entries, InTable(f)' PROVE LockInv(f)'
  <2>1. CASE f # e
    <3>1. LockInv(f)
      BY <1>2, <1>12 DEF InTable, BlockInv
    <3>2. \A u \in Threads : /\ HoldsRead(u, f)' <=> HoldsRead(u, f)
                             /\ HoldsWrite(u, f)' <=> HoldsWrite(u, f)
      BY <1>9, <1>10, <2>1
    <3> QED
      BY <1>6, <1>8, <2>1, <3>1, <3>2, LockSame
  <2> QED
    BY <1>11, <2>1
<1>13. SharedInv(t)'
  BY <1>2 DEF SharedInv, Holding, Working
<1>14. ASSUME NEW u \in Threads, u # t PROVE LocalInv(u)' /\ SharedInv(u)'
  <2>1. LocalInv(u) /\ SharedInv(u) /\ pc'[u] = pc[u] /\ loc'[u] = loc[u]
    BY <1>2, <1>14 DEF BlockInv, Alone
  <2>2. pc[u] = "publish" => elock'[loc[u].cand] = elock[loc[u].cand]
    <3>1. pc[u] = "publish" => loc[u].cand \in Entries /\ loc[u].cand # e
      BY <1>4 DEF PlaceInv, OnePlace, InTable, Types, ThreadTypes
    <3> QED
      BY <1>6, <3>1
  <2>3. loc[u].cand \in pool => elock'[loc[u].cand] = elock[loc[u].cand]
    BY <1>4, <1>6 DEF Types
  <2>4. SharedInv(u)'
    BY <1>2, <2>1, <2>2, <2>3, OtherShared DEF SharedInv
  <2> QED
    BY <1>2, <1>14, <2>1, <2>4, OtherLocal
<1> QED
  BY <1>3, <1>7, <1>12, <1>13, <1>14 DEF BlockInv

\* A step of the checkpoint thread moves no thread.
LEMMA CkptThreads ==
    ASSUME CkptAlone, loc' = loc, NEW u \in Threads
    PROVE  /\ pc'[u] = pc[u] /\ loc'[u] = loc[u] /\ SameHold(u)
           /\ LocalInv(u) => LocalInv(u)'
BY DEF CkptAlone, SameHold, LocalInv, IsWrite

\* It may take or give back the lock of an entry in the table.
LEMMA CkptTables ==
    ASSUME Types, PlaceInv, BlockInv, CkptAlone, loc' = loc, entries' = entries, pool' = pool,
           next' = next,
           \A f \in Entries : /\ elock'[f].rd >= 0
                              /\ ~InTable(f) => elock'[f] = elock[f]
                              /\ InTable(f) => LockInv(f)'
    PROVE  BlockInv'
<1>1. \A f \in Entries : next'[f] = NULL /\ elock'[f].rd >= 0
  BY DEF BlockInv
<1>2. ASSUME NEW f \in Entries, InTable(f)' PROVE LockInv(f)'
  BY <1>2 DEF InTable
<1>3. ASSUME NEW u \in Threads PROVE LocalInv(u)' /\ SharedInv(u)'
  <2>1. SharedInv(u) /\ LocalInv(u)' /\ pc'[u] = pc[u] /\ loc'[u] = loc[u]
    BY CkptThreads DEF BlockInv
  <2>2. pc[u] = "publish" => loc[u].cand \in Entries /\ ~InTable(loc[u].cand)
    BY DEF PlaceInv, OnePlace, InTable, Types, ThreadTypes
  <2>3. loc[u].cand \in pool => loc[u].cand \in Entries /\ ~InTable(loc[u].cand)
    BY DEF PlaceInv, OnePlace, InTable, Types
  <2>4. /\ pc[u] = "publish" => elock'[loc[u].cand] = elock[loc[u].cand]
        /\ loc[u].cand \in pool => elock'[loc[u].cand] = elock[loc[u].cand]
    BY <2>2, <2>3
  <2> QED
    BY <2>1, <2>4, OtherShared DEF SharedInv
<1> QED
  BY <1>1, <1>2, <1>3 DEF BlockInv

LEMMA CkptLockIs ==
    ASSUME Types, BlockInv, CkptAlone, loc' = loc, NEW f \in Entries, InTable(f),
           elock'[f] = elock[f], CkptHolds(f)' <=> CkptHolds(f)
    PROVE  LockInv(f)'
<1>1. \A u \in Threads : /\ HoldsRead(u, f)' <=> HoldsRead(u, f)
                         /\ HoldsWrite(u, f)' <=> HoldsWrite(u, f)
  BY CkptThreads, HoldsSame
<1> QED
  BY <1>1, LockSame DEF BlockInv

\* The checkpoint thread looks around without a lock of an entry, or goes on
\* to free the one it has locked.
LEMMA CkptLooks ==
    ASSUME Types, PlaceInv, BlockInv, CkptAlone, loc' = loc, UNCHANGED <<entries, next, elock, pool>>,
           \A f \in Entries : CkptHolds(f)' <=> CkptHolds(f)
    PROVE  BlockInv'
<1>1. \A f \in Entries : elock'[f].rd >= 0 /\ elock'[f] = elock[f]
  BY DEF BlockInv
<1>2. \A f \in Entries : InTable(f) => LockInv(f)'
  BY CkptLockIs
<1> QED
  BY <1>1, <1>2, CkptTables

\* The entry it is about to lock, apply or free.
LEMMA Reclaimed ==
    ASSUME Types, PlaceInv, BlockInv, pc[Ckpt] \in {"lock", "recheck", "free"}
    PROVE  /\ ck.entry \in Entries /\ ck.i \in Blocks /\ entries[ck.i] = ck.entry
           /\ ck.entry \notin pool /\ InTable(ck.entry) /\ LockInv(ck.entry)
           /\ elock[ck.entry].rd \in Int /\ elock[ck.entry].rd >= 0
           /\ pc[Ckpt] # "lock" => /\ elock[ck.entry].wr = Ckpt /\ elock[ck.entry].rd = 0
                                   /\ \A u \in Threads : /\ ~HoldsRead(u, ck.entry)
                                                         /\ ~HoldsWrite(u, ck.entry)
<1>1. PICK e : e = ck.entry
  OBVIOUS
<1>2. e \in Entries /\ ck.i \in Blocks /\ entries[ck.i] = e
  BY <1>1 DEF Types, PlaceInv, Reclaiming
<1>3. InTable(e) /\ LockInv(e) /\ e \notin pool
  BY <1>2 DEF InTable, BlockInv, PlaceInv, OnePlace
<1>4. elock[e].rd \in Int /\ elock[e].rd >= 0
  BY <1>2 DEF Types, Locks, BlockInv
<1>5. ASSUME pc[Ckpt] # "lock"
      PROVE  /\ elock[e].wr = Ckpt /\ elock[e].rd = 0
             /\ \A u \in Threads : ~HoldsRead(u, e) /\ ~HoldsWrite(u, e)
  <2>1. elock[e].wr = Ckpt /\ Ckpt # NoThread /\ Ckpt \notin Threads
    BY <1>1, <1>3, <1>5, Constants DEF LockInv, CkptHolds
  <2>2. elock[e].rd = 0 /\ \A u \in Threads : ~HoldsWrite(u, e)
    BY <1>3, <2>1 DEF LockInv
  <2>3. \A u \in Threads : ~HoldsRead(u, e)
    BY <1>3, <2>1, ReaderInside
  <2> QED
    BY <2>1, <2>2, <2>3
<1> QED
  BY <1>1, <1>2, <1>3, <1>4, <1>5

LEMMA CkptLockBlock ==
    ASSUME Types, PlaceInv, BlockInv, CkptLock
    PROVE  BlockInv'
<1>1. /\ CkptAlone /\ loc' = loc /\ entries' = entries /\ pool' = pool /\ next' = next
      /\ pc[Ckpt] = "lock"
  BY CkptStepIs DEF CkptStep, CkptLock
<1>2. CASE NextIndex /\ UNCHANGED elock
  <2>1. \A f \in Entries : ~CkptHolds(f)' /\ ~CkptHolds(f)
    BY <1>1, <1>2, NextIndexOut DEF CkptHolds
  <2> QED
    BY <1>1, <1>2, <2>1, CkptLooks
<1>3. CASE ~(NextIndex /\ UNCHANGED elock)
  <2>1. PICK e : e = ck.entry
    OBVIOUS
  <2>2. /\ elock[e] = Unlocked /\ elock' = WriteLocked(e, Ckpt) /\ ck' = ck
        /\ pc' = [pc EXCEPT ![Ckpt] = "recheck"]
    BY <1>3, <2>1 DEF CkptLock, CanWrite, Goto
  <2>3. e \in Entries /\ LockInv(e) /\ InTable(e) /\ Ckpt \in Agents /\ pc'[Ckpt] = "recheck"
    BY <1>1, <2>1, <2>2, Reclaimed, Constants DEF Types
  <2>4. /\ elock[e].wr = NoThread /\ elock[e].rd = 0
        /\ elock'[e].wr = Ckpt /\ elock'[e].rd = 0
        /\ \A f \in Entries : f # e => elock'[f] = elock[f]
    BY <2>2, <2>3, LockValues
  <2>5. \A f \in Entries : /\ ~CkptHolds(f)
                           /\ CkptHolds(f)' <=> f = e
    BY <1>1, <2>1, <2>2, <2>3 DEF CkptHolds
  <2>6. \A u \in Threads : /\ HoldsRead(u, e)' <=> HoldsRead(u, e)
                           /\ HoldsWrite(u, e)' <=> HoldsWrite(u, e)
    BY <1>1, CkptThreads, HoldsSame
  <2>7. LockInv(e)'
    <3>1. ReadHolders(e)' = ReadHolders(e)
      BY <2>6 DEF ReadHolders
    <3>2. \A u \in Threads : ~HoldsWrite(u, e)' /\ u # Ckpt
      BY <2>3, <2>4, <2>6, Constants DEF LockInv, Agents
    <3> QED
      BY <2>3, <2>4, <2>5, <3>1, <3>2 DEF LockInv
  <2>8. ASSUME NEW f \in Entries
        PROVE  /\ elock'[f].rd >= 0
               /\ ~InTable(f) => elock'[f] = elock[f]
               /\ InTable(f) => LockInv(f)'
    <3>1. CASE f = e
      BY <2>3, <2>4, <2>7, <3>1
    <3>2. CASE f # e
      BY <1>1, <2>4, <2>5, <3>2, CkptLockIs DEF BlockInv
    <3> QED
      BY <3>1, <3>2
  <2> QED
    BY <1>1, <2>8, CkptTables
<1> QED
  BY <1>2, <1>3

LEMMA CkptApplyBlock ==
    ASSUME Types, PlaceInv, BlockInv, CkptApply
    PROVE  BlockInv'
<1>1. /\ CkptAlone /\ loc' = loc /\ entries' = entries /\ pool' = pool /\ next' = next
      /\ pc[Ckpt] = "recheck"
  BY CkptStepIs DEF CkptStep, CkptApply
<1>2. CASE Goto(Ckpt, "free") /\ UNCHANGED <<elock, ck>>
  <2>1. pc'[Ckpt] = "free"
    BY <1>2, Constants DEF Goto, Types
  <2>2. \A f \in Entries : CkptHolds(f)' <=> CkptHolds(f)
    BY <1>1, <1>2, <2>1 DEF CkptHolds
  <2> QED
    BY <1>1, <1>2, <2>2, CkptLooks
<1>3. CASE elock' = Released(ck.entry) /\ NextIndex
  <2>1. PICK e : e = ck.entry
    OBVIOUS
  <2>2. /\ e \in Entries /\ LockInv(e) /\ InTable(e) /\ elock[e].wr = Ckpt /\ elock[e].rd = 0
        /\ \A u \in Threads : ~HoldsRead(u, e) /\ ~HoldsWrite(u, e)
    BY <1>1, <2>1, Reclaimed
  <2>3. /\ elock'[e].wr = NoThread /\ elock'[e].rd = 0
        /\ \A f \in Entries : f # e => elock'[f] = elock[f]
    BY <1>3, <2>1, <2>2, LockValues, Constants
  <2>4. \A f \in Entries : /\ ~CkptHolds(f)'
                           /\ CkptHolds(f) <=> f = e
    BY <1>1, <1>3, <2>1, NextIndexOut DEF CkptHolds
  <2>5. \A u \in Threads : /\ HoldsRead(u, e)' <=> HoldsRead(u, e)
                           /\ HoldsWrite(u, e)' <=> HoldsWrite(u, e)
    BY <1>1, CkptThreads, HoldsSame
  <2>6. LockInv(e)'
    <3>1. ReadHolders(e)' = {}
      BY <2>2, <2>5 DEF ReadHolders
    <3>2. Cardinality(ReadHolders(e)') = 0
      BY <3>1, FS_EmptySet
    <3> QED
      BY <2>2, <2>3, <2>4, <2>5, <3>2, Constants DEF LockInv, Agents
  <2>7. ASSUME NEW f \in Entries
        PROVE  /\ elock'[f].rd >= 0
               /\ ~InTable(f) => elock'[f] = elock[f]
               /\ InTable(f) => LockInv(f)'
    <3>1. CASE f = e
      BY <2>2, <2>3, <2>6, <3>1
    <3>2. CASE f # e
      BY <1>1, <2>3, <2>4, <3>2, CkptLockIs DEF BlockInv
    <3> QED
      BY <3>1, <3>2
  <2> QED
    BY <1>1, <2>7, CkptTables
<1> QED
  BY <1>2, <1>3 DEF CkptApply

LEMMA CkptFreeBlock ==
    ASSUME OneBlock, Types, PlaceInv, BlockInv, CkptFree
    PROVE  BlockInv'
<1>1. PICK e, i : e = ck.entry /\ i = ck.i
  OBVIOUS
<1>2. /\ CkptAlone /\ loc' = loc /\ pc[Ckpt] = "free" /\ NextIndex /\ next' = next
      /\ elock' = elock /\ pool' = pool \cup {e} /\ entries' = [entries EXCEPT ![i] = NULL]
  BY <1>1, CkptStepIs DEF CkptStep, CkptFree, OutOfTable, free_idx_entry
<1>3. /\ e \in Entries /\ i \in Blocks /\ entries[i] = e /\ elock[e].wr = Ckpt
      /\ \A u \in Threads : ~HoldsRead(u, e) /\ ~HoldsWrite(u, e)
      /\ Ckpt # NoThread
  BY <1>1, <1>2, Reclaimed, Constants
<1>4. \A b \in Blocks : entries'[b] = IF b = i THEN NULL ELSE entries[b]
  BY <1>2, <1>3 DEF Types
<1>5. ASSUME NEW f \in Entries, InTable(f)' PROVE LockInv(f)'
  <2>1. InTable(f) /\ f # e
    <3>1. PICK b \in Blocks : entries'[b] = f
      BY <1>5 DEF InTable
    <3>2. b # i /\ entries[b] = f
      BY <1>4, <3>1, Constants
    <3> QED
      BY <1>3, <3>2, Constants DEF InTable, PlaceInv, OnePlace
  <2>2. ~CkptHolds(f)' /\ ~CkptHolds(f)
    BY <1>1, <1>2, <2>1, NextIndexOut DEF CkptHolds
  <2> QED
    BY <1>2, <2>1, <2>2, CkptLockIs
<1>6. ASSUME NEW u \in Threads PROVE LocalInv(u)' /\ SharedInv(u)'
  <2>1. SharedInv(u) /\ LocalInv(u)' /\ pc'[u] = pc[u] /\ loc'[u] = loc[u]
    BY <1>2, CkptThreads DEF BlockInv
  <2>2. pc[u] \in Holding \cup {"trylock"} => BlockOf(u) \in Blocks
    BY OneBlockIs DEF Holding, Working
  <2>3. ASSUME pc[u] \in Holding PROVE entries'[BlockOf(u)] = entries[BlockOf(u)]
    <3>1. entries[BlockOf(u)] = loc[u].head
      BY <2>1, <2>3 DEF SharedInv
    <3>2. loc[u].head # e
      BY <1>3, <2>3 DEF HoldsRead, HoldsWrite
    <3> QED
      BY <1>3, <1>4, <2>2, <2>3, <3>1, <3>2
  <2>4. ASSUME pc[u] = "trylock"
        PROVE  \/ loc[u].cand = NULL
               \/ entries'[BlockOf(u)] = entries[BlockOf(u)] /\ loc[u].cand = entries[BlockOf(u)]
               \/ loc[u].cand \in pool' /\ elock'[loc[u].cand].wr # NoThread
    BY <1>2, <1>3, <1>4, <2>1, <2>2, <2>4 DEF SharedInv
  <2> QED
    BY <1>2, <2>1, <2>3, <2>4, OtherShared
<1> QED
  BY <1>2, <1>5, <1>6 DEF BlockInv

LEMMA CkptBlock ==
    ASSUME OneBlock, Types, PlaceInv, BlockInv, CkptStep
    PROVE  BlockInv'
<1>1. CASE CkptWake \/ CkptTry \/ CkptScan
  <2>1. CkptAlone /\ loc' = loc /\ UNCHANGED <<entries, next, elock, pool>>
    BY <1>1, CkptStepIs DEF CkptWake, CkptTry, CkptScan, tables
  <2>2. pc[Ckpt] \notin {"recheck", "free"} /\ pc'[Ckpt] \notin {"recheck", "free"}
    <3>1. CASE CkptScan /\ NextIndex
      BY <3>1, NextIndexOut DEF CkptScan
    <3>2. CASE ~(CkptScan /\ NextIndex)
      <4>1. PICK to \in {"try", "scan", "idle", "lock"} : pc' = [pc EXCEPT ![Ckpt] = to]
        BY <1>1, <3>2 DEF CkptWake, CkptTry, CkptScan, Goto
      <4> QED
        BY <1>1, <4>1, Constants DEF Types, CkptWake, CkptTry, CkptScan
    <3> QED
      BY <3>1, <3>2
  <2>3. \A f \in Entries : CkptHolds(f)' <=> CkptHolds(f)
    BY <2>2 DEF CkptHolds
  <2> QED
    BY <2>1, <2>3, CkptLooks
<1> QED
  BY <1>1, CkptLockBlock, CkptApplyBlock, CkptFreeBlock DEF CkptStep

LEMMA BlockInit == Init => BlockInv
<1>1. SUFFICES ASSUME Init PROVE BlockInv
  OBVIOUS
<1>2. \A e \in Entries : next[e] = NULL /\ elock[e] = Unlocked /\ elock[e].rd >= 0
  BY <1>1 DEF Init, Unlocked
<1>3. \A t \in Threads : pc[t] = "idle"
  BY <1>1 DEF Init, Agents
<1>4. \A t \in Threads : LocalInv(t) /\ SharedInv(t)
  BY <1>3 DEF LocalInv, SharedInv, Entering, Finding, Working, Holding
<1>5. \A e \in Entries : ~InTable(e)
  BY <1>1, Constants DEF Init, InTable
<1> QED
  BY <1>2, <1>4, <1>5 DEF BlockInv

LEMMA BlockNext ==
    ASSUME OneBlock, ~EagerReuse, Types, PlaceInv, BlockInv, [Next]_vars
    PROVE  BlockInv'
<1>1. ASSUME NEW t \in Threads, Call(t) \/ ThreadStep(t) PROVE BlockInv'
  <2>1. CASE GetEntry(t) \/ Publish(t) \/ LockEntry(t) \/ UnlockEntry(t)
    BY <2>1, GetEntryBlock, PublishBlock, LockEntryBlock, UnlockEntryBlock
  <2> QED
    BY <1>1, <2>1, QuietStepBlock
<1>2. CASE UNCHANGED vars
  <2>1. UNCHANGED <<pc, loc, ck, entries, next, elock, pool>>
    BY <1>2 DEF vars, tables
  <2>2. \A f \in Entries : InTable(f)' <=> InTable(f)
    BY <2>1 DEF InTable
  <2>3. \A u \in Threads : SameHold(u)
    BY <2>1 DEF SameHold
  <2>4. \A f \in Entries : InTable(f) => LockInv(f)'
    BY <2>1, <2>3, HoldsSame, LockSame DEF BlockInv, CkptHolds
  <2>5. \A u \in Threads : LocalInv(u)' /\ SharedInv(u)'
    BY <2>1 DEF BlockInv, LocalInv, SharedInv, IsWrite, BlockOf
  <2> QED
    BY <2>1, <2>2, <2>4, <2>5 DEF BlockInv
<1> QED
  BY <1>1, <1>2, CkptBlock DEF Next

-----------------------------------------------------------------------------
(* Calls within one block: what the locks guarantee.                        *)

\* The entries, the lists of the threads and the locks have their types, and a
\* lock is never released more often than it was taken.
THEOREM TypeCorrect ==
    ASSUME OneBlock, ~EagerReuse
    PROVE  Spec => []TypeOK
<1> DEFINE Inv == Types /\ PlaceInv /\ BlockInv
<1>1. Init => Inv
  BY TypesInit, PlaceInit, BlockInit
<1>2. OneBlock /\ ~EagerReuse /\ Inv /\ [Next]_vars => Inv'
  BY TypesNext, PlaceNext, BlockNext
<1>3. ASSUME Inv PROVE TypeOK
  <2>1. \A e \in Entries : elock[e].rd \in Nat /\ elock[e].wr \in Agents \cup {NoThread}
    BY <1>3 DEF Types, BlockInv, Locks
  <2>2. \A t \in Threads : {loc[t].head, loc[t].cand, loc[t].cur} \subseteq Entries \cup {NULL}
    <3>1. \A t \in Threads : IsLocals(loc[t])
      BY <1>3 DEF Types, ThreadTypes
    <3>2. ASSUME NEW l, IsLocals(l) PROVE {l.head, l.cand, l.cur} \subseteq Entries \cup {NULL}
      BY <3>2 DEF IsLocals, MaybeEntry
    <3> QED
      BY <3>1, <3>2
  <2>3. DOMAIN file = Positions /\ policy \in {"UNDO", "REDO"}
    BY <1>3, Constants DEF Types
  <2> QED
    BY <1>3, <2>1, <2>2, <2>3 DEF TypeOK, Types, MaybeEntry, Outside
<1> HIDE DEF Inv
<1> QED
  BY <1>1, <1>2, <1>3, PTL DEF Spec

\* A thread that performs its call holds the entry that the table has for the
\* block: nobody else can have it for writing, and neither a lost race of
\* get_log_entry nor the checkpoint thread puts another one in its place.
THEOREM EntriesLocked ==
    ASSUME OneBlock, ~EagerReuse
    PROVE  Spec => []LockedEntries
<1> DEFINE Inv == Types /\ PlaceInv /\ BlockInv
<1>1. Init => Inv
  BY TypesInit, PlaceInit, BlockInit
<1>2. OneBlock /\ ~EagerReuse /\ Inv /\ [Next]_vars => Inv'
  BY TypesNext, PlaceNext, BlockNext
<1>3. OneBlock /\ Inv => LockedEntries
  <2>1. SUFFICES ASSUME OneBlock, Inv, NEW t \in Threads, pc[t] \in Performing,
                        NEW b \in Span(loc[t].req)
                 PROVE  /\ entries[b] # NULL
                        /\ IF IsWrite(t) THEN elock[entries[b]] = [rd |-> 0, wr |-> t]
                           ELSE elock[entries[b]].rd > 0 /\ elock[entries[b]].wr = NoThread
    BY DEF LockedEntries
  <2>2. pc[t] \in Holding
    BY <2>1 DEF Performing, Holding, Working
  <2>3. b = BlockOf(t) /\ b \in Blocks
    BY <2>1, OneBlockIs DEF Performing
  <2>4. PICK e \in Entries : entries[b] = e /\ loc[t].head = e
    BY <2>1, <2>2, <2>3 DEF BlockInv, LocalInv, SharedInv
  <2>5. LockInv(e) /\ e # NULL /\ elock[e] \in Locks
    BY <2>1, <2>3, <2>4, Constants DEF BlockInv, InTable, Types
  <2>6. CASE IsWrite(t)
    <3>1. elock[e].wr = t /\ t # NoThread
      BY <2>2, <2>4, <2>5, <2>6, Constants DEF HoldsWrite, LockInv, Agents
    <3>2. elock[e].rd = 0
      BY <2>5, <3>1 DEF LockInv
    <3>3. elock[e] = [rd |-> 0, wr |-> t]
      BY <2>5, <3>1, <3>2 DEF Locks
    <3> QED
      BY <2>4, <2>5, <2>6, <3>3
  <2>7. CASE ~IsWrite(t)
    BY <2>2, <2>4, <2>5, <2>7, ReaderInside DEF HoldsRead
  <2> QED
    BY <2>6, <2>7
<1> HIDE DEF Inv
<1> QED
  BY <1>1, <1>2, <1>3, PTL DEF Spec

\* When nobody is inside the library, no entry in the table is locked: every
\* path of mmio_write, mmio_read and the checkpoint thread gives back what it
\* took, or takes the entry out of the table.
THEOREM LocksGivenBack ==
    ASSUME OneBlock, ~EagerReuse
    PROVE  Spec => []NoLockLeft
<1> DEFINE Inv == Types /\ PlaceInv /\ BlockInv
<1>1. Init => Inv
  BY TypesInit, PlaceInit, BlockInit
<1>2. OneBlock /\ ~EagerReuse /\ Inv /\ [Next]_vars => Inv'
  BY TypesNext, PlaceNext, BlockNext
<1>3. Inv => NoLockLeft
  <2>1. SUFFICES ASSUME Inv, \A a \in Agents : pc[a] = "idle", NEW b \in Blocks, entries[b] # NULL
                 PROVE  elock[entries[b]] = Unlocked
    BY DEF NoLockLeft
  <2>2. PICK e \in Entries : entries[b] = e
    BY <2>1 DEF Types, MaybeEntry
  <2>3. LockInv(e) /\ elock[e] \in Locks
    BY <2>1, <2>2 DEF BlockInv, InTable, Types
  <2>4. \A t \in Threads : ~HoldsRead(t, e) /\ ~HoldsWrite(t, e)
    BY <2>1 DEF HoldsRead, HoldsWrite, Holding, Working, Agents
  <2>5. ~CkptHolds(e)
    BY <2>1 DEF CkptHolds, Agents
  <2>6. ReadHolders(e) = {}
    BY <2>4 DEF ReadHolders
  <2>7. elock[e].rd = 0
    BY <2>3, <2>6, FS_EmptySet DEF LockInv
  <2>8. elock[e].wr = NoThread
    BY <2>3, <2>4, <2>5 DEF LockInv, Locks, Agents
  <2> QED
    BY <2>2, <2>3, <2>7, <2>8 DEF Locks, Unlocked
<1> HIDE DEF Inv
<1> QED
  BY <1>1, <1>2, <1>3, PTL DEF Spec

-----------------------------------------------------------------------------
(* Calls within one block: the file size.                                   *)

\* Two threads cannot both be about to set the size: in one block the write
\* lock is in between, and of two blocks the later one starts within the file
\* only when the earlier one does not grow it.
LEMMA OneSetsSize ==
    ASSUME OneBlock, Types, BlockInv, SizeInv, NEW t \in Threads, NEW u \in Threads,
           pc[t] = "setsize", pc[u] = "setsize"
    PROVE  t = u
<1>1. PICK b, c, r, s : b = BlockOf(t) /\ c = BlockOf(u) /\ r = loc[t].req /\ s = loc[u].req
  OBVIOUS
<1>2. /\ b \in Blocks /\ c \in Blocks /\ End(r) <= Base(b + 1) /\ End(s) <= Base(c + 1)
      /\ r.off \in Positions /\ s.off \in Positions /\ b = Block(r.off) /\ c = Block(s.off)
      /\ End(r) \in Nat /\ End(s) \in Nat /\ r.off \in Nat /\ s.off \in Nat
  BY <1>1, OneBlockIs, Asked, Constants DEF BlockOf
<1>3. /\ fsize \in Nat /\ r.off <= fsize /\ fsize < End(r) /\ s.off <= fsize /\ fsize < End(s)
  BY <1>1 DEF SizeInv, SizeOf, Types
<1>4. Base(b) <= r.off /\ Base(c) <= s.off
  BY <1>2, BlockIs
<1>5. b = c
  <2>1. ASSUME NEW i \in Nat, NEW j \in Nat, i < j PROVE Base(i + 1) <= Base(j) /\ Base(j) \in Int
    BY <2>1, Product, Constants DEF Base
  <2>2. b \in Nat /\ c \in Nat /\ Base(b + 1) \in Int /\ Base(c + 1) \in Int
    BY <1>2, Constants DEF Blocks, Base
  <2>3. ~(b < c)
    BY <1>2, <1>3, <1>4, <2>1, <2>2
  <2>4. ~(c < b)
    BY <1>2, <1>3, <1>4, <2>1, <2>2
  <2> QED
    BY <2>2, <2>3, <2>4
<1>6. pc[t] \in Holding /\ pc[u] \in Holding /\ IsWrite(t) /\ IsWrite(u)
  BY DEF Holding, Working, BlockInv, LocalInv
<1>7. PICK e \in Entries : loc[t].head = e /\ entries[b] = e
  BY <1>1, <1>6 DEF BlockInv, LocalInv, SharedInv
<1>8. loc[u].head = e
  BY <1>1, <1>5, <1>6, <1>7 DEF BlockInv, SharedInv
<1>9. LockInv(e)
  BY <1>2, <1>7 DEF BlockInv, InTable
<1>10. elock[e].wr = t /\ elock[e].wr = u
  BY <1>6, <1>7, <1>8, <1>9 DEF HoldsWrite, LockInv
<1> QED
  BY <1>10

LEMMA SizeOther ==
    ASSUME NEW u, SizeOf(u), fsize' = fsize, pc'[u] = pc[u], loc'[u] = loc[u]
    PROVE  SizeOf(u)'
BY DEF SizeOf, IsWrite, End

\* Steps that do not look at the size.
LEMMA SizeQuiet ==
    ASSUME Types, NEW t \in Threads, ThreadStep(t), ~Leave(t), ~Commit(t), ~TestSize(t), ~SetSize(t)
    PROVE  /\ Alone(t) /\ loc'[t].req = loc[t].req /\ pc[t] \notin {"idle", "commit"}
           /\ pc'[t] # "setsize" /\ fsize' = fsize /\ wend' = wend
           /\ pc'[t] \in {"unlock", "advance", "leave"} /\ IsWrite(t) =>
                 pc[t] \in {"unlock", "advance", "leave"}
<1>1. fsize' = fsize /\ wend' = wend
  BY DEF ThreadStep, Enter, ExpendUnlock, Expend, ExpendRelock, GetEntry, Publish, Reload,
     LockEntry, LockBusy, CheckpointEntry, LogOne, Count, StoreCell, CheckSize, CopyCell,
     UnlockEntry, Advance, history
<1>2. CASE Moving(t)
  BY <1>1, <1>2, MovingStep DEF Moving, Onward
<1>3. CASE GetEntry(t) \/ Publish(t)
  BY <1>1, <1>3, GetEntryStep, PublishStep DEF Onward
<1>4. CASE Reload(t) \/ LockBusy(t)
  BY <1>1, <1>4, ReloadStep, LockBusyStep DEF Onward, Reload, LockBusy
<1>5. CASE LockEntry(t)
  BY <1>1, <1>5, LockEntryStep DEF Onward, LockEntry
<1>6. CASE LogOne(t) \/ CopyCell(t)
  BY <1>1, <1>6, LogOneStep, CopyCellStep DEF Onward
<1>7. CASE Count(t) \/ Advance(t)
  BY <1>1, <1>7, CountStep, AdvanceStep DEF Onward, Count, Advance
<1>8. CASE StoreCell(t) \/ CheckSize(t)
  BY <1>1, <1>8, StoreCellStep, CheckSizeStep DEF SameEntries, Onward
<1> QED
  BY <1>2, <1>3, <1>4, <1>5, <1>6, <1>7, <1>8 DEF ThreadStep, Moving

LEMMA SetSizeKeeps ==
    ASSUME OneBlock, Types, BlockInv, SizeInv, NEW t \in Threads, SetSize(t)
    PROVE  SizeInv'
<1>1. PICK r : r = loc[t].req
  OBVIOUS
<1>2. /\ Alone(t) /\ loc'[t] = loc[t] /\ pc[t] = "setsize" /\ pc'[t] = "unlock"
  BY MovingStep DEF Moving, Onward
<1>3. fsize' = loc[t].req.off + loc[t].ret /\ wend' = wend
  BY DEF SetSize, NewSize, history
<1>4. IsWrite(t) /\ loc[t].ret = r.len
  BY <1>1, <1>2 DEF BlockInv, LocalInv
<1>5. End(r) = r.off + r.len /\ r.off \in Nat /\ r.len \in Nat
  BY <1>1, <1>2, Asked
<1>6. fsize' = End(r) /\ fsize < fsize' /\ fsize \in Nat /\ fsize' \in Nat
  BY <1>1, <1>2, <1>3, <1>4, <1>5 DEF SizeInv, SizeOf, Types
<1>7. SizeOf(t)'
  <2>1. loc'[t].req.off <= fsize' /\ loc'[t].req = r
    BY <1>1, <1>2, <1>5, <1>6
  <2> QED
    BY <1>2, <1>6, <2>1 DEF SizeOf, End
<1>8. ASSUME NEW u \in Threads, u # t PROVE SizeOf(u)'
  <2>1. pc'[u] = pc[u] /\ loc'[u] = loc[u] /\ SizeOf(u)
    BY <1>2, <1>8 DEF Alone, SizeInv
  <2>2. pc[u] # "setsize"
    BY <1>2, <1>8, OneSetsSize
  <2>3. pc[u] \notin {"idle", "commit"} => loc[u].req.off \in Nat /\ End(loc[u].req) \in Nat
    BY Asked, Constants
  <2>4. pc[u] \notin {"idle", "commit"} => loc'[u].req.off <= fsize'
    BY <1>6, <2>1, <2>3 DEF SizeOf
  <2>5. ASSUME pc[u] \in {"unlock", "advance", "leave"}, IsWrite(u) PROVE End(loc[u].req) <= fsize'
    BY <1>6, <2>1, <2>3, <2>5 DEF SizeOf
  <2> QED
    BY <2>1, <2>2, <2>4, <2>5 DEF SizeOf, IsWrite, End
<1>9. wend' \in Nat /\ wend' <= fsize'
  BY <1>3, <1>6 DEF SizeInv
<1> QED
  BY <1>7, <1>8, <1>9 DEF SizeInv

LEMMA SizeStep ==
    ASSUME OneBlock, Types, BlockInv, SizeInv, NEW t \in Threads, Call(t) \/ ThreadStep(t)
    PROVE  SizeInv'
<1>0. SizeOf(t) /\ fsize \in Nat /\ wend \in Nat /\ wend <= fsize
  BY DEF SizeInv, Types
<1>1. SUFFICES ASSUME ~SetSize(t) PROVE SizeInv'
  BY SetSizeKeeps
<1>2. Alone(t) /\ fsize' = fsize /\ SizeOf(t)' /\ wend' \in Nat /\ wend' <= fsize
  <2>1. CASE Call(t)
    <3>1. fsize' = fsize /\ wend' = wend
      BY <2>1 DEF Call
    <3> QED
      BY <1>0, <2>1, <3>1, CallStep DEF SizeOf
  <2>2. CASE Commit(t)
    BY <1>0, <2>2, ReturnStep DEF SizeOf, Commit
  <2>3. CASE Leave(t)
    <3>1. /\ Alone(t) /\ pc'[t] = "idle" /\ fsize' = fsize /\ pc[t] = "leave"
          /\ wend' = IF IsWrite(t) THEN Larger(wend, End(loc[t].req)) ELSE wend
      BY <2>3, ReturnStep DEF Leave
    <3>2. End(loc[t].req) \in Nat
      BY <3>1, Asked, Constants
    <3>3. IsWrite(t) => End(loc[t].req) <= fsize
      BY <1>0, <3>1 DEF SizeOf
    <3> QED
      BY <1>0, <3>1, <3>2, <3>3 DEF SizeOf, Larger
  <2>4. CASE TestSize(t)
    <3>1. /\ Alone(t) /\ loc'[t] = loc[t] /\ pc[t] = "size" /\ fsize' = fsize /\ wend' = wend
      BY <2>4, MovingStep DEF Moving, Onward, TestSize, history
    <3>2. IsWrite(t) /\ loc[t].ret = loc[t].req.len
      BY <3>1 DEF BlockInv, LocalInv
    <3>3. /\ NewSize(t) = End(loc[t].req) /\ End(loc[t].req) \in Nat
          /\ loc[t].req.off <= fsize
      BY <1>0, <3>1, <3>2, Asked, Constants DEF NewSize, End, SizeOf
    <3>4. pc'[t] = IF fsize < NewSize(t) THEN "setsize" ELSE "unlock"
      BY <2>4 DEF TestSize, Goto, Types, Agents
    <3> QED
      BY <1>0, <3>1, <3>2, <3>3, <3>4 DEF SizeOf, End
  <2>5. CASE ThreadStep(t) /\ ~Leave(t) /\ ~Commit(t) /\ ~TestSize(t)
    <3>1. /\ Alone(t) /\ loc'[t].req = loc[t].req /\ pc[t] \notin {"idle", "commit"}
          /\ pc'[t] # "setsize" /\ fsize' = fsize /\ wend' = wend
          /\ pc'[t] \in {"unlock", "advance", "leave"} /\ IsWrite(t) =>
                pc[t] \in {"unlock", "advance", "leave"}
      BY <1>1, <2>5, SizeQuiet
    <3> QED
      BY <1>0, <3>1 DEF SizeOf, IsWrite, End
  <2> QED
    BY <2>1, <2>2, <2>3, <2>4, <2>5
<1>3. \A u \in Threads : SizeOf(u)'
  BY <1>2, SizeOther DEF SizeInv, Alone
<1> QED
  BY <1>2, <1>3 DEF SizeInv

LEMMA SizeNext ==
    ASSUME OneBlock, Types, BlockInv, SizeInv, [Next]_vars
    PROVE  SizeInv'
<1>1. CASE CkptStep \/ UNCHANGED vars
  <2>1. fsize' = fsize /\ wend' = wend
    BY <1>1 DEF CkptStep, CkptWake, CkptTry, CkptScan, CkptLock, CkptApply, CkptFree, vars, history
  <2>2. \A u \in Threads : pc'[u] = pc[u] /\ loc'[u] = loc[u]
    BY <1>1, CkptStepIs DEF CkptAlone, vars
  <2> QED
    BY <2>1, <2>2, SizeOther DEF SizeInv
<1> QED
  BY <1>1, SizeStep DEF Next

\* The file size covers every write that has returned, though the test and the
\* store of mmio->fsize are two steps that no lock of the file protects.
THEOREM SizeCovers ==
    ASSUME OneBlock, ~EagerReuse
    PROVE  Spec => []SizeCoversWrites
<1> DEFINE Inv == Types /\ PlaceInv /\ BlockInv /\ SizeInv
<1>1. Init => Inv
  <2>1. Init => SizeInv
    BY Constants DEF Init, SizeInv, SizeOf, Agents
  <2> QED
    BY <2>1, TypesInit, PlaceInit, BlockInit
<1>2. OneBlock /\ ~EagerReuse /\ Inv /\ [Next]_vars => Inv'
  BY TypesNext, PlaceNext, BlockNext, SizeNext
<1>3. Inv => SizeCoversWrites
  BY DEF SizeCoversWrites, SizeInv
<1> HIDE DEF Inv
<1> QED
  BY <1>1, <1>2, <1>3, PTL DEF Spec

-----------------------------------------------------------------------------
(* Calls within one block, within 2^20 epochs: the entry that is found.     *)

\* An entry of this epoch keeps its epoch, and its slot.
LEMMA EpochOther ==
    ASSUME Types, NEW u \in Threads, EpochOf(u), pc'[u] = pc[u], loc'[u] = loc[u], epoch' = epoch,
           \A f \in Entries :
              /\ ThisEpoch(f)
              /\ InTable(f) \/ (pc[u] = "publish" /\ f = loc[u].cand)
              => ent'[f].epoch = epoch,
           \A b \in Blocks :
              \/ entries'[b] = entries[b]
              \/ /\ entries[b] = NULL /\ entries'[b] \in Entries
                 /\ ent'[entries'[b]].epoch = epoch
              \/ entries[b] # NULL /\ ~ThisEpoch(entries[b])
    PROVE  EpochOf(u)'
<1>1. PICK l, i : l = loc[u] /\ loc'[u] = l /\ i = Index(u)
  OBVIOUS
<1>2. Index(u)' = i
  BY <1>1 DEF Index
<1>3. ASSUME pc[u] = "publish"
      PROVE  /\ l.cand \in Entries /\ ent'[l.cand].epoch = epoch
             /\ entries'[i] = NULL \/ (entries'[i] \in Entries /\ ent'[entries'[i]].epoch = epoch)
  <2>1. ThisEpoch(l.cand) /\ (entries[i] = NULL \/ ThisEpoch(entries[i])) /\ i \in Blocks
    BY <1>1, <1>3, IndexIn DEF EpochOf, Finding
  <2>2. l.cand \in Entries /\ ent'[l.cand].epoch = epoch
    BY <1>1, <1>3, <2>1 DEF ThisEpoch
  <2>3. ThisEpoch(entries[i]) => entries[i] \in Entries /\ InTable(entries[i])
    BY <2>1 DEF ThisEpoch, InTable
  <2>4. ThisEpoch(entries[i]) => ent'[entries[i]].epoch = epoch
    BY <2>3
  <2> QED
    BY <2>1, <2>2, <2>3, <2>4
<1>4. ASSUME pc[u] = "reload" PROVE entries'[i] \in Entries /\ ent'[entries'[i]].epoch = epoch
  <2>1. ThisEpoch(entries[i]) /\ i \in Blocks
    BY <1>1, <1>4, IndexIn DEF EpochOf, Finding
  <2>2. entries[i] \in Entries /\ InTable(entries[i])
    BY <2>1 DEF ThisEpoch, InTable
  <2>3. ent'[entries[i]].epoch = epoch /\ entries'[i] = entries[i]
    BY <2>1, <2>2, Constants
  <2> QED
    BY <2>2, <2>3
<1>5. pc[u] = "trylock" => l.cand # NULL
  BY <1>1 DEF EpochOf
<1> QED
  BY <1>1, <1>2, <1>3, <1>4, <1>5 DEF EpochOf, ThisEpoch

\* Steps of a thread that take no entry, free none and start no epoch.
LEMMA EpochQuiet ==
    ASSUME Types, EpochInv, NEW t \in Threads, Call(t) \/ ThreadStep(t), ~GetEntry(t),
           ~Publish(t), ~CheckpointEntry(t), ~Commit(t)
    PROVE  EpochInv'
<1>1. Alone(t) /\ entries' = entries /\ ck' = ck
  BY QuietStep
<1>2. epoch' = epoch
  BY DEF ThreadStep, Call, Enter, ExpendUnlock, Expend, ExpendRelock, Reload, LockEntry, LockBusy,
     LogOne, Count, StoreCell, TestSize, SetSize, CheckSize, CopyCell, UnlockEntry, Advance, Leave,
     counts
<1>3. \A f \in Entries : ent'[f].epoch = ent[f].epoch
  <2>1. CASE LogOne(t)
    BY <2>1, LogOneEnt
  <2>2. CASE ~LogOne(t)
    <3>1. ent' = ent
      BY <2>2 DEF ThreadStep, Call, Enter, ExpendUnlock, Expend, ExpendRelock, Reload, LockEntry,
         LockBusy, Count, StoreCell, TestSize, SetSize, CheckSize, CopyCell, UnlockEntry, Advance,
         Leave, tables
    <3> QED
      BY <3>1
  <2> QED
    BY <2>1, <2>2
<1>4. CkptEpoch'
  <2>1. pc'[Ckpt] = pc[Ckpt]
    BY <1>1 DEF Alone
  <2>2. pc[Ckpt] = "free" => ck.entry \in Entries
    BY DEF Types
  <2> QED
    BY <1>1, <1>2, <1>3, <2>1, <2>2 DEF EpochInv, CkptEpoch
<1>5. EpochOf(t)'
  <2>1. CASE Reload(t)
    <3>1. pc[t] = "reload" /\ pc'[t] = "trylock" /\ loc'[t].cand = entries[Index(t)]
      BY <2>1, ReloadStep DEF Reload
    <3>2. loc'[t].cand # NULL
      BY <3>1, Constants DEF EpochInv, EpochOf, ThisEpoch
    <3> QED
      BY <3>1, <3>2 DEF EpochOf
  <2>2. CASE ~Reload(t)
    BY <2>2, NotFound DEF EpochOf
  <2> QED
    BY <2>1, <2>2
<1>6. ASSUME NEW u \in Threads, u # t PROVE EpochOf(u)'
  <2>1. EpochOf(u) /\ pc'[u] = pc[u] /\ loc'[u] = loc[u]
    BY <1>1, <1>6 DEF EpochInv, Alone
  <2>2. \A f \in Entries : ThisEpoch(f) => ent'[f].epoch = epoch
    BY <1>3 DEF ThisEpoch
  <2> QED
    BY <1>1, <1>2, <2>1, <2>2, EpochOther
<1> QED
  BY <1>4, <1>5, <1>6 DEF EpochInv

\* get_log_entry takes an entry that is in nobody's way.
LEMMA GetEntryEpoch ==
    ASSUME NoWrap, Types, PlaceInv, EpochInv, NEW t \in Threads, GetEntry(t)
    PROVE  EpochInv'
<1>1. /\ Onward(t) /\ Alone(t) /\ SamePlace(t) /\ entries' = entries /\ ck' = ck /\ epoch' = epoch
  BY GetEntryStep DEF Onward, GetEntry, counts
<1>2. pc'[Ckpt] = pc[Ckpt]
  BY <1>1 DEF Alone
<1>3. \A u \in Threads : u # t => EpochOf(u) /\ pc'[u] = pc[u] /\ loc'[u] = loc[u]
  BY <1>1 DEF EpochInv, Alone
<1>4. CASE /\ entries[Index(t)] \in Entries /\ loc'[t].cand = entries[Index(t)]
           /\ pc'[t] = "trylock" /\ UNCHANGED tables
  <2>1. ent' = ent
    BY <1>4 DEF tables
  <2>2. EpochOf(t)'
    BY <1>4, Constants DEF EpochOf
  <2>3. \A u \in Threads : u # t => EpochOf(u)'
    BY <1>1, <1>3, <2>1, EpochOther DEF ThisEpoch
  <2> QED
    BY <1>1, <1>2, <2>1, <2>2, <2>3 DEF EpochInv, CkptEpoch
<1>5. CASE pc'[t] = "publish"
  <2>1. PICK e \in Reusable : /\ entries[Index(t)] = NULL /\ loc'[t].cand = e
                              /\ alloc_idx_entry(e) /\ e \in Entries /\ e \in pool
    BY <1>5, GetEntryStep
  <2>2. ent'[e].epoch = epoch /\ \A f \in Entries : f # e => ent'[f] = ent[f]
    BY <2>1, AllocEnt, EpochNat
  <2>3. EpochOf(t)'
    <3>1. PICK i : i = Index(t)
      OBVIOUS
    <3>2. Index(t)' = i
      BY <1>1, <3>1 DEF Index, SamePlace
    <3> QED
      BY <1>1, <1>5, <2>1, <2>2, <3>1, <3>2 DEF EpochOf, ThisEpoch
  <2>4. \A u \in Threads : u # t => EpochOf(u)'
    <3>1. \A f \in Entries : ThisEpoch(f) => ent'[f].epoch = epoch
      BY <2>2 DEF ThisEpoch
    <3> QED
      BY <1>1, <1>3, <3>1, EpochOther
  <2>5. CkptEpoch'
    <3>1. pc[Ckpt] = "free" => ck.entry \in Entries /\ ck.entry # e
      BY <2>1 DEF Types, PlaceInv, OnePlace, Reclaiming
    <3> QED
      BY <1>1, <1>2, <2>2, <3>1 DEF EpochInv, CkptEpoch
  <2> QED
    BY <2>3, <2>4, <2>5 DEF EpochInv
<1> QED
  BY <1>4, <1>5, GetEntryStep

\* The winner's entry is of this epoch, and so is what the loser finds.
LEMMA PublishEpoch ==
    ASSUME Types, PlaceInv, EpochInv, NEW t \in Threads, Publish(t)
    PROVE  EpochInv'
<1>1. PICK e, i : e = loc[t].cand /\ i = Index(t)
  OBVIOUS
<1>2. /\ Alone(t) /\ SamePlace(t) /\ pc[t] = "publish" /\ e \in Entries /\ i \in Blocks
      /\ ck' = ck /\ epoch' = epoch /\ pc'[Ckpt] = pc[Ckpt]
  BY <1>1, PublishStep DEF Onward, Publish, counts, Alone
<1>3. /\ ThisEpoch(e) /\ (entries[i] = NULL \/ ThisEpoch(entries[i])) /\ ~InTable(e)
      /\ \A u \in Threads \ {t} : loc[u].cand # e
  BY <1>1, <1>2 DEF EpochInv, EpochOf, PlaceInv, OnePlace, InTable
<1>4. \A u \in Threads : u # t => EpochOf(u) /\ pc'[u] = pc[u] /\ loc'[u] = loc[u]
  BY <1>2 DEF EpochInv, Alone
<1>5. CASE /\ entries[i] = NULL /\ entries' = [entries EXCEPT ![i] = e] /\ ent' = ent
           /\ pc'[t] = "trylock" /\ loc'[t].cand = e
  <2>1. \A b \in Blocks : entries'[b] = IF b = i THEN e ELSE entries[b]
    BY <1>2, <1>5 DEF Types
  <2>2. EpochOf(t)'
    BY <1>2, <1>5, Constants DEF EpochOf
  <2>3. \A b \in Blocks : \/ entries'[b] = entries[b]
                          \/ /\ entries[b] = NULL /\ entries'[b] \in Entries
                             /\ ent'[entries'[b]].epoch = epoch
    BY <1>2, <1>3, <1>5, <2>1 DEF ThisEpoch
  <2>4. \A f \in Entries : ThisEpoch(f) => ent'[f].epoch = epoch
    BY <1>5 DEF ThisEpoch
  <2>5. \A u \in Threads : u # t => EpochOf(u)'
    BY <1>2, <1>4, <2>3, <2>4, EpochOther
  <2> QED
    BY <1>2, <1>5, <2>2, <2>5 DEF EpochInv, CkptEpoch
<1>6. CASE entries[i] # NULL /\ entries' = entries /\ free_idx_entry(e) /\ pc'[t] = "reload"
  <2>1. \A f \in Entries : f # e => ent'[f] = ent[f]
    BY <1>2, <1>6, FreeEnt
  <2>2. EpochOf(t)'
    <3>1. Index(t)' = i
      BY <1>1, <1>2 DEF Index, SamePlace
    <3>2. entries[i] \in Entries /\ entries[i] # e /\ ent[entries[i]].epoch = epoch
      BY <1>2, <1>3, <1>6 DEF ThisEpoch, InTable
    <3> QED
      BY <1>2, <1>6, <2>1, <3>1, <3>2 DEF EpochOf, ThisEpoch
  <2>3. ASSUME NEW u \in Threads, u # t PROVE EpochOf(u)'
    <3>1. \A f \in Entries : /\ ThisEpoch(f)
                             /\ InTable(f) \/ (pc[u] = "publish" /\ f = loc[u].cand)
                             => ent'[f].epoch = epoch
      BY <1>3, <2>1, <2>3 DEF ThisEpoch
    <3> QED
      BY <1>2, <1>4, <1>6, <2>3, <3>1, EpochOther
  <2>4. CkptEpoch'
    <3>1. pc[Ckpt] = "free" => ck.entry \in Entries /\ ck.entry # e
      BY <1>3 DEF Types, PlaceInv, InTable, Reclaiming
    <3> QED
      BY <1>2, <2>1, <3>1 DEF EpochInv, CkptEpoch
  <2> QED
    BY <2>2, <2>3, <2>4 DEF EpochInv
<1> QED
  BY <1>1, <1>5, <1>6, PublishStep

\* A write renews only the entry it has locked.
LEMMA CheckpointEpoch ==
    ASSUME OneBlock, NoWrap, Types, PlaceInv, BlockInv, EpochInv, NEW t \in Threads,
           CheckpointEntry(t)
    PROVE  EpochInv'
<1>1. PICK e : e = loc[t].cur
  OBVIOUS
<1>2. /\ Alone(t) /\ pc[t] = "log" /\ pc'[t] = "append" /\ ck' = ck /\ epoch' = epoch
      /\ entries' = entries /\ pc'[Ckpt] = pc[Ckpt]
  BY MovingStep DEF Moving, Onward, CheckpointEntry, counts, Alone
<1>3. e \in Entries /\ ent'[e].epoch = epoch /\ \A f \in Entries : f # e => ent'[f] = ent[f]
  BY <1>1, CheckpointEnt, EpochNat
<1>4. pc[Ckpt] = "free" => ck.entry \in Entries /\ ck.entry # e
  <2>1. HoldsWrite(t, e)
    BY <1>1, <1>2 DEF HoldsWrite, Holding, Working, BlockInv, LocalInv
  <2> QED
    BY <2>1, Reclaimed
<1>5. CkptEpoch'
  BY <1>2, <1>3, <1>4 DEF EpochInv, CkptEpoch
<1>6. EpochOf(t)'
  BY <1>2 DEF EpochOf
<1>7. ASSUME NEW u \in Threads, u # t PROVE EpochOf(u)'
  <2>1. EpochOf(u) /\ pc'[u] = pc[u] /\ loc'[u] = loc[u]
    BY <1>2, <1>7 DEF EpochInv, Alone
  <2>2. \A f \in Entries : ThisEpoch(f) => ent'[f].epoch = epoch
    BY <1>3 DEF ThisEpoch
  <2> QED
    BY <1>2, <2>1, <2>2, EpochOther
<1> QED
  BY <1>5, <1>6, <1>7 DEF EpochInv

\* No epoch starts while a thread looks for an entry.
LEMMA CommitEpoch ==
    ASSUME Types, EpochInv, NEW t \in Threads, Commit(t)
    PROVE  EpochInv'
<1>1. /\ Alone(t) /\ pc'[t] = "idle" /\ readers = {} /\ epoch' = epoch + 1 /\ ent' = ent /\ ck' = ck
  BY ReturnStep DEF Commit, tables
<1>2. pc'[Ckpt] = pc[Ckpt] /\ epoch \in Nat /\ ck.epoch \in Nat
  BY <1>1 DEF Alone, Types
<1>3. CkptEpoch'
  BY <1>1, <1>2 DEF EpochInv, CkptEpoch
<1>4. ASSUME NEW u \in Threads PROVE pc'[u] \notin {"publish", "reload", "trylock"}
  <2>1. pc[u] \in Outside
    BY <1>1 DEF Types, Agents
  <2> QED
    BY <1>1, <2>1 DEF Outside, Alone
<1> QED
  BY <1>3, <1>4 DEF EpochInv, EpochOf

\* The checkpoint thread frees only what is of an earlier epoch.
LEMMA CkptEpochStep ==
    ASSUME Types, PlaceInv, BlockInv, EpochInv, CkptStep
    PROVE  EpochInv'
<1>1. CkptAlone /\ loc' = loc /\ epoch' = epoch
  BY CkptStepIs DEF CkptStep, CkptWake, CkptTry, CkptScan, CkptLock, CkptApply, CkptFree, counts
<1>2. ck \in CkType /\ epoch \in Nat /\ Ckpt \in Agents
  BY Constants DEF Types, CkType
<1>3. ASSUME ~CkptFree PROVE entries' = entries /\ ent' = ent
  BY <1>3 DEF CkptStep, CkptWake, CkptTry, CkptScan, CkptLock, CkptApply, tables
<1>4. ASSUME pc'[Ckpt] # "idle" PROVE ck'.epoch <= epoch
  <2>1. CASE CkptWake
    <3>1. PICK k, ep : k = Asleep /\ ep = epoch
      OBVIOUS
    <3>2. [k EXCEPT !.epoch = ep].epoch = ep
      BY <3>1, AsleepIs DEF CkType
    <3> QED
      BY <1>2, <2>1, <3>1, <3>2 DEF CkptWake
  <2>2. CASE CkptTry
    <3>1. ck' = ck \/ pc' = [pc EXCEPT ![Ckpt] = "idle"]
      BY <2>2 DEF CkptTry, Goto
    <3>2. ck' = ck
      BY <1>2, <1>4, <3>1 DEF Types
    <3> QED
      BY <2>2, <3>2 DEF CkptTry, EpochInv, CkptEpoch
  <2>3. CASE pc[Ckpt] \in {"scan", "lock", "recheck", "free"} /\ NextIndex
    BY <1>4, <2>3, NextIndexStep DEF EpochInv, CkptEpoch
  <2>4. CASE CkptScan /\ ~NextIndex
    <3>1. PICK k, e : k = ck /\ e = entries[ck.i]
      OBVIOUS
    <3>2. ck' = [k EXCEPT !.entry = e] /\ pc[Ckpt] = "scan"
      BY <2>4, <3>1 DEF CkptScan
    <3>3. [k EXCEPT !.entry = e].epoch = k.epoch
      BY <1>2, <3>1 DEF CkType
    <3> QED
      BY <3>1, <3>2, <3>3 DEF EpochInv, CkptEpoch
  <2>5. CASE (CkptLock \/ CkptApply) /\ ~NextIndex
    BY <2>5 DEF CkptLock, CkptApply, EpochInv, CkptEpoch
  <2> QED
    BY <2>1, <2>2, <2>3, <2>4, <2>5 DEF CkptStep, CkptScan, CkptLock, CkptApply, CkptFree
<1>5. ASSUME pc'[Ckpt] = "free" PROVE ent'[ck'.entry].epoch < ck'.epoch
  <2>1. pc[Ckpt] \in {"scan", "lock", "recheck", "free"} => ~NextIndex
    BY <1>5, NextIndexOut
  <2>2. CkptApply
    <3>1. SUFFICES ASSUME CkptWake \/ CkptTry \/ CkptScan \/ CkptLock PROVE FALSE
      BY <2>1 DEF CkptStep, CkptFree
    <3>2. PICK to \in {"try", "scan", "idle", "lock", "recheck"} : pc' = [pc EXCEPT ![Ckpt] = to]
      BY <2>1, <3>1 DEF CkptWake, CkptTry, CkptScan, CkptLock, Goto
    <3> QED
      BY <1>2, <1>5, <3>2 DEF Types
  <2>3. ck' = ck /\ Stale(ck.entry) /\ ent' = ent
    BY <2>1, <2>2 DEF CkptApply
  <2> QED
    BY <2>3 DEF Stale
<1>6. CkptEpoch'
  BY <1>1, <1>4, <1>5 DEF CkptEpoch
<1>7. ASSUME NEW u \in Threads PROVE EpochOf(u)'
  <2>1. EpochOf(u) /\ pc'[u] = pc[u] /\ loc'[u] = loc[u]
    BY <1>1, CkptThreads DEF EpochInv
  <2>2. CASE ~CkptFree
    <3>1. \A f \in Entries : ThisEpoch(f) => ent'[f].epoch = epoch
      BY <1>3, <2>2 DEF ThisEpoch
    <3> QED
      BY <1>1, <1>3, <2>1, <2>2, <3>1, EpochOther
  <2>3. CASE CkptFree
    <3>1. PICK e, i : e = ck.entry /\ i = ck.i
      OBVIOUS
    <3>2. /\ pc[Ckpt] = "free" /\ entries' = [entries EXCEPT ![i] = NULL] /\ free_idx_entry(e)
      BY <2>3, <3>1 DEF CkptFree, OutOfTable
    <3>3. e \in Entries /\ i \in Blocks /\ entries[i] = e
      BY <3>1, <3>2, Reclaimed
    <3>4. ~ThisEpoch(e)
      <4>1. ent[e].epoch < ck.epoch /\ ck.epoch <= epoch
        BY <3>1, <3>2 DEF EpochInv, CkptEpoch
      <4>2. ent[e].epoch \in Nat /\ ck.epoch \in Nat
        BY <1>2, <3>3 DEF Types, IsEntry, CkType
      <4> QED
        BY <1>2, <4>1, <4>2 DEF ThisEpoch
    <3>5. \A f \in Entries : ThisEpoch(f) => ent'[f].epoch = epoch
      BY <3>2, <3>3, <3>4, FreeEnt DEF ThisEpoch
    <3>6. \A b \in Blocks : entries'[b] = entries[b] \/ (entries[b] # NULL /\ ~ThisEpoch(entries[b]))
      BY <3>2, <3>3, <3>4, Constants DEF Types
    <3> QED
      BY <1>1, <2>1, <3>5, <3>6, EpochOther
  <2> QED
    BY <2>2, <2>3
<1> QED
  BY <1>6, <1>7 DEF EpochInv

LEMMA EpochNext ==
    ASSUME OneBlock, NoWrap, Types, PlaceInv, BlockInv, EpochInv, [Next]_vars
    PROVE  EpochInv'
<1>1. ASSUME NEW t \in Threads, Call(t) \/ ThreadStep(t) PROVE EpochInv'
  BY <1>1, EpochQuiet, GetEntryEpoch, PublishEpoch, CheckpointEpoch, CommitEpoch
<1>2. CASE UNCHANGED vars
  BY <1>2 DEF vars, tables, counts, EpochInv, CkptEpoch, EpochOf, ThisEpoch, Index
<1> QED
  BY <1>1, <1>2, CkptEpochStep DEF Next

\* get_log_entry returns an entry, also after it lost the race to publish one:
\* the winner's is of the running epoch, which cannot end while the thread
\* has mmio->rwlock, and the checkpoint thread frees none of it.  This holds
\* as long as the epoch fits the 20 bits an entry has for it.
THEOREM EntryFound ==
    ASSUME OneBlock, ~EagerReuse
    PROVE  Spec /\ []NoWrap => []NoNullEntry
<1> DEFINE Inv == Types /\ PlaceInv /\ BlockInv /\ EpochInv
<1>1. Init => Inv
  <2>1. Init => EpochInv
    BY Constants DEF Init, EpochInv, CkptEpoch, EpochOf, Agents
  <2> QED
    BY <2>1, TypesInit, PlaceInit, BlockInit
<1>2. OneBlock /\ ~EagerReuse /\ NoWrap /\ Inv /\ [Next]_vars => Inv'
  BY TypesNext, PlaceNext, BlockNext, EpochNext
<1>3. Inv => NoNullEntry
  BY DEF NoNullEntry, EpochInv, EpochOf
<1> HIDE DEF Inv
<1> QED
  BY <1>1, <1>2, <1>3, PTL DEF Spec

=============================================================================
