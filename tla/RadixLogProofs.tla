--------------------------- MODULE RadixLogProofs ---------------------------
(***************************************************************************)
(* TLAPS proofs about the index of logs, for every number of threads and   *)
(* tables, every fan-out and page size: the tree that get_log_table grows  *)
(* stays a tree of typed tables and nothing in it ever changes its         *)
(* meaning, the checkpoint thread finds every table that a client has      *)
(* found, a table's log size fits its first access, and two lookups share  *)
(* a slot exactly when they share a log block.                             *)
(***************************************************************************)
EXTENDS RadixLog, NaturalsInduction, WellFoundedInduction, TLAPS

-----------------------------------------------------------------------------
(* The invariant.                                                           *)

Nodes == [type : 0 .. LGD, log_size : 0 .. NrLogSizes,
          entries : [0 .. Fan - 1 -> Tables \cup {NULL}]]
InTree == Tables \ pool
Leaves == {n \in InTree : node[n].type = TABLE}

\* The tables in the tree: each leads to tables of the next type only.
TreeInv ==
    /\ node \in [Tables -> Nodes]
    /\ pool \subseteq Tables /\ skip \in InTree
    /\ \A n \in InTree :
          /\ node[n].type \in TABLE .. LGD
          /\ \A i \in 0 .. Fan - 1 :
                \/ node[n].entries[i] = NULL
                \/ /\ node[n].entries[i] \in InTree
                   /\ node[node[n].entries[i]].type = node[n].type - 1

\* A table is linked in one place.
OneParent ==
    \A n, m \in InTree : \A i, j \in 0 .. Fan - 1 :
       node[n].entries[i] # NULL /\ node[n].entries[i] = node[m].entries[j] => n = m /\ i = j

\* The cache of the last lookup, and the checkpoint thread.
CacheInv ==
    /\ prev_table \in Leaves \cup {NULL}
    /\ prev_table_index \in -1 .. Fan^3 - 1
    /\ prev_table_index # -1 => prev_table # NULL
    /\ scan \in {OVERRUN} \cup 0 .. MaxOff

AtLeaf == {"set_table", "set_index", "size", "size_cas"}

\* A client thread, wherever it is.
LookupInv(t) ==
    /\ pc[t] \in {"idle", "check", "reuse", "walk", "alloc"} \cup AtLeaf
    /\ req[t] \in Requests \cup {NULL} /\ (pc[t] # "idle" => req[t] \in Requests)
    /\ at[t] \in InTree \cup {NULL}
    /\ pc[t] \in {"walk", "alloc"} => at[t] \in InTree
    /\ pc[t] = "alloc" => node[at[t]].type # TABLE
    /\ pc[t] \in AtLeaf => at[t] \in Leaves
    /\ pc[t] \in {"reuse", "set_index"} => prev_table # NULL

ThreadFcns == /\ pc = [t \in Threads |-> pc[t]] /\ req = [t \in Threads |-> req[t]]
              /\ at = [t \in Threads |-> at[t]]

RadixInv == TreeInv /\ CacheInv /\ ThreadFcns /\ \A t \in Threads : LookupInv(t)

-----------------------------------------------------------------------------
(* Numbers.                                                                 *)

LEMMA Least ==
    ASSUME NEW S \in SUBSET Nat, S # {}
    PROVE  \E x \in S : \A y \in S : x <= y
<1>1. \E x \in S : \A y \in S : ~(<<y, x>> \in OpToRel(<, Nat))
  BY NatLessThanWellFounded, WFMin
<1>2. PICK x \in S : \A y \in S : ~(<<y, x>> \in OpToRel(<, Nat))
  BY <1>1
<1>3. OpToRel(<, Nat) = {ss \in Nat \X Nat : ss[1] < ss[2]}
  BY Zenon DEF OpToRel
<1>4. \A y \in S : ~(y < x)
  BY <1>2, <1>3
<1> QED
  BY <1>4

LEMMA Constants ==
    /\ PageCells \in Nat \ {0} /\ NrLogSizes \in Nat \ {0} /\ NrTables \in Nat
    /\ NrTables >= 4 /\ MaxOff \in Nat /\ NULL \notin Tables
    /\ \A r \in Requests : r.off \in Nat /\ r.len \in Nat \ {0}
    /\ Fan \in Nat \ {0} /\ Span \in Nat \ {0}
<1>1. \A x, y \in Nat \ {0} : x * y \in Nat \ {0}
  OBVIOUS
<1> QED
  BY <1>1, RadixLogAssumption, PowersOfFan DEF Span

LEMMA Regions ==
    ASSUME NEW off \in Nat
    PROVE  Region(off) \in 0 .. Fan^3 - 1
<1>1. PICK f : f = Fan^3 /\ f \in Nat \ {0}
  BY PowersOfFan
<1>2. \A x \in Nat : x % f \in 0 .. f - 1
  BY <1>1
<1>3. \A x, y \in Nat : y # 0 => x \div y \in Nat
  OBVIOUS
<1>4. off \div Span \in Nat
  BY <1>3, Constants
<1> QED
  BY <1>1, <1>2, <1>4 DEF Region

LEMMA Indices ==
    ASSUME NEW off \in Nat, NEW type \in LMD .. LGD
    PROVE  Index(type, off) \in 0 .. Fan - 1
<1>1. PICK f : f = Fan^(type - LMD) /\ f \in Nat \ {0}
  BY PowersOfFan DEF LMD, LGD
<1>2. Region(off) \in Nat
  BY Regions, PowersOfFan
<1>3. \A x, y \in Nat : y # 0 => x \div y \in Nat
  OBVIOUS
<1>4. \A x, y \in Nat : y # 0 => x % y \in 0 .. y - 1
  OBVIOUS
<1>5. Region(off) \div f \in Nat
  BY <1>1, <1>2, <1>3
<1> QED
  BY <1>1, <1>4, <1>5, Constants DEF Index

\* The way of an offset depends on its region only.
LEMMA SameIndex ==
    ASSUME NEW off, NEW off2, Region(off) = Region(off2), NEW type
    PROVE  Index(type, off) = Index(type, off2)
BY DEF Index

LEMMA NodeIs ==
    ASSUME NEW x \in Nodes
    PROVE  /\ x.type \in 0 .. LGD /\ x.log_size \in 0 .. NrLogSizes
           /\ x.entries \in [0 .. Fan - 1 -> Tables \cup {NULL}]
BY DEF Nodes

LEMMA NewTableIs ==
    ASSUME NEW type \in 0 .. LGD
    PROVE  /\ NewTable(type) \in Nodes /\ NewTable(type).type = type
           /\ NewTable(type).log_size = NrLogSizes
           /\ \A i \in 0 .. Fan - 1 : NewTable(type).entries[i] = NULL
<1>1. [i \in 0 .. Fan - 1 |-> NULL] \in [0 .. Fan - 1 -> Tables \cup {NULL}]
  OBVIOUS
<1> QED
  BY <1>1, Constants DEF NewTable, Nodes

-----------------------------------------------------------------------------
(* The tree: where it leads, and what ALLOC_TABLE and get_log_size do to it.*)

LEMMA ChildIs ==
    ASSUME TreeInv, NEW n \in InTree, node[n].type # TABLE, NEW off \in Nat
    PROVE  /\ Index(node[n].type, off) \in 0 .. Fan - 1
           /\ \/ Child(n, off) = NULL
              \/ Child(n, off) \in InTree /\ node[Child(n, off)].type = node[n].type - 1
<1>1. node[n].type \in LMD .. LGD
  BY DEF TreeInv, TABLE, LMD, LGD
<1>2. Index(node[n].type, off) \in 0 .. Fan - 1
  BY <1>1, Indices
<1> QED
  BY <1>2 DEF TreeInv, Child

\* Nothing that a table in the tree says is taken back.
Grows ==
    /\ skip' = skip
    /\ \A n \in InTree :
          /\ n \in InTree' /\ node'[n].type = node[n].type
          /\ node[n].log_size # NrLogSizes => node'[n].log_size = node[n].log_size
          /\ \A i \in 0 .. Fan - 1 :
                node[n].entries[i] # NULL => node'[n].entries[i] = node[n].entries[i]

LEMMA SameTree ==
    ASSUME TreeInv, UNCHANGED tree
    PROVE  TreeInv' /\ Grows /\ (OneParent => OneParent')
<1>1. node' = node /\ pool' = pool /\ skip' = skip
  BY DEF tree
<1>2. TreeInv'
  BY <1>1 DEF TreeInv, InTree
<1>3. OneParent => OneParent'
  BY <1>1 DEF OneParent, InTree
<1> QED
  BY <1>1, <1>2, <1>3 DEF Grows, InTree

\* A new table is linked where there was none.
LEMMA LinkTable ==
    ASSUME TreeInv, NEW a \in InTree, NEW i \in 0 .. Fan - 1, NEW new \in pool,
           node[a].type # TABLE, node[a].entries[i] = NULL,
           node' = [node EXCEPT ![new] = NewTable(NEXT_TABLE_TYPE(node[a].type)),
                                ![a].entries[i] = new],
           pool' = pool \ {new}, skip' = skip
    PROVE  /\ TreeInv' /\ Grows /\ InTree' = InTree \cup {new}
           /\ node'[new].type = node[a].type - 1 /\ node'[a].entries[i] = new
           /\ OneParent => OneParent'
<1>0. node \in [Tables -> Nodes] /\ pool \subseteq Tables /\ a # new /\ a \in Tables /\ new \in Tables
  BY DEF TreeInv, InTree
<1>1. InTree' = InTree \cup {new}
  BY <1>0 DEF InTree
<1>2. PICK x : x = NewTable(NEXT_TABLE_TYPE(node[a].type))
  OBVIOUS
<1>3. /\ x \in Nodes /\ x.type = node[a].type - 1
      /\ \A j \in 0 .. Fan - 1 : x.entries[j] = NULL
      /\ node[a].type \in LMD .. LGD /\ x.type \in TABLE .. LGD
  <2>1. node[a].type \in LMD .. LGD
    BY DEF TreeInv, TABLE, LMD, LGD
  <2>2. node[a].type - 1 \in 0 .. LGD /\ NEXT_TABLE_TYPE(node[a].type) = node[a].type - 1
    BY <2>1 DEF LMD, LGD, NEXT_TABLE_TYPE
  <2> QED
    BY <1>2, <2>1, <2>2, NewTableIs DEF LMD, LGD, TABLE
<1>4. PICK y : y = node[a]
  OBVIOUS
<1>5. y \in Nodes /\ y.entries[i] = NULL
  BY <1>0, <1>4
<1>6. PICK z : z = [y EXCEPT !.entries[i] = new]
  OBVIOUS
<1>7. /\ z \in Nodes /\ z.type = y.type /\ z.log_size = y.log_size
      /\ \A j \in 0 .. Fan - 1 : z.entries[j] = IF j = i THEN new ELSE y.entries[j]
  <2>1. PICK es : es = y.entries
    OBVIOUS
  <2>2. es \in [0 .. Fan - 1 -> Tables \cup {NULL}]
    BY <1>5, <2>1, NodeIs
  <2>3. z = [y EXCEPT !.entries = [es EXCEPT ![i] = new]]
    BY <1>6, <2>1
  <2>4. PICK fs : fs = [es EXCEPT ![i] = new]
    OBVIOUS
  <2>5. /\ fs \in [0 .. Fan - 1 -> Tables \cup {NULL}]
        /\ \A j \in 0 .. Fan - 1 : fs[j] = IF j = i THEN new ELSE es[j]
    BY <1>0, <2>2, <2>4
  <2>6. z = [y EXCEPT !.entries = fs]
    BY <2>3, <2>4
  <2>7. z \in Nodes /\ z.type = y.type /\ z.log_size = y.log_size /\ z.entries = fs
    BY <1>5, <2>5, <2>6 DEF Nodes
  <2> QED
    BY <2>1, <2>5, <2>7
<1>8. node' = [n \in Tables |-> IF n = a THEN z ELSE IF n = new THEN x ELSE node[n]]
  BY <1>0, <1>2, <1>4, <1>6
<1>9. /\ node' \in [Tables -> Nodes] /\ node'[new] = x /\ node'[a] = z
      /\ \A n \in InTree : n # a => node'[n] = node[n]
  BY <1>0, <1>3, <1>7, <1>8 DEF InTree
<1>10. Grows
  <2>1. ASSUME NEW n \in InTree
        PROVE  /\ n \in InTree' /\ node'[n].type = node[n].type
               /\ node[n].log_size # NrLogSizes => node'[n].log_size = node[n].log_size
               /\ \A j \in 0 .. Fan - 1 :
                     node[n].entries[j] # NULL => node'[n].entries[j] = node[n].entries[j]
    <3>1. CASE n = a
      BY <1>1, <1>4, <1>5, <1>7, <1>9, <3>1
    <3>2. CASE n # a
      BY <1>1, <1>9, <3>2
    <3> QED
      BY <3>1, <3>2
  <2> QED
    BY <2>1 DEF Grows
<1>11. TreeInv'
  <2>1. ASSUME NEW n \in InTree'
        PROVE  /\ node'[n].type \in TABLE .. LGD
               /\ \A j \in 0 .. Fan - 1 :
                     \/ node'[n].entries[j] = NULL
                     \/ /\ node'[n].entries[j] \in InTree'
                        /\ node'[node'[n].entries[j]].type = node'[n].type - 1
    <3>1. CASE n = new
      BY <1>3, <1>9, <3>1
    <3>2. CASE n = a
      <4>1. node'[n].type = node[a].type /\ node[a].type \in TABLE .. LGD
        BY <1>4, <1>7, <1>9, <3>2 DEF TreeInv
      <4>2. ASSUME NEW j \in 0 .. Fan - 1
            PROVE  \/ node'[n].entries[j] = NULL
                   \/ /\ node'[n].entries[j] \in InTree'
                      /\ node'[node'[n].entries[j]].type = node'[n].type - 1
        <5>1. CASE j = i
          BY <1>1, <1>3, <1>7, <1>9, <3>2, <4>1, <5>1
        <5>2. CASE j # i
          <6>1. node'[n].entries[j] = node[a].entries[j]
            BY <1>4, <1>7, <1>9, <3>2, <5>2
          <6>2. \/ node[a].entries[j] = NULL
                \/ /\ node[a].entries[j] \in InTree
                   /\ node[node[a].entries[j]].type = node[a].type - 1
            BY DEF TreeInv
          <6> QED
            BY <1>10, <4>1, <6>1, <6>2 DEF Grows
        <5> QED
          BY <5>1, <5>2
      <4> QED
        BY <4>1, <4>2
    <3>3. CASE n # new /\ n # a
      <4>1. n \in InTree /\ node'[n] = node[n]
        BY <1>1, <1>9, <3>3
      <4>2. /\ node[n].type \in TABLE .. LGD
            /\ \A j \in 0 .. Fan - 1 :
                  \/ node[n].entries[j] = NULL
                  \/ /\ node[n].entries[j] \in InTree
                     /\ node[node[n].entries[j]].type = node[n].type - 1
        BY <4>1 DEF TreeInv
      <4>3. \A m \in InTree : m \in InTree' /\ node'[m].type = node[m].type
        BY <1>10 DEF Grows
      <4>4. ASSUME NEW j \in 0 .. Fan - 1
            PROVE  \/ node'[n].entries[j] = NULL
                   \/ /\ node'[n].entries[j] \in InTree'
                      /\ node'[node'[n].entries[j]].type = node'[n].type - 1
        <5>1. PICK c : c = node[n].entries[j]
          OBVIOUS
        <5>2. node'[n].entries[j] = c /\ node'[n].type = node[n].type
          BY <4>1, <5>1
        <5>3. c = NULL \/ (c \in InTree /\ node[c].type = node[n].type - 1)
          BY <4>2, <5>1
        <5> QED
          BY <4>3, <5>2, <5>3
      <4> QED
        BY <4>1, <4>2, <4>4
    <3> QED
      BY <3>1, <3>2, <3>3
  <2>2. pool' \subseteq Tables /\ skip' \in InTree'
    BY <1>0, <1>1 DEF TreeInv
  <2> QED
    BY <1>9, <2>1, <2>2 DEF TreeInv
<1>12. ASSUME OneParent PROVE OneParent'
  <2>1. \A n \in InTree : \A j \in 0 .. Fan - 1 :
           /\ node'[n].entries[j] = IF n = a /\ j = i THEN new ELSE node[n].entries[j]
           /\ node[n].entries[j] # new
    <3>1. \A n \in InTree : \A j \in 0 .. Fan - 1 :
             node'[n].entries[j] = IF n = a /\ j = i THEN new ELSE node[n].entries[j]
      <4>1. \A j \in 0 .. Fan - 1 : node'[a].entries[j] = IF j = i THEN new ELSE node[a].entries[j]
        BY <1>4, <1>7, <1>9
      <4>2. \A n \in InTree : n # a => node'[n].entries = node[n].entries
        BY <1>9
      <4>3. ASSUME NEW n \in InTree, NEW j \in 0 .. Fan - 1
            PROVE  node'[n].entries[j] = IF n = a /\ j = i THEN new ELSE node[n].entries[j]
        <5>1. CASE n = a
          BY <4>1, <5>1
        <5>2. CASE n # a
          <6>1. PICK new_entries : new_entries = node'[n].entries
            OBVIOUS
          <6>2. new_entries = node[n].entries
            BY <4>2, <5>2, <6>1
          <6> QED
            BY <5>2, <6>1, <6>2
        <5> QED
          BY <5>1, <5>2
      <4> QED
        BY <4>3
    <3>2. new # NULL /\ new \notin InTree
      BY <1>0, Constants DEF InTree
    <3>3. \A n \in InTree : \A j \in 0 .. Fan - 1 :
             node[n].entries[j] = NULL \/ node[n].entries[j] \in InTree
      BY DEF TreeInv
    <3>4. \A n \in InTree : \A j \in 0 .. Fan - 1 : node[n].entries[j] # new
      BY <3>2, <3>3
    <3> QED
      BY <3>1, <3>4
  <2>2. \A j \in 0 .. Fan - 1 : node'[new].entries[j] = NULL
    BY <1>3, <1>9
  <2>3. ASSUME NEW n \in InTree', NEW m \in InTree', NEW j \in 0 .. Fan - 1,
               NEW k \in 0 .. Fan - 1, node'[n].entries[j] # NULL,
               node'[n].entries[j] = node'[m].entries[k]
        PROVE  n = m /\ j = k
    <3>1. n \in InTree /\ m \in InTree
      BY <1>1, <2>2, <2>3
    <3> QED
      BY <1>12, <2>1, <2>3, <3>1 DEF OneParent
  <2> QED
    BY <2>3 DEF OneParent
<1> QED
  BY <1>1, <1>3, <1>7, <1>9, <1>10, <1>11, <1>12

\* The log size of a table is set where it was not set.
LEMMA SizeTable ==
    ASSUME TreeInv, NEW a \in InTree, node[a].log_size = NrLogSizes,
           NEW s \in 0 .. NrLogSizes, node' = [node EXCEPT ![a].log_size = s],
           pool' = pool, skip' = skip
    PROVE  TreeInv' /\ Grows /\ (OneParent => OneParent')
<1>0. node \in [Tables -> Nodes] /\ a \in Tables
  BY DEF TreeInv, InTree
<1>1. InTree' = InTree
  BY DEF InTree
<1>2. PICK y : y = node[a]
  OBVIOUS
<1>3. PICK z : z = [y EXCEPT !.log_size = s]
  OBVIOUS
<1>4. /\ z \in Nodes /\ z.type = y.type /\ z.entries = y.entries
  <2>1. y \in Nodes
    BY <1>0, <1>2
  <2> QED
    BY <1>3, <2>1 DEF Nodes
<1>5. node' = [n \in Tables |-> IF n = a THEN z ELSE node[n]]
  BY <1>0, <1>2, <1>3
<1>6. /\ node' \in [Tables -> Nodes]
      /\ \A n \in Tables : /\ node'[n].type = node[n].type
                           /\ node'[n].entries = node[n].entries
                           /\ n # a => node'[n].log_size = node[n].log_size
  BY <1>0, <1>2, <1>4, <1>5
<1>7. \A n \in InTree : n \in Tables
  BY DEF InTree
<1>8. TreeInv'
  <2>1. ASSUME NEW n \in InTree
        PROVE  /\ node'[n].type \in TABLE .. LGD
               /\ \A j \in 0 .. Fan - 1 :
                     \/ node'[n].entries[j] = NULL
                     \/ /\ node'[n].entries[j] \in InTree
                        /\ node'[node'[n].entries[j]].type = node'[n].type - 1
    BY <1>6, <1>7 DEF TreeInv
  <2>2. pool \subseteq Tables /\ skip \in InTree
    BY DEF TreeInv
  <2> QED
    BY <1>1, <1>6, <2>1, <2>2 DEF TreeInv
<1>9. OneParent => OneParent'
  BY <1>1, <1>6, <1>7 DEF OneParent
<1> QED
  BY <1>1, <1>6, <1>7, <1>8, <1>9 DEF Grows

-----------------------------------------------------------------------------
(* The invariant is inductive.                                              *)

\* A thread that does not move is where it was in a tree that only grows.
LEMMA OtherThread ==
    ASSUME Grows, NEW u, LookupInv(u), pc'[u] = pc[u], req'[u] = req[u], at'[u] = at[u],
           prev_table # NULL => prev_table' # NULL
    PROVE  LookupInv(u)'
<1>1. \A n \in InTree : n \in InTree' /\ node'[n].type = node[n].type
  BY DEF Grows
<1>2. \A n \in Leaves : n \in Leaves'
  BY <1>1 DEF Leaves
<1>3. pc[u] = "alloc" => node'[at'[u]].type # TABLE
  BY <1>1 DEF LookupInv
<1> QED
  BY <1>1, <1>2, <1>3 DEF LookupInv

LEMMA SameCache ==
    ASSUME CacheInv, Grows, UNCHANGED <<prev, scan>>
    PROVE  CacheInv'
<1>1. \A n \in InTree : n \in InTree' /\ node'[n].type = node[n].type
  BY DEF Grows
<1>2. \A n \in Leaves : n \in Leaves'
  BY <1>1 DEF Leaves
<1> QED
  BY <1>2 DEF CacheInv, prev

\* A step of thread t, put together.
LEMMA StepOf ==
    ASSUME RadixInv, NEW t \in Threads, TreeInv', Grows, CacheInv', LookupInv(t)',
           pc' = [u \in Threads |-> pc'[u]], req' = [u \in Threads |-> req'[u]],
           at' = [u \in Threads |-> at'[u]],
           \A u \in Threads : u # t => pc'[u] = pc[u] /\ req'[u] = req[u] /\ at'[u] = at[u],
           prev_table # NULL => prev_table' # NULL
    PROVE  RadixInv'
<1>1. \A u \in Threads : LookupInv(u)'
  BY OtherThread DEF RadixInv
<1> QED
  BY <1>1 DEF RadixInv, ThreadFcns

\* What pc, req and at are after an assignment to one thread's.
LEMMA Assigned ==
    ASSUME NEW f, NEW g, NEW t \in Threads, NEW v, f = [u \in Threads |-> f[u]],
           g = [f EXCEPT ![t] = v]
    PROVE  /\ g = [u \in Threads |-> g[u]] /\ g[t] = v
           /\ \A u \in Threads : u # t => g[u] = f[u]
BY ONLY f = [u \in Threads |-> f[u]], g = [f EXCEPT ![t] = v]

LEMMA CallStep ==
    ASSUME RadixInv, NEW t \in Threads, Call(t)
    PROVE  RadixInv'
<1>0. PICK r \in Requests : req' = [req EXCEPT ![t] = r]
  BY DEF Call
<1>1. /\ pc[t] = "idle" /\ pc' = [pc EXCEPT ![t] = "check"]
      /\ UNCHANGED <<tree, prev, at, scan, placed>>
  BY DEF Call, Goto
<1>2. ThreadFcns /\ LookupInv(t) /\ TreeInv /\ CacheInv
  BY DEF RadixInv
<1>3. TreeInv' /\ Grows /\ InTree' = InTree
  BY <1>1, <1>2, SameTree DEF tree, InTree
<1>4. CacheInv'
  BY <1>1, <1>2, <1>3, SameCache
<1>5. /\ pc' = [u \in Threads |-> pc'[u]] /\ pc'[t] = "check"
      /\ \A u \in Threads : u # t => pc'[u] = pc[u]
  BY <1>1, <1>2, Assigned DEF ThreadFcns
<1>6. /\ req' = [u \in Threads |-> req'[u]] /\ req'[t] = r
      /\ \A u \in Threads : u # t => req'[u] = req[u]
  BY <1>0, <1>2, Assigned DEF ThreadFcns
<1>7. LookupInv(t)'
  BY <1>1, <1>2, <1>3, <1>5, <1>6 DEF LookupInv, AtLeaf
<1> QED
  BY <1>1, <1>2, <1>3, <1>4, <1>5, <1>6, <1>7, StepOf DEF ThreadFcns, prev

\* The steps that leave the tree and the cache alone and move one thread.
LEMMA MoveStep ==
    ASSUME RadixInv, NEW t \in Threads, NEW to, NEW n, UNCHANGED <<tree, prev, req, scan>>,
           pc' = [pc EXCEPT ![t] = to], at' = [at EXCEPT ![t] = n],
           pc[t] # "idle", to \in {"reuse", "walk", "alloc"} \cup AtLeaf, n \in InTree,
           to = "alloc" => node[n].type # TABLE,
           to \in AtLeaf => n \in Leaves,
           to \in {"reuse", "set_index"} => prev_table # NULL
    PROVE  RadixInv'
<1>2. ThreadFcns /\ LookupInv(t) /\ TreeInv /\ CacheInv
  BY DEF RadixInv
<1>3. TreeInv' /\ Grows /\ InTree' = InTree /\ node' = node
  BY <1>2, SameTree DEF tree, InTree
<1>4. CacheInv'
  BY <1>2, <1>3, SameCache
<1>5. /\ pc' = [u \in Threads |-> pc'[u]] /\ pc'[t] = to
      /\ \A u \in Threads : u # t => pc'[u] = pc[u]
  BY <1>2, Assigned DEF ThreadFcns
<1>6. /\ at' = [u \in Threads |-> at'[u]] /\ at'[t] = n
      /\ \A u \in Threads : u # t => at'[u] = at[u]
  BY <1>2, Assigned DEF ThreadFcns
<1>7. LookupInv(t)'
  BY <1>2, <1>3, <1>5, <1>6 DEF LookupInv, AtLeaf, Leaves, prev
<1> QED
  BY <1>2, <1>3, <1>4, <1>5, <1>6, <1>7, StepOf DEF ThreadFcns, prev

LEMMA CheckPrevStep ==
    ASSUME RadixInv, NEW t \in Threads, CheckPrev(t)
    PROVE  RadixInv'
<1>1. PICK to : /\ to = IF prev_table_index = Region(req[t].off) THEN "reuse" ELSE "walk"
                /\ pc' = [pc EXCEPT ![t] = to]
  BY DEF CheckPrev, Goto
<1>2. /\ UNCHANGED <<tree, prev, req, scan>> /\ pc[t] = "check"
      /\ at' = [at EXCEPT ![t] = skip] /\ skip \in InTree
  BY DEF CheckPrev, MoveTo, RadixInv, TreeInv
<1>3. req[t].off \in Nat
  BY <1>2, Constants DEF RadixInv, LookupInv
<1>4. Region(req[t].off) \in 0 .. Fan^3 - 1
  BY <1>3, Regions
<1>5. to \in {"reuse", "set_index"} => prev_table # NULL
  BY <1>1, <1>4, PowersOfFan DEF RadixInv, CacheInv
<1>6. PICK n : n = skip
  OBVIOUS
<1>7. /\ to \in {"reuse", "walk", "alloc"} \cup AtLeaf /\ n \in InTree /\ pc[t] # "idle"
      /\ to = "alloc" => node[n].type # TABLE
      /\ to \in AtLeaf => n \in Leaves
      /\ at' = [at EXCEPT ![t] = n]
  BY <1>1, <1>2, <1>6 DEF AtLeaf
<1> QED
  BY <1>1, <1>2, <1>5, <1>7, MoveStep

LEMMA ReuseStep ==
    ASSUME RadixInv, NEW t \in Threads, Reuse(t)
    PROVE  RadixInv'
<1>1. /\ UNCHANGED <<tree, prev, req, scan>> /\ pc[t] = "reuse"
      /\ at' = [at EXCEPT ![t] = prev_table] /\ pc' = [pc EXCEPT ![t] = "size"]
  BY DEF Reuse, MoveTo, Goto
<1>2. prev_table \in Leaves
  BY <1>1 DEF RadixInv, CacheInv, LookupInv
<1> QED
  BY <1>1, <1>2, MoveStep DEF AtLeaf, Leaves

LEMMA WalkStep ==
    ASSUME RadixInv, NEW t \in Threads, Walk(t)
    PROVE  RadixInv'
<1>1. UNCHANGED <<tree, prev, req, scan>> /\ pc[t] = "walk"
  BY DEF Walk
<1>2. ThreadFcns /\ LookupInv(t) /\ TreeInv
  BY DEF RadixInv
<1>3. at[t] \in InTree /\ req[t].off \in Nat
  BY <1>1, <1>2, Constants DEF LookupInv
<1>4. at = [at EXCEPT ![t] = at[t]] /\ pc = [pc EXCEPT ![t] = "walk"]
  BY <1>1, <1>2 DEF ThreadFcns
<1>5. CASE /\ node[at[t]].type = TABLE
           /\ Goto(t, "set_table")
           /\ UNCHANGED at
  <2>1. PICK n : n = at[t]
    OBVIOUS
  <2>2. n \in Leaves /\ n \in InTree /\ at' = [at EXCEPT ![t] = n]
    BY <1>3, <1>4, <1>5, <2>1 DEF Leaves
  <2> QED
    BY <1>1, <1>5, <2>2, MoveStep DEF Goto, AtLeaf
<1>6. CASE /\ node[at[t]].type # TABLE
           /\ Goto(t, "alloc")
           /\ UNCHANGED at
  <2>1. PICK n : n = at[t]
    OBVIOUS
  <2>2. n \in InTree /\ at' = [at EXCEPT ![t] = n] /\ node[n].type # TABLE
    BY <1>3, <1>4, <1>6, <2>1
  <2> QED
    BY <1>1, <1>6, <2>2, MoveStep DEF Goto, AtLeaf
<1>7. CASE /\ node[at[t]].type # TABLE
           /\ Child(at[t], req[t].off) # NULL
           /\ MoveTo(t, Child(at[t], req[t].off))
           /\ UNCHANGED pc
  <2>1. PICK n : n = Child(at[t], req[t].off)
    OBVIOUS
  <2>2. n \in InTree
    BY <1>2, <1>3, <1>7, <2>1, ChildIs
  <2>3. at' = [at EXCEPT ![t] = n] /\ pc' = [pc EXCEPT ![t] = "walk"]
    BY <1>4, <1>7, <2>1 DEF MoveTo
  <2> QED
    BY <1>1, <2>2, <2>3, MoveStep DEF AtLeaf
<1> QED
  BY <1>5, <1>6, <1>7 DEF Walk

\* What a step of ALLOC_TABLE does: whoever wins, the tree now leads on.
LEMMA AllocEffect ==
    ASSUME RadixInv, NEW t \in Threads, AllocTable(t)
    PROVE  /\ TreeInv' /\ Grows /\ at[t] \in InTree /\ node[at[t]].type # TABLE
           /\ OneParent => OneParent'
           /\ \E b \in InTree' :
                 /\ at' = [at EXCEPT ![t] = b] /\ at'[t] = b
                 /\ b = node'[at[t]].entries[Index(node[at[t]].type, req[t].off)]
<1> DEFINE new == CHOOSE n \in pool : \A m \in pool : n <= m
           i == Index(node[at[t]].type, req[t].off)
<1>1. ThreadFcns /\ LookupInv(t) /\ TreeInv /\ pc[t] = "alloc"
  BY DEF RadixInv, AllocTable
<1>2. PICK a : a = at[t] /\ a \in InTree /\ node[a].type # TABLE
  BY <1>1 DEF LookupInv
<1>3. req[t].off \in Nat
  BY <1>1, Constants DEF LookupInv
<1>4. /\ i \in 0 .. Fan - 1 /\ Child(at[t], req[t].off) = node[a].entries[i]
      /\ Child(at[t], req[t].off) = NULL \/ Child(at[t], req[t].off) \in InTree
  BY <1>1, <1>2, <1>3, ChildIs DEF Child
<1>5. CASE /\ CasWins(t)
           /\ node' = [node EXCEPT ![new] = NewTable(NEXT_TABLE_TYPE(node[at[t]].type)),
                                   ![at[t]].entries[i] = new]
           /\ pool' = pool \ {new}
           /\ MoveTo(t, new)
  <2>1. PICK b, j : b = new /\ j = i
    OBVIOUS
  <2>2. node[a].entries[j] = NULL
    BY <1>4, <1>5, <2>1 DEF CasWins
  <2>3. /\ node' = [node EXCEPT ![b] = NewTable(NEXT_TABLE_TYPE(node[a].type)),
                                ![a].entries[j] = b]
        /\ pool' = pool \ {b} /\ skip' = skip
    BY <1>2, <1>5, <2>1 DEF AllocTable
  <2>4. b \in pool /\ j \in 0 .. Fan - 1
    <3>1. pool # {} /\ pool \in SUBSET Nat
      BY <1>1 DEF AllocTable, TreeInv, Tables
    <3> QED
      BY <1>4, <2>1, <3>1, Least
  <2> HIDE DEF new, i
  <2>5. /\ TreeInv' /\ Grows /\ InTree' = InTree \cup {b}
        /\ node'[a].entries[j] = b /\ (OneParent => OneParent')
    BY <1>1, <1>2, <2>2, <2>3, <2>4, LinkTable
  <2>6. at' = [at EXCEPT ![t] = b] /\ at'[t] = b
    BY <1>1, <1>5, <2>1 DEF MoveTo, ThreadFcns
  <2>7. j = Index(node[at[t]].type, req[t].off)
    BY <2>1 DEF i
  <2> QED
    BY <1>2, <2>5, <2>6, <2>7
<1>6. CASE /\ ~CasWins(t)
           /\ MoveTo(t, Child(at[t], req[t].off))
           /\ UNCHANGED <<node, pool>>
  <2>1. TreeInv' /\ Grows /\ InTree' = InTree /\ (OneParent => OneParent')
    BY <1>1, <1>6, SameTree DEF tree, AllocTable, InTree
  <2>2. PICK b : b = Child(at[t], req[t].off)
    OBVIOUS
  <2>3. at' = [at EXCEPT ![t] = b] /\ at'[t] = b
    BY <1>1, <1>6, <2>2 DEF MoveTo, ThreadFcns
  <2>4. b \in InTree /\ b = node[a].entries[i]
    BY <1>4, <1>6, <2>2 DEF CasWins
  <2> QED
    BY <1>2, <1>6, <2>1, <2>3, <2>4
<1> QED
  BY <1>5, <1>6 DEF AllocTable

LEMMA AllocStep ==
    ASSUME RadixInv, NEW t \in Threads, AllocTable(t)
    PROVE  RadixInv'
<1>1. ThreadFcns /\ LookupInv(t) /\ CacheInv /\ TreeInv' /\ Grows
  BY AllocEffect DEF RadixInv
<1>2. UNCHANGED <<prev, req, scan>> /\ pc[t] = "alloc" /\ pc' = [pc EXCEPT ![t] = "walk"]
  BY DEF AllocTable, Goto
<1>3. CacheInv'
  BY <1>1, <1>2, SameCache
<1>4. PICK b : b = at'[t] /\ b \in InTree' /\ at' = [at EXCEPT ![t] = b]
  BY AllocEffect
<1>5. /\ pc' = [u \in Threads |-> pc'[u]] /\ pc'[t] = "walk"
      /\ \A u \in Threads : u # t => pc'[u] = pc[u]
  BY <1>1, <1>2, Assigned DEF ThreadFcns
<1>6. /\ at' = [u \in Threads |-> at'[u]] /\ at'[t] = b
      /\ \A u \in Threads : u # t => at'[u] = at[u]
  BY <1>1, <1>4, Assigned DEF ThreadFcns
<1>7. LookupInv(t)'
  BY <1>1, <1>2, <1>4, <1>5, <1>6 DEF LookupInv, AtLeaf
<1> QED
  BY <1>1, <1>2, <1>3, <1>5, <1>6, <1>7, StepOf DEF ThreadFcns, prev

LEMMA SetPrevTableStep ==
    ASSUME RadixInv, NEW t \in Threads, SetPrevTable(t)
    PROVE  RadixInv'
<1>1. ThreadFcns /\ LookupInv(t) /\ CacheInv /\ TreeInv
  BY DEF RadixInv
<1>2. /\ UNCHANGED <<tree, prev_table_index, req, at, scan>> /\ pc[t] = "set_table"
      /\ prev_table' = at[t] /\ pc' = [pc EXCEPT ![t] = "set_index"]
  BY DEF SetPrevTable, Goto
<1>3. TreeInv' /\ Grows /\ InTree' = InTree /\ node' = node
  BY <1>1, <1>2, SameTree DEF tree, InTree
<1>4. at[t] \in Leaves /\ Leaves' = Leaves /\ at[t] # NULL
  BY <1>1, <1>2, <1>3, Constants DEF LookupInv, AtLeaf, Leaves, InTree
<1>5. CacheInv'
  BY <1>1, <1>2, <1>4 DEF CacheInv
<1>6. /\ pc' = [u \in Threads |-> pc'[u]] /\ pc'[t] = "set_index"
      /\ \A u \in Threads : u # t => pc'[u] = pc[u]
  BY <1>1, <1>2, Assigned DEF ThreadFcns
<1>7. LookupInv(t)'
  BY <1>1, <1>2, <1>3, <1>4, <1>6 DEF LookupInv, AtLeaf
<1> QED
  BY <1>1, <1>2, <1>3, <1>4, <1>5, <1>6, <1>7, StepOf DEF ThreadFcns

LEMMA SetPrevIndexStep ==
    ASSUME RadixInv, NEW t \in Threads, SetPrevIndex(t)
    PROVE  RadixInv'
<1>1. ThreadFcns /\ LookupInv(t) /\ CacheInv /\ TreeInv
  BY DEF RadixInv
<1>2. /\ UNCHANGED <<tree, prev_table, req, at, scan>> /\ pc[t] = "set_index"
      /\ prev_table_index' = Region(req[t].off) /\ pc' = [pc EXCEPT ![t] = "size"]
  BY DEF SetPrevIndex, Goto
<1>3. TreeInv' /\ Grows /\ InTree' = InTree /\ node' = node
  BY <1>1, <1>2, SameTree DEF tree, InTree
<1>4. Leaves' = Leaves
  BY <1>3 DEF Leaves
<1>5. Region(req[t].off) \in 0 .. Fan^3 - 1
  BY <1>1, <1>2, Constants, Regions DEF LookupInv
<1>6. CacheInv'
  BY <1>1, <1>2, <1>4, <1>5, PowersOfFan DEF CacheInv, LookupInv
<1>7. /\ pc' = [u \in Threads |-> pc'[u]] /\ pc'[t] = "size"
      /\ \A u \in Threads : u # t => pc'[u] = pc[u]
  BY <1>1, <1>2, Assigned DEF ThreadFcns
<1>8. LookupInv(t)'
  BY <1>1, <1>2, <1>3, <1>4, <1>7 DEF LookupInv, AtLeaf
<1> QED
  BY <1>1, <1>2, <1>3, <1>6, <1>7, <1>8, StepOf DEF ThreadFcns

\* A lookup returns.
LEMMA ReturnStep ==
    ASSUME RadixInv, NEW t \in Threads, NEW s, NEW f, Return(t, s, f), TreeInv', Grows,
           UNCHANGED <<prev, scan>>
    PROVE  RadixInv'
<1>1. ThreadFcns /\ LookupInv(t) /\ CacheInv
  BY DEF RadixInv
<1>2. /\ req' = [req EXCEPT ![t] = NULL] /\ at' = [at EXCEPT ![t] = NULL]
      /\ pc' = [pc EXCEPT ![t] = "idle"]
  BY DEF Return, MoveTo, Goto
<1>3. CacheInv'
  BY <1>1, SameCache
<1>4. /\ pc' = [u \in Threads |-> pc'[u]] /\ pc'[t] = "idle"
      /\ \A u \in Threads : u # t => pc'[u] = pc[u]
  BY <1>1, <1>2, Assigned DEF ThreadFcns
<1>5. /\ at' = [u \in Threads |-> at'[u]] /\ at'[t] = NULL
      /\ \A u \in Threads : u # t => at'[u] = at[u]
  BY <1>1, <1>2, Assigned DEF ThreadFcns
<1>6. /\ req' = [u \in Threads |-> req'[u]] /\ req'[t] = NULL
      /\ \A u \in Threads : u # t => req'[u] = req[u]
  BY <1>1, <1>2, Assigned DEF ThreadFcns
<1>7. LookupInv(t)'
  BY <1>4, <1>5, <1>6 DEF LookupInv, AtLeaf
<1> QED
  BY <1>3, <1>4, <1>5, <1>6, <1>7, StepOf DEF prev

LEMMA TestSizeStep ==
    ASSUME RadixInv, NEW t \in Threads, TestSize(t)
    PROVE  RadixInv'
<1>1. UNCHANGED <<tree, prev, scan>> /\ pc[t] = "size"
  BY DEF TestSize
<1>2. TreeInv /\ ThreadFcns /\ LookupInv(t)
  BY DEF RadixInv
<1>3. CASE Return(t, node[at[t]].log_size, FALSE)
  BY <1>1, <1>2, <1>3, SameTree, ReturnStep
<1>4. CASE Goto(t, "size_cas") /\ UNCHANGED <<req, at>>
  <2>1. PICK n : n = at[t]
    OBVIOUS
  <2>2. n \in Leaves /\ n \in InTree
    BY <1>1, <1>2, <2>1 DEF LookupInv, AtLeaf, Leaves
  <2>3. at' = [at EXCEPT ![t] = n] /\ pc' = [pc EXCEPT ![t] = "size_cas"]
    BY <1>2, <1>4, <2>1 DEF ThreadFcns, Goto
  <2> QED
    BY <1>1, <1>4, <2>2, <2>3, MoveStep DEF AtLeaf
<1> QED
  BY <1>3, <1>4 DEF TestSize

\* What a step of CasSize does to the tree.
LEMMA CasEffect ==
    ASSUME RadixInv, NEW t \in Threads, CasSize(t)
    PROVE  TreeInv' /\ Grows /\ (OneParent => OneParent')
<1>1. /\ TreeInv /\ LookupInv(t) /\ pc[t] = "size_cas" /\ at[t] \in InTree
      /\ UNCHANGED <<pool, skip, prev, scan>>
  BY DEF RadixInv, LookupInv, AtLeaf, Leaves, CasSize
<1>2. CASE UNCHANGED node
  BY <1>1, <1>2, SameTree DEF tree
<1>3. CASE /\ SizeUnset(t)
           /\ node' = [node EXCEPT ![at[t]].log_size = set_log_size(req[t].off, req[t].len)]
  <2>1. PICK a, s : a = at[t] /\ s = set_log_size(req[t].off, req[t].len)
    OBVIOUS
  <2>2. s \in 0 .. NrLogSizes
    BY <2>1, Constants DEF set_log_size, Sizes
  <2>3. node[a].log_size = NrLogSizes /\ node' = [node EXCEPT ![a].log_size = s]
    BY <1>3, <2>1 DEF SizeUnset
  <2> QED
    BY <1>1, <2>1, <2>2, <2>3, SizeTable
<1> QED
  BY <1>2, <1>3 DEF CasSize

LEMMA CasSizeStep ==
    ASSUME RadixInv, NEW t \in Threads, CasSize(t)
    PROVE  RadixInv'
<1>1. UNCHANGED <<pool, skip, prev, scan>> /\ pc[t] = "size_cas" /\ TreeInv' /\ Grows
  BY CasEffect DEF CasSize
<1>2. CASE \E s : Return(t, s, TRUE)
  BY <1>1, <1>2, ReturnStep
<1>3. CASE Goto(t, "size") /\ UNCHANGED <<node, req, at>>
  <2>1. PICK n : n = at[t]
    OBVIOUS
  <2>2. n \in Leaves /\ n \in InTree
    BY <1>1, <2>1 DEF RadixInv, LookupInv, AtLeaf, Leaves
  <2>3. at' = [at EXCEPT ![t] = n] /\ pc' = [pc EXCEPT ![t] = "size"]
    BY <1>3, <2>1 DEF RadixInv, ThreadFcns, Goto
  <2>4. UNCHANGED tree
    BY <1>1, <1>3 DEF tree
  <2> QED
    BY <1>1, <1>3, <2>2, <2>3, <2>4, MoveStep DEF AtLeaf
<1> QED
  BY <1>2, <1>3 DEF CasSize

LEMMA CkptStep ==
    ASSUME RadixInv, CkptVisit
    PROVE  RadixInv'
<1>1. UNCHANGED <<tree, prev, pc, req, at>>
  BY DEF CkptVisit
<1>2. TreeInv' /\ Grows
  BY <1>1, SameTree DEF RadixInv
<1>3. scan' \in {OVERRUN} \cup 0 .. MaxOff
  BY Constants DEF CkptVisit, RadixInv, CacheInv, OVERRUN
<1>4. Leaves' = Leaves
  BY <1>1 DEF Leaves, InTree, tree
<1>5. CacheInv'
  BY <1>1, <1>3, <1>4 DEF RadixInv, CacheInv, prev
<1>6. \A u \in Threads : LookupInv(u)'
  BY <1>1, <1>2, OtherThread DEF RadixInv, prev
<1> QED
  BY <1>1, <1>2, <1>5, <1>6 DEF RadixInv, ThreadFcns

LEMMA StutterStep ==
    ASSUME RadixInv, UNCHANGED vars
    PROVE  RadixInv'
<1>1. UNCHANGED <<tree, prev, pc, req, at, scan>>
  BY DEF vars
<1>2. TreeInv' /\ Grows
  BY <1>1, SameTree DEF RadixInv
<1>3. CacheInv'
  BY <1>1, <1>2, SameCache DEF RadixInv
<1>4. \A u \in Threads : LookupInv(u)'
  BY <1>1, <1>2, OtherThread DEF RadixInv, prev
<1> QED
  BY <1>1, <1>2, <1>3, <1>4 DEF RadixInv, ThreadFcns

LEMMA RadixInvNext ==
    ASSUME RadixInv, [Next]_vars
    PROVE  RadixInv'
BY CallStep, CheckPrevStep, ReuseStep, WalkStep, AllocStep, SetPrevTableStep, SetPrevIndexStep,
   TestSizeStep, CasSizeStep, CkptStep, StutterStep DEF Next, ThreadStep

LEMMA RadixInvInit ==
    ASSUME Init
    PROVE  RadixInv /\ OneParent /\ node[skip].type = get_deepest_table_type(MaxOff)
<1>1. PICK depth : depth = LGD + 1 - get_deepest_table_type(MaxOff)
  OBVIOUS
<1>2. depth \in 1 .. 4 /\ get_deepest_table_type(MaxOff) \in 1 .. 4
  <2>1. PICK d : d = get_deepest_table_type(MaxOff)
    OBVIOUS
  <2>2. d \in 1 .. 4
    <3>1. Region(MaxOff) \in Nat /\ Fan \in Nat \ {0} /\ Fan^2 \in Nat
      BY Regions, Constants, PowersOfFan
    <3>2. \/ Region(MaxOff) = 0 \/ Region(MaxOff) \in 1 .. Fan - 1
          \/ Region(MaxOff) \in Fan .. Fan^2 - 1 \/ Region(MaxOff) >= Fan^2
      BY <3>1
    <3> QED
      BY <2>1, <3>2 DEF get_deepest_table_type, TABLE, LMD, LUD, LGD
  <2> QED
    BY <1>1, <2>1, <2>2 DEF LGD
<1>3. \A n \in 1 .. 4 : n \in Tables
  BY Constants DEF Tables
<1>4. /\ \A n \in Tables :
            node[n] = IF n < depth
                      THEN [NewTable(LGD + 1 - n) EXCEPT !.entries[Index(LGD + 1 - n, MaxOff)] = n + 1]
                      ELSE NewTable(IF n = depth THEN LGD + 1 - n ELSE 0)
      /\ node = [n \in Tables |-> node[n]]
      /\ pool = {n \in Tables : n > depth} /\ skip = depth
      /\ prev_table = NULL /\ prev_table_index = -1
      /\ pc = [t \in Threads |-> "idle"] /\ req = [t \in Threads |-> NULL]
      /\ at = [t \in Threads |-> NULL] /\ scan = 0
  BY <1>1 DEF Init
<1>5. InTree = 1 .. depth
  BY <1>2, <1>3, <1>4, Constants DEF InTree, Tables
<1>6. ASSUME NEW n \in Tables, n < depth
      PROVE  /\ node[n] \in Nodes /\ node[n].type = LGD + 1 - n
             /\ \A i \in 0 .. Fan - 1 : node[n].entries[i] = NULL \/ node[n].entries[i] = n + 1
             /\ \A i, j \in 0 .. Fan - 1 :
                   node[n].entries[i] # NULL /\ node[n].entries[j] # NULL => i = j
  <2>1. LGD + 1 - n \in LMD .. LGD /\ LGD + 1 - n \in 0 .. LGD
    BY <1>2, <1>6, Constants DEF LGD, LMD, Tables
  <2>2. PICK x : x = NewTable(LGD + 1 - n)
    OBVIOUS
  <2>3. x \in Nodes /\ x.type = LGD + 1 - n /\ \A i \in 0 .. Fan - 1 : x.entries[i] = NULL
    BY <2>1, <2>2, NewTableIs
  <2>4. PICK k : k = Index(LGD + 1 - n, MaxOff)
    OBVIOUS
  <2>5. k \in 0 .. Fan - 1 /\ n + 1 \in Tables
    BY <1>2, <1>3, <1>6, <2>1, <2>4, Constants, Indices DEF Tables
  <2>6. node[n] = [x EXCEPT !.entries[k] = n + 1]
    BY <1>4, <1>6, <2>2, <2>4
  <2>7. PICK es : es = x.entries
    OBVIOUS
  <2>8. PICK fs : fs = [es EXCEPT ![k] = n + 1]
    OBVIOUS
  <2>9. /\ fs \in [0 .. Fan - 1 -> Tables \cup {NULL}]
        /\ \A i \in 0 .. Fan - 1 : fs[i] = IF i = k THEN n + 1 ELSE NULL
    BY <2>3, <2>5, <2>7, <2>8, NodeIs
  <2>10. node[n] = [x EXCEPT !.entries = fs]
    BY <2>6, <2>7, <2>8
  <2>11. node[n] \in Nodes /\ node[n].type = x.type /\ node[n].entries = fs
    BY <2>3, <2>9, <2>10 DEF Nodes
  <2> QED
    BY <2>3, <2>9, <2>11
<1>7. ASSUME NEW n \in Tables, ~(n < depth)
      PROVE  /\ node[n] \in Nodes /\ (n = depth => node[n].type = LGD + 1 - n)
             /\ \A i \in 0 .. Fan - 1 : node[n].entries[i] = NULL
  <2>1. PICK y : y = IF n = depth THEN LGD + 1 - n ELSE 0
    OBVIOUS
  <2>2. y \in 0 .. LGD /\ node[n] = NewTable(y)
    BY <1>2, <1>4, <1>7, <2>1 DEF LGD
  <2> QED
    BY <2>1, <2>2, NewTableIs
<1>8. TreeInv
  <2>1. node \in [Tables -> Nodes]
    BY <1>4, <1>6, <1>7
  <2>2. ASSUME NEW n \in InTree
        PROVE  /\ node[n].type = LGD + 1 - n
               /\ \A i \in 0 .. Fan - 1 : node[n].entries[i] = NULL \/ (n < depth /\ node[n].entries[i] = n + 1)
    BY <1>2, <1>5, <1>6, <1>7 DEF InTree
  <2>3. ASSUME NEW n \in InTree
        PROVE  /\ node[n].type \in TABLE .. LGD
               /\ \A i \in 0 .. Fan - 1 :
                     \/ node[n].entries[i] = NULL
                     \/ /\ node[n].entries[i] \in InTree
                        /\ node[node[n].entries[i]].type = node[n].type - 1
    <3>1. node[n].type \in TABLE .. LGD
      BY <1>2, <1>5, <2>2 DEF TABLE, LGD
    <3>2. n < depth => n + 1 \in InTree /\ node[n + 1].type = node[n].type - 1
      BY <1>2, <1>5, <2>2 DEF LGD
    <3> QED
      BY <2>2, <3>1, <3>2
  <2>4. pool \subseteq Tables
    BY <1>4
  <2>5. skip \in InTree
    BY <1>2, <1>4, <1>5
  <2> QED
    BY <2>1, <2>3, <2>4, <2>5 DEF TreeInv
<1>9. CacheInv
  BY <1>4, Constants, PowersOfFan DEF CacheInv, OVERRUN
<1>10. ThreadFcns /\ \A t \in Threads : LookupInv(t)
  BY <1>4 DEF ThreadFcns, LookupInv, AtLeaf
<1>11. OneParent
  <2>1. ASSUME NEW n \in InTree, NEW m \in InTree, NEW i \in 0 .. Fan - 1, NEW j \in 0 .. Fan - 1,
               node[n].entries[i] # NULL, node[n].entries[i] = node[m].entries[j]
        PROVE  n = m /\ i = j
    <3>1. n \in Tables /\ m \in Tables /\ n \in 1 .. depth /\ m \in 1 .. depth
      BY <1>5 DEF InTree
    <3>2. n < depth /\ m < depth
      BY <1>2, <1>7, <2>1, <3>1
    <3>3. node[n].entries[i] = n + 1 /\ node[m].entries[j] = m + 1
      BY <1>6, <2>1, <3>1, <3>2
    <3>4. n = m
      <4>1. n + 1 = m + 1
        BY <2>1, <3>3
      <4>2. n \in Nat /\ m \in Nat
        BY <3>1
      <4> QED
        BY <4>1, <4>2
    <3> QED
      BY <1>6, <2>1, <3>1, <3>2, <3>4
  <2> QED
    BY <2>1 DEF OneParent
<1>12. node[skip].type = get_deepest_table_type(MaxOff)
  <2>1. PICK d : d = get_deepest_table_type(MaxOff) /\ depth = LGD + 1 - d
    BY <1>1
  <2>2. node[depth].type = LGD + 1 - depth
    BY <1>2, <1>3, <1>7
  <2>3. d \in 1 .. 4
    BY <1>2, <2>1
  <2> QED
    BY <1>2, <1>4, <2>1, <2>2, <2>3 DEF LGD
<1> QED
  BY <1>8, <1>9, <1>10, <1>11, <1>12 DEF RadixInv

LEMMA RadixInvAlways == Spec => []RadixInv
BY RadixInvInit, RadixInvNext, PTL DEF Spec

\* Every step only adds to the tree.
LEMMA GrowsNext ==
    ASSUME RadixInv, [Next]_vars
    PROVE  Grows /\ (OneParent => OneParent')
<1>1. TreeInv
  BY DEF RadixInv
<1>2. CASE \E t \in Threads : AllocTable(t)
  BY <1>2, AllocEffect
<1>3. CASE \E t \in Threads : CasSize(t)
  BY <1>3, CasEffect
<1>4. CASE UNCHANGED tree
  BY <1>1, <1>4, SameTree
<1>5. \/ \E t \in Threads : AllocTable(t) \/ CasSize(t)
      \/ UNCHANGED tree
  BY DEF Next, ThreadStep, vars, Call, CheckPrev, Reuse, Walk, SetPrevTable, SetPrevIndex,
         TestSize, CkptVisit
<1> QED
  BY <1>2, <1>3, <1>4, <1>5

-----------------------------------------------------------------------------
(* The theorems about the tree.                                             *)

\* Whatever tables the threads allocate and link, in whatever order their
\* compare-and-swaps of ALLOC_TABLE come, every table leads to tables of the
\* next type only, and a thread is always at a table of the tree.
THEOREM TypeCorrect == Spec => []TypeOK
<1>1. RadixInv => TypeOK
  <2> SUFFICES ASSUME RadixInv PROVE TypeOK
    OBVIOUS
  <2>1. TreeInv /\ CacheInv /\ \A t \in Threads : LookupInv(t)
    BY DEF RadixInv
  <2>2. \A n \in Tables \ pool :
          /\ node[n].type \in TABLE .. LGD
          /\ node[n].log_size \in 0 .. NrLogSizes
          /\ \A i \in 0 .. Fan - 1 :
                node[n].entries[i] \in {NULL} \cup
                    {m \in Tables \ pool : node[m].type = node[n].type - 1}
    BY <2>1, NodeIs DEF TreeInv, InTree
  <2>3. prev_table \in Tables \cup {NULL}
    BY <2>1 DEF CacheInv, Leaves, InTree
  <2>4. \A t \in Threads : /\ at[t] \in (Tables \ pool) \cup {NULL}
                           /\ req[t] \in Requests \cup {NULL}
    BY <2>1 DEF LookupInv, InTree
  <2>5. /\ pool \subseteq Tables /\ skip \in Tables \ pool
        /\ prev_table_index \in -1 .. Fan^3 - 1 /\ scan \in {OVERRUN} \cup 0 .. MaxOff
    BY <2>1 DEF TreeInv, InTree, CacheInv
  <2> QED
    BY <2>2, <2>3, <2>4, <2>5 DEF TypeOK
<1> QED
  BY <1>1, RadixInvAlways, PTL

\* No step of any thread takes a link out of the tree or sets the log size of
\* a table a second time, so an entry found once keeps its meaning.
THEOREM TreeOnlyGrows == Spec => TablesStable
<1>1. RadixInv /\ [Next]_vars =>
        [\A n \in Tables \ pool :
            /\ node[n].log_size # NrLogSizes => node'[n].log_size = node[n].log_size
            /\ \A i \in 0 .. Fan - 1 :
                  node[n].entries[i] # NULL => node'[n].entries[i] = node[n].entries[i]]_vars
  BY GrowsNext DEF Grows, InTree
<1> QED
  BY <1>1, RadixInvAlways, PTL DEF Spec, TablesStable

-----------------------------------------------------------------------------
(* The way from root->skip to a table, for calls that use one region.       *)

\* One level of find_log_table, and where it is after each.
DownFrom(n, off) == IF n = NULL \/ node[n].type = TABLE THEN n ELSE Child(n, off)
Down1(off) == DownFrom(skip, off)
Down2(off) == DownFrom(Down1(off), off)
Down3(off) == DownFrom(Down2(off), off)

\* Table n is on the way.
OnWay(n, off) == n = skip \/ n = Down1(off) \/ n = Down2(off) \/ n = Down3(off)

Active(t) == pc[t] # "idle"

\* Threads that are in a lookup look for the same table.
OneRegion ==
    \A t, u \in Threads : Active(t) /\ Active(u) => Region(req[t].off) = Region(req[u].off)

\* A thread is on the way of its offset, and takes what the cache has only
\* when it is where the way ends.
ThreadWay(t) ==
    /\ pc[t] \in {"walk", "alloc"} => OnWay(at[t], req[t].off)
    /\ pc[t] \in AtLeaf => find_log_table(req[t].off) = at[t]
    /\ pc[t] = "reuse" => find_log_table(req[t].off) = prev_table
    /\ pc[t] = "set_index" => prev_table = at[t]

\* The two parts of the cache belong together, but between their two stores.
CacheWay ==
    \/ \E t \in Threads : pc[t] = "set_index"
    \/ \A off \in Nat : Region(off) = prev_table_index => find_log_table(off) = prev_table

PlacedWays ==
    \A p \in placed : p.off \in Nat /\ p.table \in InTree /\ find_log_table(p.off) = p.table

WayInv == OneRegion /\ (\A t \in Threads : ThreadWay(t)) /\ CacheWay /\ PlacedWays

\* The way gets one type deeper with each level, and three are enough.
LEMMA WayTypes ==
    ASSUME TreeInv, NEW off \in Nat
    PROVE  /\ Down1(off) = NULL \/ (Down1(off) \in InTree /\ node[Down1(off)].type <= 3)
           /\ Down2(off) = NULL \/ (Down2(off) \in InTree /\ node[Down2(off)].type <= 2)
           /\ Down3(off) = NULL \/ Down3(off) \in Leaves
           /\ find_log_table(off) = Down3(off)
<1>1. ASSUME NEW n \in InTree
      PROVE  \/ DownFrom(n, off) = NULL
             \/ /\ DownFrom(n, off) \in InTree
                /\ \/ node[DownFrom(n, off)].type = TABLE
                   \/ node[DownFrom(n, off)].type = node[n].type - 1
  BY <1>1, ChildIs DEF DownFrom
<1>2. /\ DownFrom(NULL, off) = NULL
      /\ \A n \in InTree : node[n].type \in 1 .. 4
  BY DEF DownFrom, TreeInv, TABLE, LGD
<1>3. skip \in InTree
  BY DEF TreeInv
<1>4. Down1(off) = NULL \/ (Down1(off) \in InTree /\ node[Down1(off)].type <= 3)
  BY <1>1, <1>2, <1>3 DEF Down1, TABLE
<1>5. Down2(off) = NULL \/ (Down2(off) \in InTree /\ node[Down2(off)].type <= 2)
  BY <1>1, <1>2, <1>4 DEF Down2, TABLE
<1>6. Down3(off) = NULL \/ Down3(off) \in Leaves
  BY <1>1, <1>2, <1>5 DEF Down3, TABLE, Leaves
<1>7. find_log_table(off) = DownFrom(Down3(off), off)
  BY DEF find_log_table, Down3, Down2, Down1, DownFrom
<1>8. DownFrom(Down3(off), off) = Down3(off)
  BY <1>6 DEF DownFrom, Leaves
<1> QED
  BY <1>4, <1>5, <1>6, <1>7, <1>8

\* A leaf on the way is where the way ends; elsewhere it goes on.
LEMMA WayEnds ==
    ASSUME TreeInv, NEW off \in Nat, NEW n \in InTree, OnWay(n, off)
    PROVE  /\ node[n].type = TABLE => find_log_table(off) = n
           /\ node[n].type # TABLE => OnWay(Child(n, off), off)
<1>1. n # NULL
  BY Constants DEF InTree
<1>2. node[n].type = TABLE => DownFrom(n, off) = n
  BY DEF DownFrom
<1>3. node[n].type # TABLE => DownFrom(n, off) = Child(n, off)
  BY <1>1 DEF DownFrom
<1>4. n = Down3(off) => node[n].type = TABLE
  BY <1>1, WayTypes DEF Leaves
<1>5. node[n].type = TABLE => Down3(off) = n
  BY <1>2 DEF OnWay, Down1, Down2, Down3
<1>6. node[n].type # TABLE => OnWay(Child(n, off), off)
  BY <1>3, <1>4 DEF OnWay, Down1, Down2, Down3
<1> QED
  BY <1>5, <1>6, WayTypes

LEMMA SameWay ==
    ASSUME NEW off, NEW off2, Region(off) = Region(off2)
    PROVE  find_log_table(off) = find_log_table(off2)
<1>1. \A type : Index(type, off) = Index(type, off2)
  BY DEF Index
<1>2. \A n : DownFrom(n, off) = DownFrom(n, off2)
  BY <1>1 DEF Child, DownFrom
<1>3. /\ find_log_table(off) = DownFrom(DownFrom(DownFrom(DownFrom(skip, off), off), off), off)
      /\ find_log_table(off2) =
            DownFrom(DownFrom(DownFrom(DownFrom(skip, off2), off2), off2), off2)
  BY DEF find_log_table, DownFrom
<1> QED
  BY <1>2, <1>3

\* In a tree that only grows, the way to a table stays.
LEMMA WayStays ==
    ASSUME TreeInv, Grows, NEW off \in Nat
    PROVE  /\ \A n \in InTree : OnWay(n, off) => OnWay(n, off)'
           /\ find_log_table(off) # NULL => find_log_table(off)' = find_log_table(off)
<1>1. ASSUME NEW n \in InTree, DownFrom(n, off) # NULL
      PROVE  DownFrom(n, off)' = DownFrom(n, off)
  <2>1. n # NULL /\ node'[n].type = node[n].type
    BY Constants DEF InTree, Grows
  <2>2. CASE node[n].type = TABLE
    BY <2>1, <2>2 DEF DownFrom
  <2>3. CASE node[n].type # TABLE
    <3>1. PICK i : i = Index(node[n].type, off) /\ i \in 0 .. Fan - 1
      BY <2>3, ChildIs
    <3>2. DownFrom(n, off) = node[n].entries[i] /\ DownFrom(n, off)' = node'[n].entries[i]
      BY <2>1, <2>3, <3>1 DEF DownFrom, Child
    <3> QED
      BY <1>1, <3>1, <3>2 DEF Grows
  <2> QED
    BY <2>2, <2>3
<1>2. skip \in InTree /\ skip' = skip /\ DownFrom(NULL, off) = NULL
  BY DEF TreeInv, Grows, DownFrom
<1>3. PICK d1, d2, d3 : d1 = Down1(off) /\ d2 = Down2(off) /\ d3 = Down3(off)
  OBVIOUS
<1>4. d1 # NULL => d1 \in InTree /\ Down1(off)' = d1
  <2>1. PICK n : n = skip
    OBVIOUS
  <2>2. DownFrom(n, off) # NULL => DownFrom(n, off)' = DownFrom(n, off)
    BY <1>1, <1>2, <2>1
  <2>3. Down1(off) = DownFrom(n, off) /\ Down1(off)' = DownFrom(n, off)'
    BY <1>2, <2>1 DEF Down1, DownFrom, Child
  <2> QED
    BY <1>3, <2>2, <2>3, WayTypes
<1>5. d2 # NULL => d1 # NULL /\ d2 \in InTree /\ Down2(off)' = d2
  <2>1. d2 = DownFrom(d1, off)
    BY <1>3 DEF Down2
  <2>2. d2 # NULL => d1 # NULL
    BY <1>2, <2>1
  <2>3. d1 # NULL => Down2(off)' = DownFrom(d1, off)'
    BY <1>4 DEF Down2, DownFrom, Child
  <2>4. d2 # NULL => DownFrom(d1, off)' = d2
    BY <1>1, <1>4, <2>1, <2>2
  <2> QED
    BY <1>3, <2>2, <2>3, <2>4, WayTypes
<1>6. d3 # NULL => d2 # NULL /\ Down3(off)' = d3
  <2>1. d3 = DownFrom(d2, off)
    BY <1>3 DEF Down3
  <2>2. d3 # NULL => d2 # NULL
    BY <1>2, <2>1
  <2>3. d2 # NULL => Down3(off)' = DownFrom(d2, off)'
    BY <1>5 DEF Down3, DownFrom, Child
  <2>4. d3 # NULL => DownFrom(d2, off)' = d3
    BY <1>1, <1>5, <2>1, <2>2
  <2> QED
    BY <2>2, <2>3, <2>4
<1>7. ASSUME NEW n \in InTree, OnWay(n, off) PROVE OnWay(n, off)'
  <2>1. n # NULL
    BY Constants DEF InTree
  <2> QED
    BY <1>2, <1>3, <1>4, <1>5, <1>6, <1>7, <2>1 DEF OnWay
<1>8. ASSUME find_log_table(off) # NULL PROVE find_log_table(off)' = find_log_table(off)
  <2>1. find_log_table(off) = d3 /\ d3 \in Leaves
    BY <1>3, <1>8, WayTypes
  <2>2. d3 \in InTree /\ DownFrom(d3, off) = d3 /\ d3 # NULL
    BY <1>8, <2>1 DEF Leaves, DownFrom
  <2>3. find_log_table(off)' = DownFrom(d3, off)'
    BY <1>6, <2>2 DEF find_log_table, Down3, Down2, Down1, DownFrom
  <2> QED
    BY <1>1, <2>1, <2>2, <2>3
<1> QED
  BY <1>7, <1>8

\* The same for the tree after a step.
WayEndsAlways ==
    TreeInv => \A off \in Nat : \A n \in InTree :
        OnWay(n, off) => /\ node[n].type = TABLE => find_log_table(off) = n
                         /\ node[n].type # TABLE => OnWay(Child(n, off), off)

LEMMA WayEndsNow == WayEndsAlways
BY WayEnds DEF WayEndsAlways

LEMMA WayEndsThen == WayEndsAlways'
BY WayEndsNow, PTL

\* The way of a thread after a step, with its table and its offset named.
LEMMA WayNamed ==
    ASSUME NEW t, NEW n, NEW off, at'[t] = n, req'[t].off = off
    PROVE  /\ OnWay(at[t], req[t].off)' <=> OnWay(n, off)'
           /\ find_log_table(req[t].off)' = find_log_table(off)'
<1>1. OnWay(at[t], req[t].off)' <=> OnWay(n, off)'
  BY DEF OnWay, Child, Down1, Down2, Down3, DownFrom
<1>2. find_log_table(req[t].off)' = find_log_table(off)'
  BY DEF find_log_table, Child
<1> QED
  BY <1>1, <1>2

\* The way in a tree that does not change.
LEMMA WayUnchanged ==
    ASSUME NEW off, UNCHANGED tree
    PROVE  /\ \A n : OnWay(n, off)' <=> OnWay(n, off)
           /\ find_log_table(off)' = find_log_table(off)
<1>1. node' = node /\ skip' = skip
  BY DEF tree
<1>2. \A n : DownFrom(n, off)' = DownFrom(n, off)
  BY <1>1 DEF DownFrom, Child
<1>3. Down1(off)' = Down1(off) /\ Down2(off)' = Down2(off) /\ Down3(off)' = Down3(off)
  BY <1>1 DEF Down1, Down2, Down3, DownFrom, Child
<1>4. find_log_table(off) = DownFrom(Down3(off), off)
  BY DEF find_log_table, Down3, Down2, Down1, DownFrom
<1>5. PICK d : d = Down3(off) /\ d = Down3(off)'
  BY <1>3
<1>6. find_log_table(off)' = DownFrom(d, off)'
  <2>1. d = Down3(off)'
    BY <1>5
  <2> QED
    BY <2>1 DEF find_log_table, Down3, Down2, Down1, DownFrom, Child
<1>7. \A n : OnWay(n, off)' <=> OnWay(n, off)
  BY <1>1, <1>3 DEF OnWay
<1> QED
  BY <1>2, <1>4, <1>5, <1>6, <1>7

\* A thread that does not move keeps its way.
LEMMA OtherWay ==
    ASSUME TreeInv, Grows, NEW u, LookupInv(u), ThreadWay(u), prev_table' = prev_table,
           pc'[u] = pc[u], req'[u] = req[u], at'[u] = at[u]
    PROVE  ThreadWay(u)'
<1>1. PICK off, n : off = req[u].off /\ n = at[u]
  OBVIOUS
<1>2. pc[u] # "idle" => off \in Nat
  BY <1>1, Constants DEF LookupInv
<1>3. pc[u] \in {"walk", "alloc"} => OnWay(n, off)'
  BY <1>1, <1>2, WayStays DEF LookupInv, ThreadWay
<1>4. pc[u] \in AtLeaf => find_log_table(off)' = n
  <2>1. pc[u] \in AtLeaf => n # NULL
    BY <1>1, Constants DEF LookupInv, Leaves, InTree
  <2> QED
    BY <1>1, <1>2, <2>1, WayStays DEF ThreadWay, AtLeaf
<1>5. pc[u] = "reuse" => find_log_table(off)' = prev_table
  BY <1>1, <1>2, WayStays DEF ThreadWay, LookupInv
<1>6. at'[u] = n /\ req'[u].off = off
  BY <1>1
<1>7. /\ OnWay(at[u], req[u].off)' <=> OnWay(n, off)'
      /\ find_log_table(req[u].off)' = find_log_table(off)'
  BY <1>6, WayNamed
<1> QED
  BY <1>1, <1>3, <1>4, <1>5, <1>7 DEF ThreadWay

\* What a lookup has returned is found for ever.
LEMMA PlacedWay ==
    ASSUME TreeInv, Grows, NEW p, p.off \in Nat, p.table \in InTree,
           find_log_table(p.off) = p.table
    PROVE  p.table \in InTree' /\ find_log_table(p.off)' = p.table
<1>1. p.table # NULL /\ p.table \in InTree'
  BY Constants DEF InTree, Grows
<1> QED
  BY <1>1, WayStays

\* A step that leaves the cache alone, put together.
LEMMA WayStep ==
    ASSUME RadixInv, WayInv, Grows, NEW t \in Threads,
           \A u \in Threads : u # t => pc'[u] = pc[u] /\ req'[u] = req[u] /\ at'[u] = at[u],
           UNCHANGED prev, OneRegion', ThreadWay(t)',
           pc[t] = "set_index" => pc'[t] = "set_index",
           \A p \in placed' : \/ p \in placed
                              \/ /\ p.off \in Nat /\ p.table \in InTree
                                 /\ find_log_table(p.off) = p.table
    PROVE  WayInv'
<1>0. TreeInv /\ CacheInv /\ \A u \in Threads : LookupInv(u) /\ ThreadWay(u)
  BY DEF RadixInv, WayInv
<1>1. \A u \in Threads : ThreadWay(u)'
  BY <1>0, OtherWay DEF prev
<1>2. CacheWay'
  <2>1. CASE \E u \in Threads : pc[u] = "set_index"
    BY <2>1 DEF CacheWay
  <2>2. CASE \A off \in Nat : Region(off) = prev_table_index => find_log_table(off) = prev_table
    <3>1. ASSUME NEW off \in Nat, Region(off) = prev_table_index
          PROVE  find_log_table(off)' = prev_table
      <4>1. prev_table # NULL
        BY <1>0, <3>1, Regions, PowersOfFan DEF CacheInv
      <4> QED
        BY <1>0, <2>2, <3>1, <4>1, WayStays
    <3>2. \A off \in Nat : Region(off) = prev_table_index' => find_log_table(off)' = prev_table'
      BY <3>1 DEF prev
    <3> QED
      BY <3>2 DEF CacheWay
  <2> QED
    BY <2>1, <2>2 DEF WayInv, CacheWay
<1>3. \A p \in placed' : p.off \in Nat /\ p.table \in InTree' /\ find_log_table(p.off)' = p.table
  BY <1>0, PlacedWay DEF WayInv, PlacedWays
<1> QED
  BY <1>1, <1>2, <1>3 DEF WayInv, PlacedWays

\* A step of an active thread that does not change its request.
LEMMA RegionKept ==
    ASSUME OneRegion, NEW t \in Threads, req' = req, pc[t] # "idle",
           \A u \in Threads : u # t => pc'[u] = pc[u]
    PROVE  OneRegion'
BY DEF OneRegion, Active

LEMMA WayCall ==
    ASSUME SameRegion, RadixInv, WayInv, NEW t \in Threads, Call(t)
    PROVE  WayInv'
<1>0. PICK r \in Requests :
         /\ SameRegion => \A u \in Threads : pc[u] # "idle" => Region(req[u].off) = Region(r.off)
         /\ req' = [req EXCEPT ![t] = r]
  BY DEF Call
<1>1. /\ pc[t] = "idle" /\ pc' = [pc EXCEPT ![t] = "check"]
      /\ UNCHANGED <<tree, prev, at, scan, placed>> /\ ThreadFcns /\ TreeInv
  BY DEF Call, Goto, RadixInv
<1>2. /\ pc'[t] = "check" /\ \A u \in Threads : u # t => pc'[u] = pc[u]
      /\ req'[t] = r /\ \A u \in Threads : u # t => req'[u] = req[u]
  BY <1>0, <1>1, Assigned DEF ThreadFcns
<1>3. OneRegion'
  BY <1>0, <1>2 DEF WayInv, OneRegion, Active
<1>4. ThreadWay(t)'
  BY <1>2 DEF ThreadWay, AtLeaf
<1>5. Grows
  BY <1>1, SameTree
<1> QED
  BY <1>1, <1>2, <1>3, <1>4, <1>5, WayStep

\* A step of a thread that leaves the tree and the cache alone and moves to
\* table n.
LEMMA WayMove ==
    ASSUME RadixInv, WayInv, NEW t \in Threads, NEW to, NEW n, NEW off, off = req[t].off,
           UNCHANGED <<tree, prev, req, placed>>, pc' = [pc EXCEPT ![t] = to],
           at' = [at EXCEPT ![t] = n], pc[t] \notin {"idle", "set_index"}, to # "set_index",
           to \in {"walk", "alloc"} => OnWay(n, off),
           to \in AtLeaf => find_log_table(off) = n,
           to = "reuse" => find_log_table(off) = prev_table
    PROVE  WayInv'
<1>1. ThreadFcns /\ TreeInv
  BY DEF RadixInv
<1>2. /\ pc'[t] = to /\ \A u \in Threads : u # t => pc'[u] = pc[u]
      /\ at'[t] = n /\ \A u \in Threads : u # t => at'[u] = at[u]
  BY <1>1, Assigned DEF ThreadFcns
<1>3. OneRegion'
  BY <1>2, RegionKept DEF WayInv
<1>4. ThreadWay(t)'
  <2>1. /\ node' = node /\ skip' = skip /\ prev_table' = prev_table /\ req' = req
    BY DEF tree, prev
  <2>2. /\ OnWay(at[t], req[t].off)' <=> OnWay(n, off)
        /\ find_log_table(req[t].off)' = find_log_table(off)
    <3>1. at'[t] = n /\ req'[t].off = off
      BY <1>2, <2>1
    <3> QED
      BY <3>1, WayNamed, WayUnchanged
  <2> QED
    BY <1>2, <2>1, <2>2 DEF ThreadWay
<1>5. Grows
  BY <1>1, SameTree
<1> QED
  BY <1>2, <1>3, <1>4, <1>5, WayStep


LEMMA WayCheckPrev ==
    ASSUME RadixInv, WayInv, NEW t \in Threads, CheckPrev(t)
    PROVE  WayInv'
<1>1. PICK to : /\ to = IF prev_table_index = Region(req[t].off) THEN "reuse" ELSE "walk"
                /\ pc' = [pc EXCEPT ![t] = to]
  BY DEF CheckPrev, Goto
<1>2. /\ UNCHANGED <<tree, prev, req, placed>> /\ pc[t] = "check"
      /\ at' = [at EXCEPT ![t] = skip]
  BY DEF CheckPrev, MoveTo
<1>3. PICK off, n : off = req[t].off /\ n = skip
  OBVIOUS
<1>4. off \in Nat
  BY <1>2, <1>3, Constants DEF RadixInv, LookupInv
<1>5. to = "reuse" => find_log_table(off) = prev_table
  <2>1. to = "reuse" => prev_table_index = Region(off)
    BY <1>1, <1>3
  <2>2. CASE \E u \in Threads : pc[u] = "set_index"
    <3>1. PICK u \in Threads : pc[u] = "set_index"
      BY <2>2
    <3>2. Region(req[u].off) = Region(off)
      BY <1>2, <1>3, <3>1 DEF WayInv, OneRegion, Active
    <3>3. find_log_table(req[u].off) = prev_table
      BY <3>1 DEF WayInv, ThreadWay, AtLeaf
    <3> QED
      BY <3>2, <3>3, SameWay
  <2>3. CASE \A o \in Nat : Region(o) = prev_table_index => find_log_table(o) = prev_table
    BY <1>4, <2>1, <2>3
  <2> QED
    BY <2>2, <2>3 DEF WayInv, CacheWay
<1>6. OnWay(n, off)
  BY <1>3 DEF OnWay
<1>7. at' = [at EXCEPT ![t] = n] /\ pc[t] \notin {"idle", "set_index"}
  BY <1>2, <1>3
<1>8. to # "set_index" /\ to \notin AtLeaf
  BY <1>1 DEF AtLeaf
<1> QED
  BY <1>1, <1>2, <1>3, <1>5, <1>6, <1>7, <1>8, WayMove

LEMMA WayReuse ==
    ASSUME RadixInv, WayInv, NEW t \in Threads, Reuse(t)
    PROVE  WayInv'
<1>1. /\ UNCHANGED <<tree, prev, req, placed>> /\ pc[t] = "reuse"
      /\ at' = [at EXCEPT ![t] = prev_table] /\ pc' = [pc EXCEPT ![t] = "size"]
  BY DEF Reuse, MoveTo, Goto
<1>2. PICK off, n : off = req[t].off /\ n = prev_table
  OBVIOUS
<1>3. find_log_table(off) = n
  BY <1>1, <1>2 DEF WayInv, ThreadWay
<1>4. at' = [at EXCEPT ![t] = n] /\ pc[t] \notin {"idle", "set_index"}
  BY <1>1, <1>2
<1> QED
  BY <1>1, <1>2, <1>3, <1>4, WayMove

LEMMA WayWalk ==
    ASSUME RadixInv, WayInv, NEW t \in Threads, Walk(t)
    PROVE  WayInv'
<1>1. UNCHANGED <<tree, prev, req, placed>> /\ pc[t] = "walk"
  BY DEF Walk
<1>2. ThreadFcns /\ LookupInv(t) /\ TreeInv
  BY DEF RadixInv
<1>3. PICK off, n : off = req[t].off /\ n = at[t]
  OBVIOUS
<1>4. n \in InTree /\ off \in Nat /\ OnWay(n, off)
  BY <1>1, <1>2, <1>3, Constants DEF LookupInv, WayInv, ThreadWay
<1>5. at = [at EXCEPT ![t] = n] /\ pc = [pc EXCEPT ![t] = "walk"]
  BY <1>1, <1>2, <1>3 DEF ThreadFcns
<1>6. CASE /\ node[at[t]].type = TABLE
           /\ Goto(t, "set_table")
           /\ UNCHANGED at
  <2>1. find_log_table(off) = n
    BY <1>2, <1>3, <1>4, <1>6, WayEnds
  <2>2. at' = [at EXCEPT ![t] = n] /\ pc' = [pc EXCEPT ![t] = "set_table"]
    BY <1>5, <1>6 DEF Goto
  <2> QED
    BY <1>1, <1>3, <2>1, <2>2, WayMove
<1>7. CASE /\ node[at[t]].type # TABLE
           /\ Goto(t, "alloc")
           /\ UNCHANGED at
  <2>1. at' = [at EXCEPT ![t] = n] /\ pc' = [pc EXCEPT ![t] = "alloc"]
    BY <1>5, <1>7 DEF Goto
  <2> QED
    BY <1>1, <1>3, <1>4, <2>1, WayMove DEF AtLeaf
<1>8. CASE /\ node[at[t]].type # TABLE
           /\ MoveTo(t, Child(at[t], req[t].off))
           /\ UNCHANGED pc
  <2>1. PICK m : m = Child(n, off)
    OBVIOUS
  <2>2. OnWay(m, off)
    BY <1>2, <1>3, <1>4, <1>8, <2>1, WayEnds
  <2>3. at' = [at EXCEPT ![t] = m] /\ pc' = [pc EXCEPT ![t] = "walk"]
    BY <1>3, <1>5, <1>8, <2>1 DEF MoveTo
  <2> QED
    BY <1>1, <1>3, <2>2, <2>3, WayMove DEF AtLeaf
<1> QED
  BY <1>6, <1>7, <1>8 DEF Walk

LEMMA WayAlloc ==
    ASSUME RadixInv, WayInv, NEW t \in Threads, AllocTable(t)
    PROVE  WayInv'
<1>1. /\ UNCHANGED <<prev, req, placed>> /\ pc[t] = "alloc" /\ pc' = [pc EXCEPT ![t] = "walk"]
      /\ ThreadFcns /\ LookupInv(t) /\ TreeInv
  BY DEF AllocTable, Goto, RadixInv
<1>2. PICK b \in InTree' :
         /\ at' = [at EXCEPT ![t] = b] /\ at'[t] = b
         /\ b = node'[at[t]].entries[Index(node[at[t]].type, req[t].off)]
  BY AllocEffect
<1>3. TreeInv' /\ Grows /\ at[t] \in InTree /\ node[at[t]].type # TABLE
  BY AllocEffect
<1>4. PICK off, n : off = req[t].off /\ n = at[t]
  OBVIOUS
<1>5. n \in InTree /\ off \in Nat /\ OnWay(n, off)
  BY <1>1, <1>3, <1>4, Constants DEF LookupInv, WayInv, ThreadWay
<1>6. n \in InTree' /\ OnWay(n, off)' /\ node'[n].type = node[n].type
  BY <1>1, <1>3, <1>5, WayStays DEF Grows
<1>7. Child(n, off)' = b
  BY <1>2, <1>4, <1>6 DEF Child
<1>8. OnWay(b, off)'
  <2>1. OnWay(Child(n, off), off)'
    BY <1>3, <1>4, <1>5, <1>6, WayEndsThen DEF WayEndsAlways
  <2> QED
    BY <1>7, <2>1 DEF OnWay
<1>9. /\ pc'[t] = "walk" /\ \A u \in Threads : u # t => pc'[u] = pc[u]
      /\ \A u \in Threads : u # t => at'[u] = at[u]
  BY <1>1, <1>2, Assigned DEF ThreadFcns
<1>10. OneRegion'
  BY <1>1, <1>9, RegionKept DEF WayInv
<1>11. ThreadWay(t)'
  <2>1. at'[t] = b /\ req'[t].off = off
    BY <1>1, <1>2, <1>4
  <2>2. OnWay(at[t], req[t].off)'
    BY <1>8, <2>1, WayNamed
  <2> QED
    BY <1>9, <2>2 DEF ThreadWay, AtLeaf
<1> QED
  BY <1>1, <1>3, <1>9, <1>10, <1>11, WayStep


\* Nothing that a lookup returned is lost while the tree does not change.
LEMMA PlacedSame ==
    ASSUME PlacedWays, UNCHANGED <<tree, placed>>
    PROVE  PlacedWays'
<1>1. InTree' = InTree
  BY DEF tree, InTree
<1>2. \A p \in placed : find_log_table(p.off)' = find_log_table(p.off)
  BY WayUnchanged
<1> QED
  BY <1>1, <1>2 DEF PlacedWays

\* Both stores into the cache: all threads in a lookup agree on the table.
LEMMA WaySetPrevTable ==
    ASSUME RadixInv, WayInv, NEW t \in Threads, SetPrevTable(t)
    PROVE  WayInv'
<1>1. /\ UNCHANGED <<tree, prev_table_index, req, at, placed>> /\ pc[t] = "set_table"
      /\ prev_table' = at[t] /\ pc' = [pc EXCEPT ![t] = "set_index"] /\ ThreadFcns
  BY DEF SetPrevTable, Goto, RadixInv
<1>2. /\ pc'[t] = "set_index" /\ \A u \in Threads : u # t => pc'[u] = pc[u]
  BY <1>1, Assigned DEF ThreadFcns
<1>3. OneRegion'
  BY <1>1, <1>2, RegionKept DEF WayInv
<1>4. find_log_table(req[t].off) = at[t]
  BY <1>1 DEF WayInv, ThreadWay, AtLeaf
<1>5. ASSUME NEW u \in Threads PROVE ThreadWay(u)'
  <2>1. PICK off, n : off = req[u].off /\ n = at[u]
    OBVIOUS
  <2>2. /\ OnWay(at[u], req[u].off)' <=> OnWay(n, off)
        /\ find_log_table(req[u].off)' = find_log_table(off)
    <3>1. at'[u] = n /\ req'[u].off = off
      BY <1>1, <2>1
    <3> QED
      BY <1>1, <3>1, WayNamed, WayUnchanged
  <2>3. pc[u] # "idle" => find_log_table(off) = at[t]
    <3>1. pc[u] # "idle" => Region(off) = Region(req[t].off)
      BY <1>1, <2>1 DEF WayInv, OneRegion, Active
    <3> QED
      BY <1>4, <3>1, SameWay
  <2>4. /\ pc[u] \in {"walk", "alloc"} => OnWay(n, off)
        /\ pc[u] \in AtLeaf => find_log_table(off) = n
    BY <2>1 DEF WayInv, ThreadWay
  <2>5. pc'[u] \in {"walk", "alloc"} => OnWay(at[u], req[u].off)'
    BY <1>2, <2>2, <2>4
  <2>6. pc'[u] \in AtLeaf => find_log_table(req[u].off)' = at'[u]
    BY <1>1, <1>2, <2>1, <2>2, <2>4 DEF AtLeaf
  <2>7. pc'[u] = "reuse" => find_log_table(req[u].off)' = prev_table'
    BY <1>1, <1>2, <2>2, <2>3
  <2>8. pc'[u] = "set_index" => prev_table' = at'[u]
    <3>1. u # t /\ pc[u] = "set_index" => at[u] = at[t]
      BY <2>1, <2>3, <2>4 DEF AtLeaf
    <3> QED
      BY <1>1, <1>2, <3>1
  <2> QED
    BY <2>5, <2>6, <2>7, <2>8 DEF ThreadWay
<1>6. CacheWay'
  BY <1>2 DEF CacheWay
<1>7. PlacedWays'
  BY <1>1, PlacedSame DEF WayInv
<1> QED
  BY <1>3, <1>5, <1>6, <1>7 DEF WayInv

LEMMA WaySetPrevIndex ==
    ASSUME RadixInv, WayInv, NEW t \in Threads, SetPrevIndex(t)
    PROVE  WayInv'
<1>1. /\ UNCHANGED <<tree, prev_table, req, at, placed>> /\ pc[t] = "set_index"
      /\ prev_table_index' = Region(req[t].off) /\ pc' = [pc EXCEPT ![t] = "size"]
      /\ ThreadFcns /\ TreeInv
  BY DEF SetPrevIndex, Goto, RadixInv
<1>2. /\ pc'[t] = "size" /\ \A u \in Threads : u # t => pc'[u] = pc[u]
  BY <1>1, Assigned DEF ThreadFcns
<1>3. OneRegion'
  BY <1>1, <1>2, RegionKept DEF WayInv
<1>4. find_log_table(req[t].off) = at[t] /\ prev_table = at[t]
  BY <1>1 DEF WayInv, ThreadWay, AtLeaf
<1>5. ASSUME NEW u \in Threads PROVE ThreadWay(u)'
  <2>1. CASE u # t
    BY <1>1, <1>2, <2>1, SameTree, OtherWay DEF WayInv, RadixInv
  <2>2. CASE u = t
    <3>1. PICK off, n : off = req[t].off /\ n = at[t]
      OBVIOUS
    <3>2. at'[t] = n /\ req'[t].off = off
      BY <1>1, <3>1
    <3>3. find_log_table(req[t].off)' = n
      BY <1>1, <1>4, <3>1, <3>2, WayNamed, WayUnchanged
    <3> QED
      BY <1>2, <2>2, <3>2, <3>3 DEF ThreadWay, AtLeaf
  <2> QED
    BY <2>1, <2>2
<1>6. CacheWay'
  <2>1. ASSUME NEW o \in Nat, Region(o) = Region(req[t].off)
        PROVE  find_log_table(o)' = prev_table
    <3>1. find_log_table(o) = find_log_table(req[t].off)
      BY <2>1, SameWay
    <3> QED
      BY <1>1, <1>4, <3>1, WayUnchanged
  <2> QED
    BY <1>1, <2>1 DEF CacheWay
<1>7. PlacedWays'
  BY <1>1, PlacedSame DEF WayInv
<1> QED
  BY <1>3, <1>5, <1>6, <1>7 DEF WayInv

\* A lookup returns the table it is at.
LEMMA WayReturn ==
    ASSUME RadixInv, WayInv, NEW t \in Threads, NEW s, NEW f, Return(t, s, f), Grows,
           pc[t] \in {"size", "size_cas"}, UNCHANGED prev
    PROVE  WayInv'
<1>1. /\ req' = [req EXCEPT ![t] = NULL] /\ at' = [at EXCEPT ![t] = NULL]
      /\ pc' = [pc EXCEPT ![t] = "idle"] /\ ThreadFcns /\ LookupInv(t)
  BY DEF Return, MoveTo, Goto, RadixInv
<1>2. /\ pc'[t] = "idle" /\ \A u \in Threads : u # t => pc'[u] = pc[u]
      /\ \A u \in Threads : u # t => at'[u] = at[u]
      /\ \A u \in Threads : u # t => req'[u] = req[u]
  BY <1>1, Assigned DEF ThreadFcns
<1>3. OneRegion'
  BY <1>2 DEF WayInv, OneRegion, Active
<1>4. ThreadWay(t)'
  BY <1>2 DEF ThreadWay, AtLeaf
<1>5. ASSUME NEW p \in placed'
      PROVE  \/ p \in placed
             \/ /\ p.off \in Nat /\ p.table \in InTree
                /\ find_log_table(p.off) = p.table
  <2>1. p \in placed \/ (p.off = req[t].off /\ p.table = at[t])
    BY <1>5 DEF Return
  <2>2. /\ req[t].off \in Nat /\ at[t] \in InTree /\ find_log_table(req[t].off) = at[t]
    BY <1>1, Constants DEF LookupInv, Leaves, AtLeaf, WayInv, ThreadWay
  <2> QED
    BY <2>1, <2>2
<1> QED
  BY <1>2, <1>3, <1>4, <1>5, WayStep

LEMMA WayTestSize ==
    ASSUME RadixInv, WayInv, NEW t \in Threads, TestSize(t)
    PROVE  WayInv'
<1>1. UNCHANGED <<tree, prev>> /\ pc[t] = "size" /\ TreeInv /\ ThreadFcns
  BY DEF TestSize, RadixInv
<1>2. CASE Return(t, node[at[t]].log_size, FALSE)
  BY <1>1, <1>2, SameTree, WayReturn
<1>3. CASE Goto(t, "size_cas") /\ UNCHANGED <<req, at, placed>>
  <2>1. PICK off, n : off = req[t].off /\ n = at[t]
    OBVIOUS
  <2>2. find_log_table(off) = n
    BY <1>1, <2>1 DEF WayInv, ThreadWay, AtLeaf
  <2>3. at' = [at EXCEPT ![t] = n] /\ pc' = [pc EXCEPT ![t] = "size_cas"]
    BY <1>1, <1>3, <2>1 DEF ThreadFcns, Goto
  <2> QED
    BY <1>1, <1>3, <2>1, <2>2, <2>3, WayMove
<1> QED
  BY <1>2, <1>3 DEF TestSize

LEMMA WayCasSize ==
    ASSUME RadixInv, WayInv, NEW t \in Threads, CasSize(t)
    PROVE  WayInv'
<1>1. UNCHANGED <<pool, skip, prev>> /\ pc[t] = "size_cas" /\ Grows /\ ThreadFcns
  BY CasEffect DEF CasSize, RadixInv
<1>2. CASE \E s : Return(t, s, TRUE)
  BY <1>1, <1>2, WayReturn
<1>3. CASE Goto(t, "size") /\ UNCHANGED <<node, req, at, placed>>
  <2>1. PICK off, n : off = req[t].off /\ n = at[t]
    OBVIOUS
  <2>2. find_log_table(off) = n
    BY <1>1, <2>1 DEF WayInv, ThreadWay, AtLeaf
  <2>3. at' = [at EXCEPT ![t] = n] /\ pc' = [pc EXCEPT ![t] = "size"]
    BY <1>1, <1>3, <2>1 DEF ThreadFcns, Goto
  <2>4. UNCHANGED <<tree, prev, req, placed>>
    BY <1>1, <1>3 DEF tree
  <2> QED
    BY <1>1, <2>1, <2>2, <2>3, <2>4, WayMove
<1> QED
  BY <1>2, <1>3 DEF CasSize

\* The checkpoint thread only reads.
LEMMA WaySame ==
    ASSUME RadixInv, WayInv, UNCHANGED <<tree, prev, pc, req, at, placed>>
    PROVE  WayInv'
<1>1. OneRegion'
  BY DEF WayInv, OneRegion, Active
<1>2. \A u \in Threads : ThreadWay(u)'
  BY SameTree, OtherWay DEF WayInv, RadixInv, prev
<1>3. \A off : find_log_table(off)' = find_log_table(off)
  BY WayUnchanged
<1>4. CacheWay'
  BY <1>3 DEF WayInv, CacheWay, prev
<1>5. PlacedWays'
  BY PlacedSame DEF WayInv
<1> QED
  BY <1>1, <1>2, <1>4, <1>5 DEF WayInv

LEMMA WayInvNext ==
    ASSUME SameRegion, RadixInv, WayInv, [Next]_vars
    PROVE  WayInv'
<1>1. CASE CkptVisit \/ UNCHANGED vars
  BY <1>1, WaySame DEF CkptVisit, vars
<1>2. CASE \E t \in Threads : Call(t) \/ ThreadStep(t)
  BY <1>2, WayCall, WayCheckPrev, WayReuse, WayWalk, WayAlloc, WaySetPrevTable, WaySetPrevIndex,
     WayTestSize, WayCasSize DEF ThreadStep
<1> QED
  BY <1>1, <1>2 DEF Next

LEMMA WayInvInit == Init => WayInv
<1> SUFFICES ASSUME Init PROVE WayInv
  OBVIOUS
<1>1. /\ \A t \in Threads : pc[t] = "idle"
      /\ prev_table_index = -1 /\ placed = {}
  BY DEF Init
<1>2. CacheWay
  <2>1. \A off \in Nat : Region(off) # -1
    BY Regions
  <2> QED
    BY <1>1, <2>1 DEF CacheWay
<1>3. OneRegion
  BY <1>1 DEF OneRegion, Active
<1>4. \A t \in Threads : ThreadWay(t)
  BY <1>1 DEF ThreadWay, AtLeaf
<1> QED
  BY <1>1, <1>2, <1>3, <1>4 DEF WayInv, PlacedWays

\* While calls that overlap in time stay within one table's region, the
\* checkpoint thread's find_log_table leads to every table that get_log_table
\* has returned, through the prev_table cache or not: no log is out of its
\* reach.  (Calls on different regions can pair the table of one with the index
\* of the other in the cache, and the property is then violated.)
THEOREM SlotsFindable == ASSUME SameRegion PROVE Spec => []Findable
<1>1. Init => WayInv
  BY WayInvInit
<1>2. SameRegion /\ RadixInv /\ WayInv /\ [Next]_vars => WayInv'
  BY WayInvNext
<1>3. WayInv => Findable
  BY DEF WayInv, PlacedWays, Findable
<1>4. SameRegion
  OBVIOUS
<1> QED
  BY <1>1, <1>2, <1>3, <1>4, RadixInvAlways, PTL DEF Spec


-----------------------------------------------------------------------------
(* What set_log_size computes.                                              *)

LEMMA Half ==
    ASSUME NEW n \in Nat
    PROVE  n \div 2 \in Nat /\ (n # 0 => n \div 2 < n) /\ n \div 2 <= n
OBVIOUS

\* The loop of set_log_size for lengths up to k.
HalvesTo(h, k) ==
    /\ h \in [0 .. k -> Nat]
    /\ \A n \in 0 .. k : h[n] = IF n = 0 THEN 0 ELSE 1 + h[n \div 2]

\* The loop ends for every length, so the recursion defines a function.
LEMMA HalvingsIs ==
    /\ Halvings \in [Nat -> Nat]
    /\ \A n \in Nat : Halvings[n] = IF n = 0 THEN 0 ELSE 1 + Halvings[n \div 2]
<1>1. ASSUME NEW k \in Nat PROVE \E h : HalvesTo(h, k)
  <2> DEFINE S == {j \in Nat : ~ \E h : HalvesTo(h, j)}
  <2>1. SUFFICES ASSUME S # {} PROVE FALSE
    OBVIOUS
  <2>2. PICK x \in S : \A y \in S : x <= y
    BY <2>1, Least
  <2>3. x # 0
    <3>1. HalvesTo([n \in 0 .. 0 |-> 0], 0)
      BY DEF HalvesTo
    <3> QED
      BY <2>2, <3>1
  <2>4. x - 1 \in Nat /\ x - 1 \notin S /\ x \in Nat
    BY <2>2, <2>3
  <2>5. PICK h : HalvesTo(h, x - 1)
    BY <2>4
  <2>6. PICK g : g = [n \in 0 .. x |-> IF n = x THEN 1 + h[x \div 2] ELSE h[n]]
    OBVIOUS
  <2>7. h \in [0 .. x - 1 -> Nat] /\ x \div 2 \in 0 .. x - 1
    BY <2>3, <2>4, <2>5, Half DEF HalvesTo
  <2>8. g \in [0 .. x -> Nat]
    BY <2>4, <2>6, <2>7
  <2>9. ASSUME NEW n \in 0 .. x PROVE g[n] = IF n = 0 THEN 0 ELSE 1 + g[n \div 2]
    <3>1. n \div 2 \in 0 .. x /\ (n # 0 => n \div 2 # x) /\ n \in Nat
      BY <2>4, <2>9, Half
    <3>2. CASE n = x
      BY <2>3, <2>6, <2>7, <3>1, <3>2
    <3>3. CASE n # x
      <4>1. n \in 0 .. x - 1
        BY <2>4, <2>9, <3>3
      <4>2. h[n] = IF n = 0 THEN 0 ELSE 1 + h[n \div 2]
        BY <2>5, <4>1 DEF HalvesTo
      <4> QED
        BY <2>6, <3>1, <3>3, <4>2
    <3> QED
      BY <3>2, <3>3
  <2>10. HalvesTo(g, x)
    BY <2>8, <2>9 DEF HalvesTo
  <2> QED
    BY <2>2, <2>10
<1>2. ASSUME NEW k \in Nat, NEW j \in Nat, NEW h, NEW g, HalvesTo(h, k), HalvesTo(g, j),
             NEW m \in Nat, m <= k, m <= j
      PROVE  h[m] = g[m]
  <2> DEFINE S == {n \in Nat : n <= k /\ n <= j /\ h[n] # g[n]}
  <2>1. SUFFICES ASSUME S # {} PROVE FALSE
    BY <1>2
  <2>2. PICK x \in S : \A y \in S : x <= y
    BY <2>1, Least
  <2>3. x \in Nat /\ x \in 0 .. k /\ x \in 0 .. j /\ h[x] # g[x]
    BY <2>2
  <2>4. x # 0
    BY <1>2, <2>3 DEF HalvesTo
  <2>5. h[x \div 2] # g[x \div 2]
    BY <1>2, <2>3, <2>4 DEF HalvesTo
  <2>6. x \div 2 \in Nat /\ x \div 2 < x
    BY <2>3, <2>4, Half
  <2>7. x \div 2 \in S
    BY <2>3, <2>5, <2>6
  <2> QED
    BY <2>2, <2>6, <2>7
<1>3. PICK c : \A k \in Nat : HalvesTo(c[k], k)
  <2>1. PICK c : c = [k \in Nat |-> CHOOSE h : HalvesTo(h, k)]
    OBVIOUS
  <2> QED
    BY <1>1, <2>1
<1>4. PICK f : f = [n \in Nat |-> c[n][n]]
  OBVIOUS
<1>5. ASSUME NEW n \in Nat PROVE f[n] = IF n = 0 THEN 0 ELSE 1 + f[n \div 2]
  <2>1. n \div 2 \in Nat /\ n \div 2 <= n
    BY Half
  <2>2. c[n][n \div 2] = c[n \div 2][n \div 2]
    BY <1>2, <1>3, <2>1
  <2>3. c[n][n] = IF n = 0 THEN 0 ELSE 1 + c[n][n \div 2]
    BY <1>3 DEF HalvesTo
  <2> QED
    BY <1>4, <2>1, <2>2, <2>3
<1>6. \A n \in Nat : f[n] \in Nat
  <2>1. ASSUME NEW n \in Nat PROVE c[n][n] \in Nat
    BY <1>3 DEF HalvesTo
  <2> QED
    BY <1>4, <2>1
<1>7. f = [n \in Nat |-> IF n = 0 THEN 0 ELSE 1 + f[n \div 2]]
  BY <1>4, <1>5
<1>8. Halvings = [n \in Nat |-> IF n = 0 THEN 0 ELSE 1 + Halvings[n \div 2]]
  BY <1>7 DEF Halvings
<1>9. Halvings \in [Nat -> Nat]
  <2> DEFINE S == {n \in Nat : Halvings[n] \notin Nat}
  <2>1. SUFFICES ASSUME S # {} PROVE FALSE
    BY <1>8
  <2>2. PICK x \in S : \A y \in S : x <= y
    BY <2>1, Least
  <2>3. x \in Nat /\ Halvings[x] \notin Nat /\ Halvings[x] = IF x = 0 THEN 0 ELSE 1 + Halvings[x \div 2]
    BY <1>8, <2>2
  <2>4. x # 0 /\ Halvings[x \div 2] \notin Nat
    BY <2>3
  <2>5. x \div 2 \in S /\ x \div 2 < x
    BY <2>3, <2>4, Half
  <2> QED
    BY <2>2, <2>3, <2>5
<1> QED
  BY <1>8, <1>9

LEMMA Division ==
    ASSUME NEW a \in Nat, NEW b \in Nat \ {0}
    PROVE  /\ a \div b \in Nat /\ a % b \in 0 .. b - 1
           /\ a = b * (a \div b) + (a % b)
OBVIOUS

LEMMA DivisionIs ==
    ASSUME NEW a \in Nat, NEW b \in Nat \ {0}, NEW c \in Nat, NEW r \in 0 .. b - 1, a = b * c + r
    PROVE  a \div b = c /\ a % b = r
OBVIOUS

LEMMA DivisionTwice ==
    ASSUME NEW a \in Nat, NEW b \in Nat \ {0}, NEW c \in Nat \ {0}
    PROVE  (a \div b) \div c = a \div (b * c)
OBVIOUS

\* The halvings of a number are the bits it takes.
LEMMA HalvingsBits ==
    ASSUME NEW k \in 0 .. NrLogSizes, NEW m \in Nat
    PROVE  Halvings[m] <= k <=> m < 2^k
<1> DEFINE P(j) == \A n \in Nat : Halvings[n] <= j <=> n < 2^j
           S == {j \in 0 .. NrLogSizes : ~P(j)}
<1>1. SUFFICES ASSUME S # {} PROVE FALSE
  OBVIOUS
<1>2. S \in SUBSET Nat
  BY Constants
<1>3. PICK x \in S : \A y \in S : x <= y
  BY <1>1, <1>2, Least
<1>4. x \in 0 .. NrLogSizes /\ NrLogSizes \in Nat
  BY <1>3, Constants
<1>5. CASE x = 0
  <2>1. 2^x = 1
    BY <1>5, PowersOfTwo
  <2>2. ASSUME NEW n \in Nat PROVE Halvings[n] <= 0 <=> n < 1
    <3>1. n \div 2 \in Nat /\ Halvings[n \div 2] \in Nat /\ Halvings[n] \in Nat
      BY Half, HalvingsIs
    <3> QED
      BY <3>1, HalvingsIs
  <2> QED
    BY <1>3, <1>5, <2>1, <2>2
<1>6. CASE x # 0
  <2>1. PICK j : j = x - 1 /\ j \in 0 .. NrLogSizes /\ x = j + 1
    BY <1>4, <1>6
  <2>2. P(j)
    BY <1>3, <1>4, <2>1
  <2>3. 2^x = 2 * 2^j /\ 2^j \in Nat \ {0}
    <3>1. 1 \in 0 .. NrLogSizes
      BY Constants
    <3>2. 2^(1 + j) = 2^1 * 2^j /\ 2^j \in Nat \ {0} /\ 2^1 = 2
      BY <2>1, <3>1, PowersOfTwo
    <3>3. 1 + j = x
      BY <1>4, <2>1
    <3> QED
      BY <3>2, <3>3
  <2>4. ASSUME NEW n \in Nat PROVE Halvings[n] <= x <=> n < 2^x
    <3>1. /\ n \div 2 \in Nat /\ Halvings[n \div 2] \in Nat
          /\ Halvings[n \div 2] <= j <=> n \div 2 < 2^j
      BY <2>2, Half, HalvingsIs
    <3>2. PICK w : w = 2^j /\ w \in Nat \ {0} /\ 2^x = 2 * w
      BY <2>3
    <3>3. n \div 2 < w <=> n < 2 * w
      BY <3>2
    <3>4. Halvings[n] = IF n = 0 THEN 0 ELSE 1 + Halvings[n \div 2]
      BY HalvingsIs
    <3>5. CASE n = 0
      BY <1>4, <3>2, <3>4, <3>5
    <3>6. CASE n # 0
      <4>1. Halvings[n] <= x <=> Halvings[n \div 2] <= j
        BY <1>4, <2>1, <3>1, <3>4, <3>6
      <4> QED
        BY <3>1, <3>2, <3>3, <4>1
    <3> QED
      BY <3>5, <3>6
  <2> QED
    BY <1>3, <2>4
<1> QED
  BY <1>5, <1>6

\* set_log_size: the least log block that takes the access, or the greatest.
LEMMA SizeIsLeast ==
    ASSUME NEW off \in Nat, NEW len \in Nat \ {0}, NEW s, s = set_log_size(off, len)
    PROVE  /\ s \in Sizes
           /\ LOG_SIZE(s) >= (off % PageCells) + len \/ s = NrLogSizes - 1
           /\ s > 0 => LOG_SIZE(s - 1) < (off % PageCells) + len
<1>1. PICK need, m : /\ need = (off % PageCells) + len
                     /\ m = (len + (off % PageCells) - 1) \div PageCells
  OBVIOUS
<1>2. PICK r : r = off % PageCells /\ r \in Nat
  BY Constants, Division
<1>3. PageCells \in Nat \ {0} /\ NrLogSizes \in Nat \ {0}
  BY Constants
<1>4. need \in Nat \ {0} /\ m = (need - 1) \div PageCells
  <2>1. need = r + len /\ m = (len + r - 1) \div PageCells
    BY <1>1, <1>2
  <2>2. need \in Nat \ {0} /\ need - 1 = len + r - 1
    BY <1>2, <2>1
  <2> QED
    BY <2>1, <2>2
<1>5. m \in Nat /\ PageCells * m < need /\ need <= PageCells * (m + 1)
  <2>1. need - 1 \in Nat
    BY <1>4
  <2>2. /\ m \in Nat /\ (need - 1) % PageCells \in 0 .. PageCells - 1
        /\ need - 1 = PageCells * m + ((need - 1) % PageCells)
    BY <1>3, <1>4, <2>1, Division
  <2>3. PICK z, y : z = (need - 1) % PageCells /\ y = PageCells * m /\ y \in Nat
    BY <1>3, <2>2
  <2>4. z \in 0 .. PageCells - 1 /\ need - 1 = y + z
    BY <2>2, <2>3
  <2>5. y < need /\ need <= y + PageCells
    BY <1>3, <1>4, <2>3, <2>4
  <2>6. PageCells * (m + 1) = y + PageCells
    BY <1>3, <2>2, <2>3
  <2> QED
    BY <2>2, <2>3, <2>5, <2>6
<1>6. Halvings[m] \in Nat
  BY <1>5, HalvingsIs
<1>7. s = IF Halvings[m] \in Sizes THEN Halvings[m] ELSE NrLogSizes - 1
  BY <1>1 DEF set_log_size
<1>8. s \in Sizes /\ s \in 0 .. NrLogSizes
  BY <1>3, <1>7 DEF Sizes
<1>9. ASSUME Halvings[m] \in Sizes PROVE LOG_SIZE(s) >= need
  <2>1. PICK w : w = 2^s /\ w \in Nat \ {0}
    BY <1>8, PowersOfTwo
  <2>2. m < w
    BY <1>5, <1>6, <1>7, <1>8, <1>9, <2>1, HalvingsBits
  <2>3. m + 1 <= w /\ m + 1 \in Nat
    BY <1>5, <2>1, <2>2
  <2>4. PageCells * (m + 1) <= PageCells * w
    BY <1>3, <2>1, <2>3
  <2>5. PageCells * (m + 1) \in Nat /\ PageCells * w \in Nat
    BY <1>3, <2>1, <2>3
  <2>6. LOG_SIZE(s) = PageCells * w
    BY <2>1 DEF LOG_SIZE
  <2> QED
    BY <1>4, <1>5, <2>4, <2>5, <2>6
<1>10. ASSUME s > 0 PROVE LOG_SIZE(s - 1) < need
  <2>1. s - 1 \in 0 .. NrLogSizes /\ s \in Nat
    BY <1>3, <1>8, <1>10 DEF Sizes
  <2>2. PICK w : w = 2^(s - 1) /\ w \in Nat \ {0}
    BY <2>1, PowersOfTwo
  <2>3. ~(Halvings[m] <= s - 1)
    BY <1>3, <1>6, <1>7, <1>10, <2>1 DEF Sizes
  <2>4. w <= m
    BY <1>5, <2>1, <2>2, <2>3, HalvingsBits
  <2>5. PageCells * w <= PageCells * m
    BY <1>3, <1>5, <2>2, <2>4
  <2>6. PageCells * w \in Nat /\ PageCells * m \in Nat
    BY <1>3, <1>5, <2>2
  <2>7. LOG_SIZE(s - 1) = PageCells * w
    BY <2>2 DEF LOG_SIZE
  <2> QED
    BY <1>4, <1>5, <2>5, <2>6, <2>7
<1> QED
  BY <1>1, <1>7, <1>8, <1>9, <1>10


-----------------------------------------------------------------------------
(* What lookups return.                                                     *)

\* A lookup returns the size of its table; the first one sets it.
PlacedInv ==
    \A p \in placed :
       /\ \E r \in Requests : r.off = p.off /\ r.len = p.len
       /\ p.table \in InTree /\ p.size \in Sizes /\ node[p.table].log_size = p.size
       /\ p.index = TABLE_INDEX(p.size, p.off)
       /\ p.first => p.size = set_log_size(p.off, p.len)

LEMMA PlacedKept ==
    ASSUME PlacedInv, Grows, NEW p \in placed
    PROVE  p.table \in InTree' /\ node'[p.table].log_size = p.size
<1>1. p.table \in InTree /\ p.size \in Sizes /\ node[p.table].log_size = p.size
  BY DEF PlacedInv
<1>2. p.size # NrLogSizes
  BY <1>1, Constants DEF Sizes
<1> QED
  BY <1>1, <1>2 DEF Grows

LEMMA PlacedStep ==
    ASSUME PlacedInv, Grows, placed' = placed
    PROVE  PlacedInv'
BY PlacedKept DEF PlacedInv

\* A lookup returns while its table has the size it returns.
LEMMA PlacedReturn ==
    ASSUME RadixInv, PlacedInv, Grows, NEW t \in Threads, pc[t] \in {"size", "size_cas"},
           NEW s \in Sizes, NEW f \in BOOLEAN, Return(t, s, f), node'[at[t]].log_size = s,
           f => s = set_log_size(req[t].off, req[t].len)
    PROVE  PlacedInv'
<1>1. PICK n, r, i : n = at[t] /\ r = req[t] /\ i = TABLE_INDEX(s, r.off)
  OBVIOUS
<1>2. n \in InTree /\ r \in Requests
  BY <1>1 DEF RadixInv, LookupInv, AtLeaf, Leaves
<1>3. n \in InTree' /\ node'[n].log_size = s
  BY <1>1, <1>2 DEF Grows
<1>4. PICK q : q = [off |-> r.off, len |-> r.len, first |-> f, table |-> n, size |-> s, index |-> i]
  OBVIOUS
<1>5. placed' = placed \cup {q}
  BY <1>1, <1>4 DEF Return
<1>6. q.off = r.off /\ q.len = r.len /\ q.first = f /\ q.table = n /\ q.size = s /\ q.index = i
  BY <1>4
<1>7. ASSUME NEW p \in placed'
      PROVE  /\ \E rr \in Requests : rr.off = p.off /\ rr.len = p.len
             /\ p.table \in InTree' /\ p.size \in Sizes /\ node'[p.table].log_size = p.size
             /\ p.index = TABLE_INDEX(p.size, p.off)
             /\ p.first => p.size = set_log_size(p.off, p.len)
  <2>1. CASE p \in placed
    BY <2>1, PlacedKept DEF PlacedInv
  <2>2. CASE p = q
    BY <1>1, <1>2, <1>3, <1>6, <2>2
  <2> QED
    BY <1>5, <2>1, <2>2
<1> QED
  BY <1>7 DEF PlacedInv

LEMMA PlacedNext ==
    ASSUME RadixInv, PlacedInv, [Next]_vars
    PROVE  PlacedInv'
<1>0. Grows
  BY GrowsNext
<1>1. ASSUME NEW t \in Threads, TestSize(t) PROVE PlacedInv'
  <2>1. pc[t] = "size" /\ node' = node /\ at[t] \in InTree /\ TreeInv
    BY <1>1 DEF TestSize, tree, RadixInv, LookupInv, AtLeaf, Leaves
  <2>2. CASE node[at[t]].log_size # NrLogSizes /\ Return(t, node[at[t]].log_size, FALSE)
    <3>1. PICK s : s = node[at[t]].log_size
      OBVIOUS
    <3>2. s \in 0 .. NrLogSizes
      BY <2>1, <3>1, NodeIs DEF TreeInv, InTree
    <3>3. s \in Sizes
      BY <2>2, <3>1, <3>2, Constants DEF Sizes
    <3>4. PICK f : f = FALSE
      OBVIOUS
    <3> QED
      BY <1>0, <2>1, <2>2, <3>1, <3>3, <3>4, PlacedReturn
  <2>3. CASE placed' = placed
    BY <1>0, <2>3, PlacedStep
  <2> QED
    BY <1>1, <2>2, <2>3 DEF TestSize
<1>2. ASSUME NEW t \in Threads, CasSize(t) PROVE PlacedInv'
  <2>1. pc[t] = "size_cas" /\ at[t] \in InTree /\ TreeInv /\ req[t] \in Requests
    BY <1>2 DEF CasSize, RadixInv, LookupInv, AtLeaf, Leaves
  <2>2. CASE /\ node' = [node EXCEPT ![at[t]].log_size = set_log_size(req[t].off, req[t].len)]
             /\ Return(t, set_log_size(req[t].off, req[t].len), TRUE)
    <3>1. PICK s, n : s = set_log_size(req[t].off, req[t].len) /\ n = at[t]
      OBVIOUS
    <3>2. s \in Sizes
      BY <2>1, <3>1, Constants, SizeIsLeast
    <3>3. node'[n].log_size = s
      <4>1. node' = [node EXCEPT ![n].log_size = s] /\ n \in Tables
        BY <2>1, <2>2, <3>1 DEF InTree
      <4>2. PICK y : y = node[n] /\ y \in Nodes
        BY <2>1, <4>1 DEF TreeInv
      <4>3. node'[n] = [y EXCEPT !.log_size = s]
        BY <2>1, <4>1, <4>2 DEF TreeInv
      <4> QED
        BY <4>2, <4>3 DEF Nodes
    <3>4. PICK f : f = TRUE
      OBVIOUS
    <3> QED
      BY <1>0, <2>1, <2>2, <3>1, <3>2, <3>3, <3>4, PlacedReturn
  <2>3. CASE placed' = placed
    BY <1>0, <2>3, PlacedStep
  <2> QED
    BY <1>2, <2>2, <2>3 DEF CasSize
<1>3. \/ \E t \in Threads : TestSize(t) \/ CasSize(t)
      \/ placed' = placed
  BY DEF Next, ThreadStep, vars, Call, CheckPrev, Reuse, Walk, AllocTable, SetPrevTable,
         SetPrevIndex, CkptVisit
<1> QED
  BY <1>0, <1>1, <1>2, <1>3, PlacedStep

LEMMA PlacedAlways == Spec => []PlacedInv
<1>1. Init => PlacedInv
  BY DEF Init, PlacedInv
<1>2. RadixInv /\ PlacedInv /\ [Next]_vars => PlacedInv'
  BY PlacedNext
<1> QED
  BY <1>1, <1>2, RadixInvAlways, PTL DEF Spec

\* The size that set_log_size computes from the first access to a table, with
\* its loop of halvings, is the least whose block takes the access from the
\* page it starts in, or the greatest: for every number of sizes, page size,
\* offset and length, at every page boundary.
THEOREM SizesFit == Spec => []SizeFits
<1>1. PlacedInv => SizeFits
  <2> SUFFICES ASSUME PlacedInv, NEW p \in placed, p.first
               PROVE  LET need == (p.off % PageCells) + p.len
                      IN  /\ LOG_SIZE(p.size) >= need \/ p.size = NrLogSizes - 1
                          /\ p.size > 0 => LOG_SIZE(p.size - 1) < need
    BY DEF SizeFits
  <2>1. p.off \in Nat /\ p.len \in Nat \ {0} /\ p.size = set_log_size(p.off, p.len)
    BY Constants DEF PlacedInv
  <2> QED
    BY <2>1, SizeIsLeast
<1> QED
  BY <1>1, PlacedAlways, PTL


-----------------------------------------------------------------------------
(* Slots and log blocks.                                                    *)

\* The offsets of the calls are ones that root->skip tells apart: those of the
\* file at open, up to the next power of the fan-out.
InReach == \A r \in Requests : r.off \div Span < Fan^(get_deepest_table_type(MaxOff) - 1)

ShapeInv == OneParent /\ node[skip].type = get_deepest_table_type(MaxOff)

LEMMA ShapeAlways == Spec => []ShapeInv
<1>1. Init => ShapeInv
  BY RadixInvInit DEF ShapeInv
<1>2. RadixInv /\ ShapeInv /\ [Next]_vars => ShapeInv'
  <2> SUFFICES ASSUME RadixInv, ShapeInv, [Next]_vars PROVE ShapeInv'
    OBVIOUS
  <2>1. Grows /\ (OneParent => OneParent')
    BY GrowsNext
  <2>2. node'[skip].type = node[skip].type /\ skip' = skip
    BY <2>1 DEF RadixInv, TreeInv, Grows
  <2> QED
    BY <2>1, <2>2 DEF ShapeInv
<1> QED
  BY <1>1, <1>2, RadixInvAlways, PTL DEF Spec

\* The way of find_log_table, where it ends at a table.
LEMMA WayTypesFound ==
    ASSUME TreeInv, NEW off \in Nat, find_log_table(off) # NULL
    PROVE  /\ Down1(off) \in InTree /\ Down2(off) \in InTree /\ Down3(off) \in InTree
           /\ node[skip].type # TABLE => node[Down1(off)].type = node[skip].type - 1
           /\ node[Down1(off)].type # TABLE => node[Down2(off)].type = node[Down1(off)].type - 1
           /\ find_log_table(off) = Down3(off)
<1>1. find_log_table(off) = Down3(off) /\ skip \in InTree /\ NULL \notin InTree
  BY WayTypes, Constants DEF TreeInv, InTree
<1>2. DownFrom(NULL, off) = NULL
  BY DEF DownFrom
<1>3. Down3(off) # NULL /\ Down2(off) # NULL /\ Down1(off) # NULL
  BY <1>1, <1>2 DEF Down3, Down2
<1>4. Down1(off) \in InTree /\ Down2(off) \in InTree /\ Down3(off) \in InTree
  BY <1>3, WayTypes DEF Leaves
<1>5. ASSUME NEW n \in InTree, node[n].type # TABLE, DownFrom(n, off) # NULL
      PROVE  node[DownFrom(n, off)].type = node[n].type - 1
  <2>1. DownFrom(n, off) = Child(n, off)
    BY <1>1, <1>5 DEF DownFrom
  <2> QED
    BY <1>5, <2>1, ChildIs
<1> QED
  BY <1>1, <1>3, <1>4, <1>5 DEF Down1, Down2

\* Two ways that meet have met before.
LEMMA WayUp ==
    ASSUME TreeInv, OneParent, NEW n \in InTree, NEW m \in InTree, node[n].type = node[m].type,
           NEW off1 \in Nat, NEW off2 \in Nat, DownFrom(n, off1) = DownFrom(m, off2),
           DownFrom(n, off1) # NULL
    PROVE  /\ n = m
           /\ node[n].type # TABLE => Index(node[n].type, off1) = Index(node[n].type, off2)
<1>1. n # NULL /\ m # NULL
  BY Constants DEF InTree
<1>2. CASE node[n].type = TABLE
  BY <1>1, <1>2 DEF DownFrom
<1>3. CASE node[n].type # TABLE
  <2>1. PICK i, j : i = Index(node[n].type, off1) /\ j = Index(node[m].type, off2)
    OBVIOUS
  <2>2. i \in 0 .. Fan - 1 /\ j \in 0 .. Fan - 1
    BY <1>3, <2>1, ChildIs
  <2>3. DownFrom(n, off1) = node[n].entries[i] /\ DownFrom(m, off2) = node[m].entries[j]
    BY <1>1, <1>3, <2>1 DEF DownFrom, Child
  <2>4. node[n].entries[i] = node[m].entries[j] /\ node[n].entries[i] # NULL
    BY <2>3
  <2>5. n = m /\ i = j
    BY <2>2, <2>4 DEF OneParent
  <2> QED
    BY <2>1, <2>5
<1> QED
  BY <1>2, <1>3

\* The digits of a region to the base Fan, one at a time.
LEMMA Digit ==
    ASSUME NEW type \in LMD .. LGD, NEW off1 \in Nat, NEW off2 \in Nat,
           Index(type, off1) = Index(type, off2),
           Region(off1) \div Fan^(type - 1) = Region(off2) \div Fan^(type - 1)
    PROVE  Region(off1) \div Fan^(type - 2) = Region(off2) \div Fan^(type - 2)
<1>1. PICK f, g, x, y : /\ f = Fan^(type - 2) /\ g = Fan
                        /\ x = Region(off1) /\ y = Region(off2)
  OBVIOUS
<1>2. f \in Nat \ {0} /\ g \in Nat \ {0} /\ x \in Nat /\ y \in Nat
  BY <1>1, Constants, Regions, PowersOfFan DEF LMD, LGD
<1>3. Fan^(type - 1) = f * g
  <2>1. type = 2 \/ type = 3 \/ type = 4
    BY DEF LMD, LGD
  <2>2. \A z \in Nat : 1 * z = z
    OBVIOUS
  <2>3. CASE type = 2
    BY <1>1, <1>2, <2>2, <2>3, PowersOfFan
  <2>4. CASE type = 3
    BY <1>1, <1>2, <2>4, PowersOfFan
  <2>5. CASE type = 4
    BY <1>1, <1>2, <2>5, PowersOfFan
  <2> QED
    BY <2>1, <2>3, <2>4, <2>5
<1>4. (x \div f) % g = (y \div f) % g
  BY <1>1 DEF Index, LMD
<1>5. x \div (f * g) = y \div (f * g)
  BY <1>1, <1>3
<1>6. /\ (x \div f) \div g = x \div (f * g) /\ (y \div f) \div g = y \div (f * g)
      /\ x \div f \in Nat /\ y \div f \in Nat
  BY <1>2, DivisionTwice, Division
<1>7. PICK v, w : v = x \div f /\ w = y \div f /\ v \in Nat /\ w \in Nat
  BY <1>6
<1>8. v % g = w % g /\ v \div g = w \div g
  BY <1>4, <1>5, <1>6, <1>7
<1>9. v = g * (v \div g) + (v % g) /\ w = g * (w \div g) + (w % g)
  BY <1>2, <1>7, Division
<1> QED
  BY <1>1, <1>7, <1>8, <1>9

\* A table is where the ways of one region end only.
LEMMA OneWay ==
    ASSUME TreeInv, OneParent, NEW off1 \in Nat, NEW off2 \in Nat,
           Region(off1) \div Fan^(node[skip].type - 1) = Region(off2) \div Fan^(node[skip].type - 1),
           find_log_table(off1) = find_log_table(off2), find_log_table(off1) # NULL
    PROVE  Region(off1) = Region(off2)
<1>1. PICK a1, a2, b1, b2, s : /\ a1 = Down1(off1) /\ a2 = Down1(off2)
                               /\ b1 = Down2(off1) /\ b2 = Down2(off2) /\ s = skip
  OBVIOUS
<1>2. {s, a1, a2, b1, b2} \subseteq InTree
  BY <1>1, WayTypesFound DEF TreeInv
<1>3. PICK T : T = node[s].type /\ T \in 1 .. 4
  BY <1>1, <1>2 DEF TreeInv, TABLE, LGD
<1>4. \A n \in InTree : node[n].type \in 1 .. 4
  BY DEF TreeInv, TABLE, LGD
<1>5. /\ a1 = DownFrom(s, off1) /\ a2 = DownFrom(s, off2)
      /\ b1 = DownFrom(a1, off1) /\ b2 = DownFrom(a2, off2)
      /\ DownFrom(b1, off1) = DownFrom(b2, off2) /\ DownFrom(b1, off1) # NULL
  BY <1>1, WayTypesFound DEF Down1, Down2, Down3
<1>6. \A n \in InTree : n # NULL
  BY Constants DEF InTree
<1>7. /\ node[a1].type = node[a2].type
      /\ node[s].type # 1 => node[a1].type = node[s].type - 1
      /\ node[s].type = 1 => node[a1].type = 1
  <2>1. /\ node[s].type # 1 => node[a1].type = node[s].type - 1
        /\ node[s].type # 1 => node[a2].type = node[s].type - 1
    BY <1>1, WayTypesFound DEF TABLE
  <2>2. node[s].type = 1 => a1 = s /\ a2 = s
    BY <1>5 DEF DownFrom, TABLE
  <2> QED
    BY <2>1, <2>2
<1>8. /\ node[b1].type = node[b2].type
      /\ node[a1].type # 1 => node[b1].type = node[a1].type - 1
      /\ node[a1].type = 1 => node[b1].type = 1
  <2>1. /\ node[a1].type # 1 => node[b1].type = node[a1].type - 1
        /\ node[a2].type # 1 => node[b2].type = node[a2].type - 1
    BY <1>1, WayTypesFound DEF TABLE
  <2>2. /\ node[a1].type = 1 => b1 = a1
        /\ node[a2].type = 1 => b2 = a2
    BY <1>5 DEF DownFrom, TABLE
  <2> QED
    BY <1>7, <2>1, <2>2
<1>9. b1 = b2 /\ (node[b1].type # 1 => Index(node[b1].type, off1) = Index(node[b1].type, off2))
  BY <1>2, <1>5, <1>8, WayUp DEF TABLE
<1>10. a1 = a2 /\ (node[a1].type # 1 => Index(node[a1].type, off1) = Index(node[a1].type, off2))
  <2>1. DownFrom(a1, off1) = DownFrom(a2, off2) /\ DownFrom(a1, off1) # NULL
    BY <1>2, <1>5, <1>6, <1>9
  <2> QED
    BY <1>2, <1>7, <2>1, WayUp DEF TABLE
<1>11. node[s].type # 1 => Index(node[s].type, off1) = Index(node[s].type, off2)
  <2>1. DownFrom(s, off1) = DownFrom(s, off2) /\ DownFrom(s, off1) # NULL
    BY <1>2, <1>5, <1>6, <1>10
  <2> QED
    BY <1>2, <2>1, WayUp DEF TABLE
<1>12. \A type \in 2 .. T : Index(type, off1) = Index(type, off2)
  <2>1. ASSUME NEW type \in 2 .. T PROVE Index(type, off1) = Index(type, off2)
    <3>1. type = T \/ type = T - 1 \/ type = T - 2
      BY <1>3, <2>1
    <3>2. T # 1 /\ (type # T => T - 1 # 1)
      BY <1>3, <2>1
    <3>3. CASE type = T
      BY <1>3, <1>11, <3>2, <3>3
    <3>4. CASE type = T - 1
      BY <1>3, <1>7, <1>10, <2>1, <3>2, <3>4
    <3>5. CASE type = T - 2
      BY <1>3, <1>7, <1>8, <1>9, <2>1, <3>2, <3>5
    <3> QED
      BY <3>1, <3>3, <3>4, <3>5
  <2> QED
    BY <2>1
<1> DEFINE E(k) == Region(off1) \div Fan^k = Region(off2) \div Fan^k
<1>13. E(T - 1)
  BY <1>1, <1>3
<1>14. ASSUME NEW type \in 2 .. T, E(type - 1) PROVE E(type - 2)
  BY <1>3, <1>12, <1>14, Digit DEF LMD, LGD
<1>15. E(0)
  <2>1. /\ T >= 2 /\ E(1) => E(0)
    <3>1. T >= 2 => 2 \in 2 .. T /\ 2 - 1 = 1 /\ 2 - 2 = 0
      BY <1>3
    <3> HIDE DEF E
    <3> QED
      BY <1>14, <3>1
  <2>2. /\ T >= 3 /\ E(2) => E(1)
    <3>1. T >= 3 => 3 \in 2 .. T /\ 3 - 1 = 2 /\ 3 - 2 = 1
      BY <1>3
    <3> HIDE DEF E
    <3> QED
      BY <1>14, <3>1
  <2>3. /\ T >= 4 /\ E(3) => E(2)
    <3>1. T >= 4 => 4 \in 2 .. T /\ 4 - 1 = 3 /\ 4 - 2 = 2
      BY <1>3
    <3> HIDE DEF E
    <3> QED
      BY <1>14, <3>1
  <2> HIDE DEF E
  <2>4. T = 1 \/ T = 2 \/ T = 3 \/ T = 4
    BY <1>3
  <2>5. CASE T = 1
    BY <1>13, <2>5
  <2>6. CASE T = 2
    BY <1>13, <2>1, <2>6
  <2>7. CASE T = 3
    BY <1>13, <2>1, <2>2, <2>7
  <2>8. CASE T = 4
    BY <1>13, <2>1, <2>2, <2>3, <2>8
  <2> QED
    BY <2>4, <2>5, <2>6, <2>7, <2>8
<1>16. Region(off1) \in Nat /\ Region(off2) \in Nat /\ Fan^0 = 1
  BY Regions, PowersOfFan
<1>17. \A x \in Nat : x \div 1 = x
  OBVIOUS
<1> QED
  BY <1>15, <1>16, <1>17

\* The log block of an offset, and its number in the table.
LEMMA BlockIs ==
    ASSUME NEW off \in Nat, NEW s \in Sizes, NEW L, NEW N, L = LOG_SIZE(s), N = NR_ENTRIES(s)
    PROVE  /\ L \in Nat \ {0} /\ N \in Nat \ {0} /\ Span = L * N
           /\ \A x : x \in (off - (off % L)) .. (off - (off % L)) + L - 1
                        <=> x \in Nat /\ x \div L = off \div L
<1>1. s \in 0 .. NrLogSizes /\ NrLogSizes - 1 - s \in 0 .. NrLogSizes /\ PageCells \in Nat \ {0}
  BY Constants DEF Sizes
<1>2. PICK u, N2 : u = 2^s /\ N2 = 2^(NrLogSizes - 1 - s)
  OBVIOUS
<1>3. u \in Nat \ {0} /\ N2 \in Nat \ {0} /\ Fan = u * N2
  <2>1. s + (NrLogSizes - 1 - s) = NrLogSizes - 1
    BY Constants DEF Sizes
  <2>2. 2^(s + (NrLogSizes - 1 - s)) = u * N2 /\ u \in Nat \ {0} /\ N2 \in Nat \ {0}
    BY <1>1, <1>2, PowersOfTwo
  <2> QED
    BY <2>1, <2>2 DEF Fan
<1>4. L = PageCells * u /\ N = N2 /\ Span = PageCells * Fan
  BY <1>2 DEF LOG_SIZE, NR_ENTRIES, Span
<1>5. /\ L \in Nat \ {0} /\ N \in Nat \ {0} /\ Span = L * N
  BY <1>1, <1>3, <1>4
<1>6. PICK c, r : c = off \div L /\ r = off % L
  OBVIOUS
<1>7. c \in Nat /\ r \in 0 .. L - 1 /\ off = L * c + r
  BY <1>5, <1>6, Division
<1>8. PICK b : b = L * c /\ b \in Nat /\ off = b + r
  BY <1>5, <1>7
<1>9. off - r = b
  BY <1>7, <1>8
<1>10. ASSUME NEW x \in b .. b + L - 1 PROVE x \in Nat /\ x \div L = c
  <2>1. PICK d : d = x - b
    OBVIOUS
  <2>2. d \in 0 .. L - 1 /\ x \in Nat /\ x = L * c + d
    BY <1>5, <1>8, <1>10, <2>1
  <2> QED
    BY <1>5, <1>7, <2>2, DivisionIs
<1>11. ASSUME NEW x \in Nat, x \div L = c PROVE x \in b .. b + L - 1
  <2>1. x % L \in 0 .. L - 1 /\ x = b + (x % L)
    BY <1>5, <1>8, <1>11, Division
  <2> QED
    BY <1>5, <1>8, <2>1
<1> QED
  BY <1>5, <1>6, <1>9, <1>10, <1>11

\* Offsets in reach are told apart by their regions.
LEMMA Reached ==
    ASSUME NEW off \in Nat, NEW k \in 0 .. 3, off \div Span < Fan^k
    PROVE  Region(off) = off \div Span /\ Region(off) \div Fan^k = 0
<1>1. PICK f : f = Fan /\ f \in Nat \ {0}
  BY PowersOfFan
<1>2. 1 <= f * f * f /\ f <= f * f * f /\ f * f <= f * f * f
  BY <1>1
<1>3. PICK x, g, h : x = off \div Span /\ g = Fan^k /\ h = Fan^3
  OBVIOUS
<1>4. x \in Nat /\ g \in Nat \ {0} /\ h \in Nat \ {0} /\ x < g
  <2>1. x \in Nat /\ x < g
    BY <1>3, Constants, Division
  <2>2. g \in Nat \ {0} /\ h \in Nat \ {0}
    BY <1>3, PowersOfFan
  <2> QED
    BY <2>1, <2>2
<1>5. g <= h
  <2>1. k = 0 \/ k = 1 \/ k = 2 \/ k = 3
    OBVIOUS
  <2>2. h = f * f * f
    BY <1>1, <1>3, PowersOfFan
  <2>3. CASE k = 0
    BY <1>2, <1>3, <2>2, <2>3, PowersOfFan
  <2>4. CASE k = 1
    BY <1>1, <1>2, <1>3, <2>2, <2>4, PowersOfFan
  <2>5. CASE k = 2
    BY <1>1, <1>2, <1>3, <2>2, <2>5, PowersOfFan
  <2>6. CASE k = 3
    BY <1>3, <1>4, <2>6
  <2> QED
    BY <2>1, <2>3, <2>4, <2>5, <2>6
<1>6. x % h = x /\ x \div g = 0
  <2>1. x = h * 0 + x /\ x \in 0 .. h - 1 /\ x = g * 0 + x /\ x \in 0 .. g - 1
    BY <1>4, <1>5
  <2> QED
    BY <1>4, <2>1, DivisionIs
<1> QED
  BY <1>3, <1>6 DEF Region

\* Two lookups, in a state of all the invariants.
LEMMA OneLogState ==
    ASSUME InReach, RadixInv, ShapeInv, PlacedInv, PlacedWays, NEW p \in placed, NEW q \in placed
    PROVE  Slot(p) = Slot(q) <=> Block(p) \cap Block(q) # {}
<1>1. TreeInv /\ OneParent /\ node[skip].type \in 1 .. 4
  BY DEF RadixInv, ShapeInv, TreeInv, TABLE, LGD
<1>2. PICK k : k = node[skip].type - 1 /\ k \in 0 .. 3
  BY <1>1
<1>3. /\ p.off \in Nat /\ p.size \in Sizes /\ node[p.table].log_size = p.size
      /\ p.index = TABLE_INDEX(p.size, p.off) /\ p.off \div Span < Fan^k
      /\ p.table \in InTree /\ find_log_table(p.off) = p.table
  BY <1>2, Constants DEF PlacedInv, InReach, ShapeInv, PlacedWays
<1>4. /\ q.off \in Nat /\ q.size \in Sizes /\ node[q.table].log_size = q.size
      /\ q.index = TABLE_INDEX(q.size, q.off) /\ q.off \div Span < Fan^k
      /\ q.table \in InTree /\ find_log_table(q.off) = q.table
  BY <1>2, Constants DEF PlacedInv, InReach, ShapeInv, PlacedWays
<1>5. /\ Region(p.off) = p.off \div Span /\ Region(q.off) = q.off \div Span
      /\ Region(p.off) \div Fan^k = Region(q.off) \div Fan^k
  BY <1>2, <1>3, <1>4, Reached
<1>6. p.table = q.table <=> p.off \div Span = q.off \div Span
  <2>1. p.table # NULL
    BY <1>3, Constants DEF InTree
  <2>2. p.table = q.table => Region(p.off) = Region(q.off)
    BY <1>1, <1>2, <1>3, <1>4, <1>5, <2>1, OneWay
  <2>3. Region(p.off) = Region(q.off) => p.table = q.table
    BY <1>3, <1>4, SameWay
  <2> QED
    BY <1>5, <2>2, <2>3
<1>7. PICK L, N : L = LOG_SIZE(p.size) /\ N = NR_ENTRIES(p.size)
  OBVIOUS
<1>8. PICK M, K : M = LOG_SIZE(q.size) /\ K = NR_ENTRIES(q.size)
  OBVIOUS
<1>9. /\ L \in Nat \ {0} /\ N \in Nat \ {0} /\ Span = L * N
      /\ \A x : x \in Block(p) <=> x \in Nat /\ x \div L = p.off \div L
  BY <1>3, <1>7, BlockIs DEF Block
<1>10. /\ M \in Nat \ {0} /\ K \in Nat \ {0} /\ Span = M * K
       /\ \A x : x \in Block(q) <=> x \in Nat /\ x \div M = q.off \div M
  BY <1>4, <1>8, BlockIs DEF Block
<1>11. p.index = (p.off \div L) % N /\ q.index = (q.off \div M) % K
  BY <1>3, <1>4, <1>7, <1>8 DEF TABLE_INDEX
<1>12. \A x \in Nat : (x \div L) \div N = x \div Span /\ (x \div M) \div K = x \div Span
  <2>1. ASSUME NEW x \in Nat PROVE (x \div L) \div N = x \div Span
    BY <1>9, DivisionTwice
  <2>2. ASSUME NEW x \in Nat PROVE (x \div M) \div K = x \div Span
    BY <1>10, DivisionTwice
  <2> QED
    BY <2>1, <2>2
<1>13. p.table = q.table => L = M /\ N = K
  BY <1>3, <1>4, <1>7, <1>8
<1>14. ASSUME Slot(p) = Slot(q) PROVE Block(p) \cap Block(q) # {}
  <2>1. p.table = q.table /\ p.index = q.index
    BY <1>14 DEF Slot
  <2>2. PICK v, w : v = p.off \div L /\ w = q.off \div L /\ v \in Nat /\ w \in Nat
    BY <1>3, <1>4, <1>9, Division
  <2>3. v % N = w % N
    BY <1>11, <1>13, <2>1, <2>2
  <2>4. v \div N = w \div N
    BY <1>3, <1>4, <1>6, <1>12, <2>1, <2>2
  <2>5. v = N * (v \div N) + (v % N) /\ w = N * (w \div N) + (w % N)
    BY <1>9, <2>2, Division
  <2>6. v = w
    BY <2>3, <2>4, <2>5
  <2>7. p.off \in Block(p) /\ p.off \in Block(q)
    BY <1>3, <1>9, <1>10, <1>13, <2>1, <2>2, <2>6
  <2> QED
    BY <2>7
<1>15. ASSUME Block(p) \cap Block(q) # {} PROVE Slot(p) = Slot(q)
  <2>1. PICK x : x \in Block(p) /\ x \in Block(q)
    BY <1>15
  <2>2. x \in Nat /\ x \div L = p.off \div L /\ x \div M = q.off \div M
    BY <1>9, <1>10, <2>1
  <2>3. p.off \div Span = x \div Span
    BY <1>3, <1>12, <2>2
  <2>4. q.off \div Span = x \div Span
    BY <1>4, <1>12, <2>2
  <2>5. p.table = q.table
    BY <1>6, <2>3, <2>4
  <2>6. p.index = q.index
    BY <1>11, <1>13, <2>2, <2>5
  <2> QED
    BY <2>5, <2>6 DEF Slot
<1> QED
  BY <1>14, <1>15

\* While overlapping calls stay within one table's region and offsets within
\* what root->skip tells apart, two lookups lead to one slot, and so to one
\* entry and its lock, exactly when they fall into one log block: for every
\* fan-out, page size and number of threads, whoever allocates the tables, sets
\* their sizes or goes through the prev_table cache.
THEOREM OneSlotPerBlock == ASSUME SameRegion, InReach PROVE Spec => []OneLog
<1>1. InReach /\ RadixInv /\ ShapeInv /\ PlacedInv /\ WayInv => OneLog
  BY OneLogState DEF OneLog, WayInv
<1>2. SameRegion /\ InReach
  OBVIOUS
<1>3. Init => WayInv
  BY WayInvInit
<1>4. SameRegion /\ RadixInv /\ WayInv /\ [Next]_vars => WayInv'
  BY WayInvNext
<1> QED
  BY <1>1, <1>2, <1>3, <1>4, RadixInvAlways, ShapeAlways, PlacedAlways, PTL DEF Spec

=============================================================================
