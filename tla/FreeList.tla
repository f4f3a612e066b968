------------------------------ MODULE FreeList ------------------------------
(***************************************************************************)
(* One object pool of src/src/allocator.c: a global list that hands whole  *)
(* batches to the providers of threads and gets whole batches back from    *)
(* their collectors.  Index entries, logs, log tables and mmios each have  *)
(* such a pool.                                                            *)
(*                                                                         *)
(* A list is a sequence of objects, first node first; the skip list is the *)
(* sequence of the nodes that end a batch.  An fnode_t stands for its      *)
(* object.  Providers and collectors are thread-local and the global list  *)
(* is used under its mutex, so an allocation and a free are one step each. *)
(* The counters of the global list are read only while it is created.      *)
(***************************************************************************)
EXTENDS Integers, Sequences, FiniteSets

CONSTANTS Threads,
          Unit,          \* skip_unit: NR_NODE_FILL or NR_MMIO_FILL
          Batches,       \* batches the global list is created with
          MaxSkipNodes   \* MAX_SKIP_NODES

ASSUME FreeListAssumption ==
    /\ IsFiniteSet(Threads)
    /\ {Unit, Batches, MaxSkipNodes} \subseteq Nat \ {0}

Count == Unit * Batches
Objects == 1 .. Count

VARIABLES
    global,     \* [list, skip]
    provider,   \* thread -> list
    collector,  \* thread -> [list, skip, list_cnt, skip_cnt]
    alive,      \* threads that have not ended
    used,       \* objects handed out and not freed
    failed      \* the thread that found the global list empty, or {}

vars == <<global, provider, collector, alive, used, failed>>

EmptyList == [list |-> <<>>, skip |-> <<>>, list_cnt |-> 0, skip_cnt |-> 0]

\* What put_global makes of object after object: the first one of every Unit
\* is marked, and ends up as the last one of its batch.
Created == [list |-> [i \in 1 .. Count |-> Count + 1 - i],
            skip |-> [k \in 1 .. Batches |-> Unit * (Batches - k) + 1]]

\* create_global_list
Init ==
    /\ global = Created
    /\ provider = [t \in Threads |-> <<>>]
    /\ collector = [t \in Threads |-> EmptyList]
    /\ alive = Threads
    /\ used = {}
    /\ failed = {}

-----------------------------------------------------------------------------
Place(list, node) == CHOOSE i \in 1 .. Len(list) : list[i] = node

CutShort(list, node) == SubSeq(list, 1, Place(list, node) - 1)

\* slist_cut_splice: the nodes of list down to node, and the rest.
Cut(list, node) == SubSeq(list, 1, Place(list, node))
Rest(list, node) == SubSeq(list, Place(list, node) + 1, Len(list))

\* fill_local_provider: the batch on top of the global list.
Batch == Cut(global.list, Head(global.skip))
Without == [list |-> Rest(global.list, Head(global.skip)), skip |-> Tail(global.skip)]

\* POP_PROVIDER
Alloc(t) ==
    /\ t \in alive /\ failed = {}
    /\ \/ /\ provider[t] # <<>>
          /\ provider' = [provider EXCEPT ![t] = Tail(@)]
          /\ used' = used \cup {Head(provider[t])}
          /\ UNCHANGED global
       \/ /\ provider[t] = <<>>
          /\ global.skip # <<>>
          /\ provider' = [provider EXCEPT ![t] = Tail(Batch)]
          /\ used' = used \cup {Head(Batch)}
          /\ global' = Without
    /\ UNCHANGED <<collector, alive, failed>>

\* fill_local_provider finds the skip list empty and ends the process.
Exhaust(t) ==
    /\ t \in alive /\ failed = {}
    /\ provider[t] = <<>>
    /\ global.skip = <<>>
    /\ failed' = {t}
    /\ UNCHANGED <<global, provider, collector, alive, used>>

LighterCountKept(c) == [list |-> Rest(c.list, Head(c.skip)), skip |-> Tail(c.skip),
                        list_cnt |-> c.list_cnt, skip_cnt |-> c.skip_cnt - 1]
LighterBySkips(c) == [list |-> Rest(c.list, Head(c.skip)), skip |-> Tail(c.skip),
                      list_cnt |-> c.list_cnt - Unit * (c.skip_cnt + 1),
                      skip_cnt |-> c.skip_cnt - 1]

\* put_local_collector: what a collector with a batch to spare keeps.
Lighter(c) == [list |-> Rest(c.list, Head(c.skip)), skip |-> Tail(c.skip),
               list_cnt |-> c.list_cnt - Unit, skip_cnt |-> c.skip_cnt - 1]

Marked(c, o) == [c EXCEPT !.skip = <<o>> \o @, !.skip_cnt = @ + 1]
Pushed(c, o) == [c EXCEPT !.list = <<o>> \o @, !.list_cnt = @ + 1]

CollectorNeverFull(c) == FALSE
CollectorFull(c) == c.skip_cnt >= MaxSkipNodes

\* PUSH_COLLECTOR, of an object that any thread has allocated.
Free(t, o) ==
    LET c == collector[t]
    IN  /\ t \in alive /\ failed = {}
        /\ o \in used
        /\ used' = used \ {o}
        /\ \/ /\ c.list_cnt % Unit # 0
              /\ collector' = [collector EXCEPT ![t] = Pushed(c, o)]
              /\ UNCHANGED global
           \/ /\ c.list_cnt % Unit = 0
              /\ ~CollectorFull(c)
              /\ collector' = [collector EXCEPT ![t] = Pushed(Marked(c, o), o)]
              /\ UNCHANGED global
           \/ /\ c.list_cnt % Unit = 0
              /\ CollectorFull(c)
              /\ collector' = [collector EXCEPT ![t] = Pushed(Marked(Lighter(c), o), o)]
              /\ global' = [list |-> Cut(c.list, Head(c.skip)) \o global.list,
                            skip |-> <<Head(c.skip)>> \o global.skip]
        /\ UNCHANGED <<provider, alive, failed>>

\* A thread ends, as the checkpoint thread of a closed file does.  Nobody
\* reaches its thread-local lists any more.
Exit(t) ==
    /\ t \in alive /\ failed = {}
    /\ alive' = alive \ {t}
    /\ UNCHANGED <<global, provider, collector, used, failed>>

Next == \E t \in Threads : \/ Alloc(t) \/ Exhaust(t) \/ Exit(t)
                           \/ \E o \in used : Free(t, o)

Spec == Init /\ [][Next]_vars

-----------------------------------------------------------------------------
\* Every variable has its type.
TypeOK ==
    /\ {global.list, global.skip} \subseteq Seq(Objects)
    /\ provider \in [Threads -> Seq(Objects)]
    /\ \A t \in Threads :
          /\ {collector[t].list, collector[t].skip} \subseteq Seq(Objects)
          /\ {collector[t].list_cnt, collector[t].skip_cnt} \subseteq Nat
    /\ alive \subseteq Threads /\ used \subseteq Objects /\ failed \subseteq Threads

Names == {<<"global">>} \cup ({"provider", "collector"} \X Threads)
List(n) == CASE n[1] = "global"    -> global.list
             [] n[1] = "provider"  -> provider[n[2]]
             [] n[1] = "collector" -> collector[n[2]].list

\* The nodes that stand for object o.
Nodes(o) == UNION {{<<n, i>> : i \in {k \in 1 .. Len(List(n)) : List(n)[k] = o}} :
                      n \in Names}

\* No object is lost or handed out twice: through all the cutting, splicing
\* and popping of lists and skip lists each one is in use, or on one list.
OnePlace == \A o \in Objects :
                Cardinality(Nodes(o)) = IF o \in used THEN 0 ELSE 1

\* A list whose skip list marks the last node of every batch.
InBatches(list, skip) ==
    /\ Len(list) = Unit * Len(skip)
    /\ \A k \in 1 .. Len(skip) : skip[k] = list[Unit * k]

\* Batches stay whole: fill_local_provider always moves Unit nodes, and a
\* collector that gives a batch away, on the word of its two counters, gives
\* exactly the batch its first skip node ends.
WholeBatches ==
    /\ InBatches(global.list, global.skip)
    /\ \A t \in Threads :
          LET c == collector[t]
              top == c.list_cnt % Unit
          IN  /\ c.list_cnt = Len(c.list) /\ c.skip_cnt = Len(c.skip)
              /\ top = 0 => InBatches(c.list, c.skip)
              /\ top > 0 =>
                    /\ Head(c.skip) = c.list[top]
                    /\ InBatches(SubSeq(c.list, top + 1, Len(c.list)), Tail(c.skip))

\* The process ends for want of objects only if nearly all of them are in
\* use: the global list is empty then, and a thread, ended or not, keeps at
\* most MaxSkipNodes batches in its collector and less than one in its
\* provider.
EndsOnlyWhenShort ==
    /\ failed # {} => global.list = <<>>
    /\ \A t \in Threads : /\ Len(provider[t]) < Unit
                          /\ Len(collector[t].list) <= MaxSkipNodes * Unit
=============================================================================
