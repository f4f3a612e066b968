----------------------------- MODULE AtomicBlock -----------------------------
(***************************************************************************)
(* What Libnvmmio promises for one block: a write changes exactly the      *)
(* cells it names, and a crash brings back the content of the last fsync.  *)
(***************************************************************************)
EXTENDS Integers

CONSTANTS Cells,     \* the block's cells
          Val,       \* what a cell may hold
          Requests   \* the writes: records [lo, n, data]

VARIABLES content,   \* what a read sees
          unsynced,  \* the cells written since the last fsync
          committed, \* what a crash leaves
          fsyncs     \* how many fsyncs there were

vars == <<content, unsynced, committed, fsyncs>>

Init == /\ content \in [Cells -> Val]
        /\ unsynced = {}
        /\ committed = content
        /\ fsyncs = 0

Touched(r) == r.lo .. r.lo + r.n - 1

Write(r) == /\ content' = [i \in Cells |-> IF i \in Touched(r) THEN r.data[i] ELSE content[i]]
            /\ unsynced' = unsynced \cup Touched(r)
            /\ UNCHANGED <<committed, fsyncs>>

\* fsync: the only step that changes what a crash leaves, and the only one
\* that takes cells off the unsynced ones.
Commit == /\ committed' = content
          /\ unsynced' = {}
          /\ fsyncs' = fsyncs + 1
          /\ UNCHANGED content

Next == Commit \/ \E r \in Requests : Write(r)

Spec == Init /\ [][Next]_vars
=============================================================================
