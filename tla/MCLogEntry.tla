----------------------------- MODULE MCLogEntry -----------------------------
(***************************************************************************)
(* Instances of LogEntry for TLC: every interval of the block, written     *)
(* with one of the new values in all its cells.  Values only have to tell  *)
(* the old content from the new, so two are enough.                        *)
(***************************************************************************)
EXTENDS LogEntry

AllWrites == {r \in [lo : Cells, n : 1 .. LogSize,
                     data : {[i \in Cells |-> v] : v \in Val}] :
                 r.lo + r.n <= LogSize}
=============================================================================
