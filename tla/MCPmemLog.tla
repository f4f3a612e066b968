----------------------------- MODULE MCPmemLog ------------------------------
(***************************************************************************)
(* PmemLog for TLC: writes of every interval of the block, each with a     *)
(* value in all its cells.                                                 *)
(***************************************************************************)
EXTENDS PmemLog

AllWrites == {r \in [lo : Cells, n : 1 .. LogSize,
                     data : {[i \in Cells |-> v] : v \in Val}] :
                 r.lo + r.n <= LogSize}
=============================================================================
