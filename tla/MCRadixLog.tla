----------------------------- MODULE MCRadixLog -----------------------------
(***************************************************************************)
(* Instances of RadixLog.  With PageCells = 2 and NrLogSizes = 2 a table   *)
(* spans four cells; MaxOff = 11 makes root->skip an LUD over regions      *)
(* 0..3 with nothing below it at open.                                     *)
(***************************************************************************)
EXTENDS RadixLog

R(off, len) == [off |-> off, len |-> len]

\* Accesses of one page, two pages and more than a table, aligned and not,
\* below two different LMDs.
Lookups == {R(4, 2), R(5, 2), R(6, 1), R(13, 1), R(14, 10)}

\* Region 4 shares its path with region 0 below an LUD.
GrownLookups == {R(1, 1), R(17, 1)}
=============================================================================
