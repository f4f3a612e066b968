------------------------------- MODULE MCMmio -------------------------------
(***************************************************************************)
(* Mmio with requests for model checking.  W(off, len, val) writes val to  *)
(* len cells, R(off, len) reads them, Sync is an fsync.                    *)
(***************************************************************************)
EXTENDS Mmio, TLC

W(off, len, val) == [kind |-> "write", off |-> off, len |-> len, val |-> val]
R(off, len) == [kind |-> "read", off |-> off, len |-> len, val |-> 0]
Sync == [kind |-> "fsync", off |-> 0, len |-> 0, val |-> 0]

Undo(S) == [p \in {"UNDO"} |-> S]
Redo(S) == [p \in {"REDO"} |-> S]

\* Undo logging of two blocks, with a write that spans both; redo logging of
\* calls that stay in one block.  (Two-block redo writes: see Straddling.)
InOneBlock == {W(0, 2, 1), W(1, 1, 2), R(0, 2), Sync}
TwoBlocks == {W(0, 4, 1), W(1, 1, 2), R(0, 2), Sync}
Calls == [p \in {"UNDO", "REDO"} |-> IF p = "UNDO" THEN TwoBlocks ELSE InOneBlock]

\* A file of one block that writes extend, by one cell or by two.
Growing == Undo({W(2, 1, 1), W(2, 2, 2), R(2, 2), Sync})

\* The same with redo logging and writes to the block that is there before.
GrowingLater == Redo(Growing["UNDO"] \cup {W(0, 2, 3)})

\* Reads that span two blocks.
SharedReads == Undo({R(0, 4), R(2, 2), Sync})

\* A redo write that takes the end of one block and the start of the next.
Straddling == Redo({W(1, 2, 1), R(0, 2), Sync})

\* An undo write that takes the end of one block and all of the next.
Unaligned == Undo({W(1, 3, 1), R(0, 2), Sync})

ThreadSymmetry == Permutations(Threads)
=============================================================================
