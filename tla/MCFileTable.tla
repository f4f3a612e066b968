---------------------------- MODULE MCFileTable -----------------------------
(***************************************************************************)
(* FileTable for model checking: threads, inodes and mmios are             *)
(* interchangeable.                                                        *)
(***************************************************************************)
EXTENDS FileTable, TLC

Symmetry == Permutations(Threads) \cup Permutations(Inos) \cup Permutations(Mmios)
=============================================================================
