------------------------------- MODULE MCBravo -------------------------------
(***************************************************************************)
(* Instances of Bravo for TLC: threads are numbers, locks are names, and   *)
(* bravo_hash is one of the collision patterns a hash into a finite table  *)
(* can produce.                                                            *)
(***************************************************************************)
EXTENDS Bravo

\* Every (thread, lock) pair has a slot of its own.
PrivateSlots == [p \in Threads \X Locks |-> (p[1] - 1) + (IF p[2] = "m1" THEN 0 ELSE NrEntries \div 2)]

\* All pairs hash to the same slot.
OneSlot == [p \in Threads \X Locks |-> 0]

=============================================================================
