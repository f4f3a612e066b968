------------------------------- MODULE RWLock -------------------------------
(***************************************************************************)
(* What a reader-writer lock promises its callers, for a family of locks:  *)
(* any number of readers or one writer.  bravo.c claims to be such a lock  *)
(* (Bravo.tla shows under which conditions it is), pthread_rwlock_t is one, *)
(* and Mmio.tla uses this abstraction for both.                            *)
(***************************************************************************)
CONSTANTS Threads, Locks, NoThread  \* NoThread is not a thread

VARIABLES rd,   \* rd[l]: the threads that hold l for reading
          wr    \* wr[l]: the thread that holds l for writing, or NoThread

rwvars == <<rd, wr>>

Init == /\ rd = [l \in Locks |-> {}]
        /\ wr = [l \in Locks |-> NoThread]

AcquireRead(t, l) == /\ wr[l] = NoThread
                     /\ t \notin rd[l]
                     /\ rd' = [rd EXCEPT ![l] = @ \cup {t}]
                     /\ UNCHANGED wr

ReleaseRead(t, l) == /\ t \in rd[l]
                     /\ rd' = [rd EXCEPT ![l] = @ \ {t}]
                     /\ UNCHANGED wr

AcquireWrite(t, l) == /\ wr[l] = NoThread
                      /\ rd[l] = {}
                      /\ wr' = [wr EXCEPT ![l] = t]
                      /\ UNCHANGED rd

ReleaseWrite(t, l) == /\ wr[l] = t
                      /\ wr' = [wr EXCEPT ![l] = NoThread]
                      /\ UNCHANGED rd

Next == \E t \in Threads, l \in Locks : \/ AcquireRead(t, l)
                                        \/ ReleaseRead(t, l)
                                        \/ AcquireWrite(t, l)
                                        \/ ReleaseWrite(t, l)

Spec == Init /\ [][Next]_rwvars
=============================================================================
