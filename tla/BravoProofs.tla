----------------------------- MODULE BravoProofs -----------------------------
(***************************************************************************)
(* TLAPS proofs about Bravo: for every finite set of threads, every set of *)
(* locks and every table size, the lock excludes writers from readers and  *)
(* leaks nothing, provided bravo_hash is collision-free on the pairs in    *)
(* use and (for exclusion) the store rbias = false is visible before the   *)
(* scan starts.  TLC shows that neither proviso can be dropped.            *)
(***************************************************************************)
EXTENDS Bravo, FiniteSetTheorems, TLAPS

\* bravo_hash sends different <<thread, lock>> pairs to different slots.
CollisionFree ==
    \A t, u \in Threads : \A l, m \in Locks :
        Slot(t, l) = Slot(u, m) => t = u /\ l = m

WriterPCs == {"w_bias", "w_revoke", "w_scan", "writing"}
AnnouncedPCs == {"r_check", "r_clear", "reading", "u_clear"}

\* Thread t holds the underlying lock of l for reading.
SlowHolder(t, l) == /\ lk[t] = l
                    /\ \/ pc[t] \in {"r_rebias", "u_slow"}
                       \/ pc[t] = "reading" /\ visible_readers[MySlot(t)] = NULL
SlowHolders(l) == {t \in Threads : SlowHolder(t, l)}

\* Thread u reads under lock l and is announced in the table.
FastReading(u, l) == /\ lk[u] = l
                     /\ pc[u] = "reading"
                     /\ visible_readers[Slot(u, l)] # NULL

WriterInv ==
    \A t \in Threads : \A l \in Locks :
        writer[l] = t <=> lk[t] = l /\ pc[t] \in WriterPCs

\* A taken slot belongs to a thread that is in the middle of a read.
SlotInv ==
    \A s \in Slots : visible_readers[s] # NULL =>
        \E t \in Threads : /\ lk[t] = visible_readers[s]
                           /\ s = MySlot(t)
                           /\ pc[t] \in AnnouncedPCs

AnnouncedInv ==
    \A t \in Threads : pc[t] \in {"r_check", "r_clear", "u_clear"} =>
        visible_readers[MySlot(t)] = lk[t]

\* The underlying reader count is the number of threads behind it, and
\* there is none while a writer holds the underlying lock.
CountInv ==
    \A l \in Locks : /\ readers[l] = Cardinality(SlowHolders(l))
                     /\ writer[l] # NoThread => SlowHolders(l) = {}

\* What holds whatever the memory model.
Accounting == TypeOK /\ WriterInv /\ SlotInv /\ AnnouncedInv /\ CountInv

\* What the revocation achieves when its store is visible at once: a
\* scanning or admitted writer keeps the bias off, the scan has passed no
\* reader, and an unbiased lock that nobody scans has no announced reader.
RevokedInv ==
    /\ \A t \in Threads :
          /\ ~buffered[t]
          /\ pc[t] \in {"w_scan", "writing"} => ~rbias[lk[t]]
          /\ pc[t] = "w_scan" =>
                \A u \in Threads : FastReading(u, lk[t]) =>
                    Slot(u, lk[t]) >= scan[t]
    /\ \A l \in Locks : ~rbias[l] =>
          \/ \E t \in Threads : lk[t] = l /\ pc[t] = "w_scan"
          \/ \A u \in Threads : ~FastReading(u, l)

IInv == Accounting /\ RevokedInv

-----------------------------------------------------------------------------
(* Types.                                                                   *)

LEMMA SlotType ==
    ASSUME NEW t \in Threads, NEW l \in Locks
    PROVE  Slot(t, l) \in Slots
BY ConstantsAssumption DEF Slot

LEMMA InitType == Init => TypeOK
BY ConstantsAssumption DEF Init, TypeOK, PCs, Slots

LEMMA TypeStep == TypeOK /\ [Next]_vars => TypeOK'
<1> SUFFICES ASSUME TypeOK, [Next]_vars
             PROVE  TypeOK'
  OBVIOUS
<1> USE ConstantsAssumption DEF TypeOK, PCs, Goto
<1>1. CASE UNCHANGED vars
  BY <1>1 DEF vars
<1>2. ASSUME NEW t \in Threads, NEW l \in Locks, NEW isTry \in BOOLEAN,
             BeginRead(t, l, isTry) \/ BeginWrite(t, l, isTry)
      PROVE  TypeOK'
  BY <1>2 DEF BeginRead, BeginWrite
<1>3. ASSUME NEW t \in Threads, ReaderStep(t)
      PROVE  TypeOK'
  <2>0. MySlot(t) \in Slots
    BY SlotType DEF MySlot
  <2>1. CASE CasSlot(t) \/ CheckBias(t) \/ ClearSlot(t)
    BY <2>0, <2>1 DEF CasSlot, CheckBias, ClearSlot
  <2>2. CASE SlowRead(t) \/ SlowReadBusy(t)
    BY <2>2 DEF SlowRead, SlowReadBusy
  <2>4. CASE Rebias(t)
    <3>1. rbias' \in [Locks -> BOOLEAN]
      BY <2>4, Zenon DEF Rebias
    <3> QED
      BY <2>4, <3>1 DEF Rebias
  <2>3. CASE TestSlot(t) \/ FastUnlock(t) \/ SlowUnlock(t)
    BY <2>0, <2>3 DEF TestSlot, FastUnlock, SlowUnlock
  <2> QED
    BY <1>3, <2>1, <2>2, <2>3, <2>4 DEF ReaderStep
<1>4. ASSUME NEW t \in Threads, WriterStep(t)
      PROVE  TypeOK'
  <2>1. CASE UnderlyingWrite(t) \/ WriteBusy(t) \/ TestBias(t)
    BY <2>1 DEF UnderlyingWrite, WriteBusy, TestBias
  <2>2. CASE Revoke(t)
    <3>1. rbias' \in [Locks -> BOOLEAN] /\ buffered' \in [Threads -> BOOLEAN]
      BY <2>2, Zenon DEF Revoke
    <3>2. 0 \in Slots
      BY DEF Slots
    <3> QED
      BY <2>2, <3>1, <3>2 DEF Revoke
  <2>3. CASE Drain(t)
    BY <2>3 DEF Drain
  <2>4. CASE ScanSlot(t)
    <3>1. scan[t] # NrEntries - 1 => scan[t] + 1 \in Slots
      <4>1. scan[t] \in Slots /\ NrEntries \in Nat \ {0}
        OBVIOUS
      <4> QED
        BY ONLY <4>1 DEF Slots
    <3> QED
      BY <2>4, <3>1 DEF ScanSlot
  <2>5. CASE WriteUnlock(t)
    BY <2>5 DEF WriteUnlock
  <2>6. CASE Reinit(t)
    <3>1. rbias' \in [Locks -> BOOLEAN]
      BY <2>6, Zenon DEF Reinit
    <3> QED
      BY <2>6, <3>1 DEF Reinit
  <2> QED
    BY <1>4, <2>1, <2>2, <2>3, <2>4, <2>5, <2>6 DEF WriterStep
<1> QED
  BY <1>1, <1>2, <1>3, <1>4 DEF Next

\* Every state of the lock has the types of the C declarations.
THEOREM TypeCorrect == Spec => []TypeOK
BY InitType, TypeStep, PTL DEF Spec

-----------------------------------------------------------------------------
(* Accounting.                                                              *)

\* A slot that a thread hashes to is taken only by that thread's own read.
LEMMA SlotOwner ==
    ASSUME CollisionFree, TypeOK, SlotInv, NEW t \in Threads, NEW l \in Locks,
           visible_readers[Slot(t, l)] # NULL
    PROVE  /\ visible_readers[Slot(t, l)] = l
           /\ lk[t] = l
           /\ pc[t] \in AnnouncedPCs
<1>1. PICK u \in Threads : /\ lk[u] = visible_readers[Slot(t, l)]
                           /\ Slot(t, l) = MySlot(u)
                           /\ pc[u] \in AnnouncedPCs
  BY SlotType DEF SlotInv
<1>2. lk[u] \in Locks
  BY DEF TypeOK
<1> QED
  BY <1>1, <1>2 DEF CollisionFree, MySlot

LEMMA InitAccounting == Init => Accounting
<1> SUFFICES ASSUME Init PROVE Accounting
  OBVIOUS
<1>1. TypeOK
  BY InitType
<1>2. WriterInv
  BY ConstantsAssumption DEF Init, WriterInv, WriterPCs
<1>3. SlotInv /\ AnnouncedInv
  BY SlotType DEF Init, SlotInv, AnnouncedInv, MySlot, TypeOK
<1>4. \A l \in Locks : SlowHolders(l) = {}
  BY DEF Init, SlowHolders, SlowHolder
<1>5. CountInv
  BY <1>4, FS_EmptySet DEF Init, CountInv
<1> QED
  BY <1>1, <1>2, <1>3, <1>5 DEF Accounting

LEMMA HoldersFinite ==
    ASSUME NEW l \in Locks
    PROVE  IsFiniteSet(SlowHolders(l)) /\ IsFiniteSet(SlowHolders(l)')
BY ConstantsAssumption, FS_Subset DEF SlowHolders

\* A step after which the same threads are behind the same underlying lock,
\* with the same count and writer, keeps CountInv.
LEMMA CountSame ==
    ASSUME CountInv, UNCHANGED <<readers, writer>>,
           \A u \in Threads : \A l \in Locks :
               SlowHolder(u, l)' <=> SlowHolder(u, l)
    PROVE  CountInv'
<1>1. \A l \in Locks : SlowHolders(l)' = SlowHolders(l)
  BY DEF SlowHolders
<1> QED
  BY <1>1 DEF CountInv

\* A step that moves one thread t between program counters that neither
\* own a slot nor hold the underlying lock keeps the accounts.
LEMMA QuietStep ==
    ASSUME Accounting, TypeOK', NEW t \in Threads,
           UNCHANGED <<readers, writer, visible_readers>>,
           \A u \in Threads \ {t} : pc'[u] = pc[u] /\ lk'[u] = lk[u],
           pc[t] \notin WriterPCs, pc'[t] \notin WriterPCs,
           pc[t] \in {"idle", "r_cas", "r_slow", "w_lock"},
           pc'[t] \in {"idle", "r_cas", "r_slow", "w_lock"}
    PROVE  Accounting'
<1> USE DEF Accounting
<1>1. WriterInv'
  BY DEF WriterInv, TypeOK
<1>2. SlotInv'
  BY DEF SlotInv, MySlot, AnnouncedPCs, TypeOK
<1>3. AnnouncedInv'
  BY DEF AnnouncedInv, MySlot, TypeOK
<1>4. CountInv'
  <2>1. \A u \in Threads : \A l \in Locks : SlowHolder(u, l)' <=> SlowHolder(u, l)
    BY DEF SlowHolder, MySlot
  <2> QED
    BY <2>1, CountSame
<1> QED
  BY <1>1, <1>2, <1>3, <1>4

\* A step that only moves the writer t of a lock on keeps the accounts.
LEMMA WriterMoves ==
    ASSUME Accounting, TypeOK', NEW t \in Threads,
           UNCHANGED <<readers, writer, visible_readers, lk>>,
           \A u \in Threads \ {t} : pc'[u] = pc[u],
           pc[t] \in WriterPCs, pc'[t] \in WriterPCs
    PROVE  Accounting'
<1> USE DEF Accounting, WriterPCs
<1>1. WriterInv'
  BY DEF WriterInv, TypeOK
<1>2. SlotInv'
  BY DEF SlotInv, MySlot, AnnouncedPCs, TypeOK
<1>3. AnnouncedInv'
  BY DEF AnnouncedInv, MySlot, TypeOK
<1>4. CountInv'
  <2>1. \A u \in Threads : \A l \in Locks : SlowHolder(u, l)' <=> SlowHolder(u, l)
    BY DEF SlowHolder, MySlot
  <2> QED
    BY <2>1, CountSame
<1> QED
  BY <1>1, <1>2, <1>3, <1>4

\* Other threads' slots are not the slot of t.
LEMMA OthersSlots ==
    ASSUME CollisionFree, TypeOK, NEW t \in Threads, NEW u \in Threads, u # t
    PROVE  MySlot(u) # MySlot(t) /\ MySlot(u) \in Slots /\ MySlot(t) \in Slots
BY SlotType DEF CollisionFree, MySlot, TypeOK

LEMMA CasSlotAccounting ==
    ASSUME CollisionFree, Accounting, TypeOK', NEW t \in Threads, CasSlot(t)
    PROVE  Accounting'
<1> USE DEF Accounting, Goto
<1>1. CASE visible_readers[MySlot(t)] # NULL
  BY <1>1, QuietStep DEF CasSlot, TypeOK, WriterPCs
<1>2. CASE visible_readers[MySlot(t)] = NULL
  <2> DEFINE s0 == MySlot(t)
  <2>0. /\ pc[t] = "r_cas" /\ pc' = [pc EXCEPT ![t] = "r_check"]
        /\ visible_readers' = [visible_readers EXCEPT ![s0] = lk[t]]
        /\ UNCHANGED <<readers, writer, lk>>
        /\ s0 \in Slots
    BY <1>2, SlotType DEF CasSlot, MySlot, TypeOK
  <2>1. WriterInv'
    BY <2>0 DEF WriterInv, WriterPCs, TypeOK
  <2>2. SlotInv'
    <3> SUFFICES ASSUME NEW s \in Slots, visible_readers'[s] # NULL
                 PROVE  \E u \in Threads : /\ lk'[u] = visible_readers'[s]
                                           /\ s = MySlot(u)'
                                           /\ pc'[u] \in AnnouncedPCs
      BY DEF SlotInv
    <3>1. CASE s = s0
      BY <2>0, <3>1 DEF AnnouncedPCs, MySlot, TypeOK
    <3>2. CASE s # s0
      BY <2>0, <3>2 DEF SlotInv, AnnouncedPCs, MySlot, TypeOK
    <3> QED
      BY <3>1, <3>2
  <2>3. AnnouncedInv'
    BY <2>0, OthersSlots DEF AnnouncedInv, MySlot, TypeOK
  <2>4. \A u \in Threads : \A l \in Locks : SlowHolder(u, l)' <=> SlowHolder(u, l)
    BY <2>0, OthersSlots DEF SlowHolder, MySlot, TypeOK
  <2> QED
    BY <2>0, <2>1, <2>2, <2>3, <2>4, CountSame
<1> QED
  BY <1>1, <1>2

\* ClearSlot and FastUnlock both empty the slot their thread announced.
LEMMA EmptySlotAccounting ==
    ASSUME CollisionFree, Accounting, TypeOK', NEW t \in Threads,
           ClearSlot(t) \/ FastUnlock(t)
    PROVE  Accounting'
<1> USE DEF Accounting, Goto
<1> DEFINE s0 == MySlot(t)
<1>0. /\ pc[t] \in {"r_clear", "u_clear"}
      /\ \E to \in {"r_slow", "idle"} : pc' = [pc EXCEPT ![t] = to]
      /\ visible_readers' = [visible_readers EXCEPT ![s0] = NULL]
      /\ UNCHANGED <<readers, writer, lk>>
      /\ s0 \in Slots
  BY SlotType DEF ClearSlot, FastUnlock, MySlot, TypeOK
<1>1. WriterInv'
  BY <1>0 DEF WriterInv, WriterPCs, TypeOK
<1>2. SlotInv'
  <2> SUFFICES ASSUME NEW s \in Slots, visible_readers'[s] # NULL
               PROVE  \E u \in Threads : /\ lk'[u] = visible_readers'[s]
                                         /\ s = MySlot(u)'
                                         /\ pc'[u] \in AnnouncedPCs
    BY DEF SlotInv
  <2>1. s # s0 /\ visible_readers[s] = visible_readers'[s]
    BY <1>0 DEF TypeOK
  <2>2. PICK u \in Threads : /\ lk[u] = visible_readers[s]
                             /\ s = MySlot(u)
                             /\ pc[u] \in AnnouncedPCs
    BY <2>1 DEF SlotInv
  <2>3. u # t
    BY <2>1, <2>2
  <2>4. /\ lk'[u] = visible_readers'[s]
        /\ s = MySlot(u)'
        /\ pc'[u] \in AnnouncedPCs
    BY <1>0, <2>1, <2>2, <2>3 DEF MySlot, TypeOK
  <2> QED
    BY <2>4
<1>3. AnnouncedInv'
  BY <1>0, OthersSlots DEF AnnouncedInv, MySlot, TypeOK
<1>4. \A u \in Threads : \A l \in Locks : SlowHolder(u, l)' <=> SlowHolder(u, l)
  BY <1>0, OthersSlots DEF SlowHolder, MySlot, TypeOK
<1> QED
  BY <1>0, <1>1, <1>2, <1>3, <1>4, CountSame

\* CheckBias, Rebias and TestSlot move a reader without touching its slot or
\* the count: whether it reads through the table or through the underlying
\* lock is read off its slot.
LEMMA ReaderMoves ==
    ASSUME CollisionFree, Accounting, TypeOK', NEW t \in Threads,
           CheckBias(t) \/ Rebias(t) \/ TestSlot(t)
    PROVE  Accounting'
<1> USE DEF Accounting, Goto
<1>0. UNCHANGED <<readers, writer, lk, visible_readers>>
  BY DEF CheckBias, Rebias, TestSlot
<1>1. lk[t] \in Locks /\ MySlot(t) \in Slots /\ lk[t] # NULL
  BY SlotType, ConstantsAssumption DEF MySlot, TypeOK
<1>2. visible_readers[MySlot(t)] # NULL =>
         visible_readers[MySlot(t)] = lk[t] /\ pc[t] \in AnnouncedPCs
  BY <1>1, SlotOwner DEF MySlot
<1>3. /\ pc[t] \notin WriterPCs
      /\ \E to \in {"reading", "r_clear", "u_clear", "u_slow"} :
            pc' = [pc EXCEPT ![t] = to]
  BY DEF CheckBias, Rebias, TestSlot, WriterPCs
<1>4. visible_readers[MySlot(t)] # NULL => pc'[t] \in AnnouncedPCs
  BY <1>2 DEF CheckBias, Rebias, TestSlot, AnnouncedPCs, TypeOK
<1>5. WriterInv'
  BY <1>0, <1>3 DEF WriterInv, WriterPCs, TypeOK
<1>6. SlotInv'
  <2> SUFFICES ASSUME NEW s \in Slots, visible_readers[s] # NULL
               PROVE  \E u \in Threads : /\ lk[u] = visible_readers[s]
                                         /\ s = MySlot(u)
                                         /\ pc'[u] \in AnnouncedPCs
    BY <1>0 DEF SlotInv, MySlot
  <2>2. PICK u \in Threads : /\ lk[u] = visible_readers[s]
                             /\ s = MySlot(u)
                             /\ pc[u] \in AnnouncedPCs
    BY DEF SlotInv
  <2> QED
    BY <1>3, <1>4, <2>2 DEF TypeOK
<1>7. pc'[t] \in {"r_clear", "u_clear"} => visible_readers[MySlot(t)] = lk[t]
  BY <1>2 DEF CheckBias, Rebias, TestSlot, AnnouncedInv, TypeOK
<1>8. AnnouncedInv'
  BY <1>0, <1>3, <1>7 DEF AnnouncedInv, MySlot, TypeOK
<1>9. \A l \in Locks : SlowHolder(t, l)' <=> SlowHolder(t, l)
  <2>1. CASE CheckBias(t)
    BY <2>1, <1>0, <1>1 DEF CheckBias, SlowHolder, MySlot, AnnouncedInv, TypeOK
  <2>2. CASE Rebias(t)
    BY <2>2, <1>0, <1>2 DEF Rebias, SlowHolder, MySlot, AnnouncedPCs, TypeOK
  <2>3. CASE TestSlot(t)
    BY <2>3, <1>0 DEF TestSlot, SlowHolder, MySlot, TypeOK
  <2> QED
    BY <2>1, <2>2, <2>3
<1>10. \A u \in Threads : \A l \in Locks : SlowHolder(u, l)' <=> SlowHolder(u, l)
  BY <1>0, <1>3, <1>9 DEF SlowHolder, MySlot, TypeOK
<1> QED
  BY <1>0, <1>5, <1>6, <1>8, <1>10, CountSame

LEMMA SlowReadAccounting ==
    ASSUME CollisionFree, Accounting, TypeOK', NEW t \in Threads, SlowRead(t)
    PROVE  Accounting'
<1> USE DEF Accounting, Goto
<1> DEFINE l0 == lk[t]
<1>0. /\ pc[t] = "r_slow" /\ pc' = [pc EXCEPT ![t] = "r_rebias"]
      /\ writer[l0] = NoThread
      /\ readers' = [readers EXCEPT ![l0] = @ + 1]
      /\ UNCHANGED <<writer, lk, visible_readers>>
      /\ l0 \in Locks
  BY DEF SlowRead, TypeOK
<1>1. WriterInv'
  BY <1>0 DEF WriterInv, WriterPCs, TypeOK
<1>2. SlotInv'
  BY <1>0 DEF SlotInv, MySlot, AnnouncedPCs, TypeOK
<1>3. AnnouncedInv'
  BY <1>0 DEF AnnouncedInv, MySlot, TypeOK
<1>4. /\ t \notin SlowHolders(l0)
      /\ SlowHolders(l0)' = SlowHolders(l0) \cup {t}
      /\ \A l \in Locks \ {l0} : SlowHolders(l)' = SlowHolders(l)
  BY <1>0 DEF SlowHolders, SlowHolder, MySlot, TypeOK
<1>5. Cardinality(SlowHolders(l0)') = Cardinality(SlowHolders(l0)) + 1
  <2>1. PICK S : S = SlowHolders(l0)
    OBVIOUS
  <2>2. IsFiniteSet(S) /\ t \notin S
    BY <1>0, <1>4, <2>1, HoldersFinite
  <2>3. Cardinality(S \cup {t}) = Cardinality(S) + 1
    BY <2>2, FS_AddElement
  <2> QED
    BY <1>4, <2>1, <2>3
<1>6. CountInv'
  BY <1>0, <1>4, <1>5 DEF CountInv, TypeOK
<1> QED
  BY <1>1, <1>2, <1>3, <1>6

LEMMA SlowUnlockAccounting ==
    ASSUME CollisionFree, Accounting, TypeOK', NEW t \in Threads, SlowUnlock(t)
    PROVE  Accounting'
<1> USE DEF Accounting, Goto
<1> DEFINE l0 == lk[t]
<1>0. /\ pc[t] = "u_slow" /\ pc' = [pc EXCEPT ![t] = "idle"]
      /\ readers' = [readers EXCEPT ![l0] = @ - 1]
      /\ UNCHANGED <<writer, lk, visible_readers>>
      /\ l0 \in Locks
  BY DEF SlowUnlock, TypeOK
<1>1. WriterInv'
  BY <1>0 DEF WriterInv, WriterPCs, TypeOK
<1>2. SlotInv'
  BY <1>0 DEF SlotInv, MySlot, AnnouncedPCs, TypeOK
<1>3. AnnouncedInv'
  BY <1>0 DEF AnnouncedInv, MySlot, TypeOK
<1>4. /\ t \in SlowHolders(l0)
      /\ SlowHolders(l0)' = SlowHolders(l0) \ {t}
      /\ \A l \in Locks \ {l0} : SlowHolders(l)' = SlowHolders(l)
  BY <1>0 DEF SlowHolders, SlowHolder, MySlot, TypeOK
<1>5. Cardinality(SlowHolders(l0)') = Cardinality(SlowHolders(l0)) - 1
  BY <1>0, <1>4, HoldersFinite, FS_RemoveElement
<1>6. CountInv'
  <2>1. readers'[l0] = readers[l0] - 1 /\ \A l \in Locks : l # l0 => readers'[l] = readers[l]
    BY <1>0 DEF TypeOK
  <2>2. writer'[l0] = NoThread
    BY <1>0, <1>4 DEF CountInv
  <2> QED
    BY <1>0, <1>4, <1>5, <2>1, <2>2 DEF CountInv
<1> QED
  BY <1>1, <1>2, <1>3, <1>6

LEMMA WriterAccounting ==
    ASSUME CollisionFree, Accounting, TypeOK', NEW t \in Threads,
           UnderlyingWrite(t) \/ WriteUnlock(t) \/ Reinit(t)
    PROVE  Accounting'
<1> USE DEF Accounting, Goto
<1> DEFINE l0 == lk[t]
<1>0. /\ pc[t] \in {"w_lock", "writing"}
      /\ \E to \in {"w_bias", "idle"} : pc' = [pc EXCEPT ![t] = to]
      /\ UNCHANGED <<lk, visible_readers>>
      /\ l0 \in Locks
  BY DEF UnderlyingWrite, WriteUnlock, Reinit, TypeOK
<1>1. WriterInv'
  <2>1. CASE UnderlyingWrite(t)
    BY <2>1, ConstantsAssumption DEF UnderlyingWrite, UnderlyingFree, WriterInv, WriterPCs, TypeOK
  <2>2. CASE WriteUnlock(t) \/ Reinit(t)
    BY <2>2, ConstantsAssumption DEF WriteUnlock, Reinit, WriterInv, WriterPCs, TypeOK
  <2> QED
    BY <2>1, <2>2
<1>2. SlotInv'
  BY <1>0 DEF SlotInv, MySlot, AnnouncedPCs, TypeOK
<1>3. AnnouncedInv'
  BY <1>0 DEF AnnouncedInv, MySlot, TypeOK
<1>4. \A l \in Locks : SlowHolders(l)' = SlowHolders(l)
  BY <1>0 DEF SlowHolders, SlowHolder, MySlot, TypeOK
<1>5. SlowHolders(l0) = {}
  <2>1. CASE UnderlyingWrite(t)
    BY <1>0, <2>1, HoldersFinite, FS_EmptySet DEF UnderlyingWrite, UnderlyingFree, CountInv
  <2>2. CASE WriteUnlock(t) \/ Reinit(t)
    BY <1>0, <2>2, ConstantsAssumption DEF WriteUnlock, Reinit, WriterInv, WriterPCs, CountInv
  <2> QED
    BY <2>1, <2>2
<1>6. CountInv'
  <2>1. \A l \in Locks : readers'[l] = Cardinality(SlowHolders(l))
    <3>1. readers'[l0] \in {readers[l0], 0} /\ \A l \in Locks : l # l0 => readers'[l] = readers[l]
      BY <1>0 DEF UnderlyingWrite, WriteUnlock, Reinit, TypeOK
    <3>2. Cardinality(SlowHolders(l0)) = 0
      BY <1>5, FS_EmptySet
    <3> QED
      BY <1>0, <3>1, <3>2 DEF CountInv
  <2>2. \A l \in Locks : l # l0 => writer'[l] = writer[l]
    BY <1>0 DEF UnderlyingWrite, WriteUnlock, Reinit, TypeOK
  <2>3. \A l \in Locks : writer'[l] # NoThread => SlowHolders(l) = {}
    BY <1>5, <2>2 DEF CountInv
  <2> QED
    BY <1>4, <2>1, <2>3 DEF CountInv
<1> QED
  BY <1>1, <1>2, <1>3, <1>6

LEMMA AccountingStep ==
    ASSUME CollisionFree, Accounting, [Next]_vars
    PROVE  Accounting'
<1>0. TypeOK'
  BY TypeStep DEF Accounting
<1> USE <1>0
<1>1. CASE UNCHANGED vars
  <2>1. \A u \in Threads : \A l \in Locks : SlowHolder(u, l)' <=> SlowHolder(u, l)
    BY <1>1 DEF vars, SlowHolder, MySlot
  <2>2. CountInv'
    BY <1>1, <2>1, CountSame DEF vars, Accounting
  <2> QED
    BY <1>1, <2>2 DEF vars, Accounting, WriterInv, SlotInv, AnnouncedInv, MySlot
<1>2. ASSUME NEW t \in Threads, NEW l \in Locks, NEW isTry \in BOOLEAN,
             BeginRead(t, l, isTry) \/ BeginWrite(t, l, isTry)
      PROVE  Accounting'
  BY <1>2, QuietStep DEF BeginRead, BeginWrite, Goto, WriterPCs, Accounting, TypeOK
<1>3. ASSUME NEW t \in Threads, ReaderStep(t)
      PROVE  Accounting'
  <2>1. CASE CasSlot(t) \/ ClearSlot(t) \/ FastUnlock(t)
    BY <2>1, CasSlotAccounting, EmptySlotAccounting
  <2>2. CASE CheckBias(t) \/ Rebias(t) \/ TestSlot(t)
    BY <2>2, ReaderMoves
  <2>3. CASE SlowRead(t) \/ SlowUnlock(t)
    BY <2>3, SlowReadAccounting, SlowUnlockAccounting
  <2>4. CASE SlowReadBusy(t)
    BY <2>4, QuietStep DEF SlowReadBusy, Goto, WriterPCs, Accounting, TypeOK
  <2> QED
    BY <1>3, <2>1, <2>2, <2>3, <2>4 DEF ReaderStep
<1>4. ASSUME NEW t \in Threads, WriterStep(t)
      PROVE  Accounting'
  <2>1. CASE UnderlyingWrite(t) \/ WriteUnlock(t) \/ Reinit(t)
    BY <2>1, WriterAccounting
  <2>2. CASE WriteBusy(t)
    BY <2>2, QuietStep DEF WriteBusy, Goto, WriterPCs, Accounting, TypeOK
  <2>3. CASE TestBias(t) \/ Revoke(t) \/ ScanSlot(t)
    BY <2>3, WriterMoves DEF TestBias, Revoke, ScanSlot, Goto, WriterPCs, Accounting, TypeOK
  <2>4. CASE Drain(t)
    <3>1. UNCHANGED <<readers, writer, visible_readers, pc, lk>>
      BY <2>4 DEF Drain
    <3>2. \A u \in Threads : \A l \in Locks : SlowHolder(u, l)' <=> SlowHolder(u, l)
      BY <3>1 DEF SlowHolder, MySlot
    <3> QED
      BY <3>1, <3>2, CountSame DEF Accounting, WriterInv, SlotInv, AnnouncedInv, MySlot
  <2> QED
    BY <1>4, <2>1, <2>2, <2>3, <2>4 DEF WriterStep
<1> QED
  BY <1>1, <1>2, <1>3, <1>4 DEF Next

LEMMA AccountingNoLeak == CollisionFree /\ Accounting => NothingLeaks
<1> SUFFICES ASSUME CollisionFree, Accounting, \A t \in Threads : pc[t] = "idle"
             PROVE  /\ visible_readers = [s \in Slots |-> NULL]
                    /\ readers = [l \in Locks |-> 0]
                    /\ writer = [l \in Locks |-> NoThread]
  BY DEF NothingLeaks
<1> USE DEF Accounting
<1>1. \A s \in Slots : visible_readers[s] = NULL
  BY DEF SlotInv, AnnouncedPCs
<1>2. \A l \in Locks : SlowHolders(l) = {}
  BY DEF SlowHolders, SlowHolder
<1>3. \A l \in Locks : readers[l] = 0
  BY <1>2, FS_EmptySet DEF CountInv
<1>4. \A l \in Locks : writer[l] = NoThread
  BY DEF WriterInv, WriterPCs, TypeOK
<1> QED
  BY <1>1, <1>3, <1>4 DEF TypeOK

\* Whatever the memory model, a collision-free bravo_hash is enough for
\* every unlock of bravo.c to undo exactly what its lock did.
THEOREM NoLeaks ==
    ASSUME CollisionFree
    PROVE  Spec => []NothingLeaks
<1>1. Init => Accounting
  BY InitAccounting
<1>2. CollisionFree /\ Accounting /\ [Next]_vars => Accounting'
  BY AccountingStep
<1>3. CollisionFree /\ Accounting => NothingLeaks
  BY AccountingNoLeak
<1> QED
  BY <1>1, <1>2, <1>3, PTL DEF Spec

-----------------------------------------------------------------------------
(* Revocation.                                                              *)

\* While the bias of l is off, only a writer that scans for l leaves room
\* for announced readers, and WriterInv makes it the only writer.
LEMMA OneWriter ==
    ASSUME TypeOK, WriterInv, NEW t \in Threads, NEW u \in Threads,
           pc[t] \in WriterPCs, pc[u] \in WriterPCs, lk[t] = lk[u]
    PROVE  t = u
<1>1. writer[lk[t]] = t /\ writer[lk[t]] = u
  BY DEF WriterInv, TypeOK
<1> QED
  BY <1>1

LEMMA InitRevoked == Init => RevokedInv
BY DEF Init, RevokedInv, FastReading

\* A step that leaves the bias and the scanning writers alone and adds no
\* announced reader keeps RevokedInv.
LEMMA RevokedQuiet ==
    ASSUME TypeOK, TypeOK', RevokedInv,
           UNCHANGED <<rbias, buffered, scan>>,
           \A u \in Threads : pc'[u] \in {"w_scan", "writing"} =>
               pc'[u] = pc[u] /\ lk'[u] = lk[u],
           \A u \in Threads : pc[u] = "w_scan" =>
               pc'[u] = pc[u] /\ lk'[u] = lk[u],
           \A u \in Threads : \A l \in Locks :
               FastReading(u, l)' => FastReading(u, l)
    PROVE  RevokedInv'
<1>1. ASSUME NEW u \in Threads
      PROVE  /\ ~buffered'[u]
             /\ pc'[u] \in {"w_scan", "writing"} => ~rbias'[lk'[u]]
  BY DEF RevokedInv
<1>2. ASSUME NEW t \in Threads, pc'[t] = "w_scan", NEW u \in Threads,
             FastReading(u, lk[t])'
      PROVE  Slot(u, lk[t])' >= scan'[t]
  <2>1. pc[t] = "w_scan" /\ lk'[t] = lk[t] /\ lk[t] \in Locks
    BY <1>2 DEF TypeOK
  <2>2. FastReading(u, lk[t])
    BY <1>2, <2>1
  <2> QED
    BY <2>1, <2>2 DEF RevokedInv, Slot
<1>3. ASSUME NEW l \in Locks, ~rbias'[l]
      PROVE  \/ \E t \in Threads : lk'[t] = l /\ pc'[t] = "w_scan"
             \/ \A u \in Threads : ~FastReading(u, l)'
  BY <1>3 DEF RevokedInv
<1> QED
  BY <1>1, <1>2, <1>3 DEF RevokedInv

\* Readers that announce themselves, leave the table or go through the
\* underlying lock.
LEMMA RevokedReaders ==
    ASSUME CollisionFree, IInv, TypeOK', NEW t \in Threads,
           \/ CasSlot(t) \/ ClearSlot(t) \/ SlowRead(t) \/ SlowReadBusy(t)
           \/ TestSlot(t) \/ FastUnlock(t) \/ SlowUnlock(t)
    PROVE  RevokedInv'
<1> USE DEF IInv, Accounting, Goto
<1>0. /\ UNCHANGED <<rbias, buffered, scan, lk>>
      /\ pc[t] \notin {"w_scan", "writing"}
      /\ \E to \in {"r_check", "r_slow", "r_rebias", "idle", "u_clear", "u_slow"} :
            pc' = [pc EXCEPT ![t] = to]
      /\ \/ UNCHANGED visible_readers
         \/ \E v \in Locks \cup {NULL} :
               visible_readers' = [visible_readers EXCEPT ![MySlot(t)] = v]
  BY DEF CasSlot, ClearSlot, SlowRead, SlowReadBusy, TestSlot, FastUnlock,
         SlowUnlock, TypeOK
<1>1. ASSUME NEW u \in Threads, NEW l \in Locks, FastReading(u, l)'
      PROVE  FastReading(u, l)
  <2>1. u # t /\ pc[u] = "reading" /\ lk[u] = l
    BY <1>0, <1>1 DEF FastReading, TypeOK
  <2>2. visible_readers'[MySlot(u)] = visible_readers[MySlot(u)]
    BY <1>0, <2>1, OthersSlots DEF TypeOK
  <2> QED
    BY <1>1, <2>1, <2>2 DEF FastReading, MySlot, Slot
<1>2. \A u \in Threads : pc'[u] \in {"w_scan", "writing"} =>
          pc'[u] = pc[u] /\ lk'[u] = lk[u]
  BY <1>0 DEF TypeOK
<1>3. \A u \in Threads : pc[u] = "w_scan" => pc'[u] = pc[u] /\ lk'[u] = lk[u]
  BY <1>0 DEF TypeOK
<1> QED
  BY <1>0, <1>1, <1>2, <1>3, RevokedQuiet

\* Calls that start, and writers that move without touching the bias.
LEMMA RevokedCalls ==
    ASSUME CollisionFree, IInv, TypeOK', NEW t \in Threads,
           \/ \E l \in Locks, isTry \in BOOLEAN :
                 BeginRead(t, l, isTry) \/ BeginWrite(t, l, isTry)
           \/ UnderlyingWrite(t) \/ WriteBusy(t) \/ WriteUnlock(t)
    PROVE  RevokedInv'
<1> USE DEF IInv, Accounting, Goto
<1>0. /\ UNCHANGED <<rbias, buffered, scan, visible_readers>>
      /\ pc[t] \in {"idle", "w_lock", "writing"}
      /\ \E to \in {"r_cas", "r_slow", "w_lock", "w_bias", "idle"} :
            pc' = [pc EXCEPT ![t] = to]
      /\ \A u \in Threads \ {t} : lk'[u] = lk[u]
  BY DEF BeginRead, BeginWrite, UnderlyingWrite, WriteBusy, WriteUnlock, TypeOK
<1>1. \A u \in Threads : \A l \in Locks : FastReading(u, l)' => FastReading(u, l)
  BY <1>0 DEF FastReading, Slot, TypeOK
<1>2. \A u \in Threads : pc'[u] \in {"w_scan", "writing"} =>
          pc'[u] = pc[u] /\ lk'[u] = lk[u]
  BY <1>0 DEF TypeOK
<1>3. \A u \in Threads : pc[u] = "w_scan" => pc'[u] = pc[u] /\ lk'[u] = lk[u]
  BY <1>0 DEF TypeOK
<1> QED
  BY <1>0, <1>1, <1>2, <1>3, RevokedQuiet

\* CheckBias admits a reader only while the bias is on, when nobody scans.
LEMMA RevokedCheckBias ==
    ASSUME CollisionFree, IInv, TypeOK', NEW t \in Threads, CheckBias(t)
    PROVE  RevokedInv'
<1> USE DEF IInv, Accounting, Goto
<1>0. /\ UNCHANGED <<rbias, buffered, scan, visible_readers, lk>>
      /\ pc[t] = "r_check"
      /\ pc' = [pc EXCEPT ![t] = IF rbias[lk[t]] THEN "reading" ELSE "r_clear"]
  BY DEF CheckBias
<1>1. ASSUME NEW u \in Threads, NEW l \in Locks, FastReading(u, l)', ~rbias[l]
      PROVE  FastReading(u, l)
  BY <1>0, <1>1 DEF FastReading, Slot, TypeOK
<1>2. \A u \in Threads : /\ pc[u] = "w_scan" <=> pc'[u] = "w_scan"
                         /\ pc[u] = "writing" <=> pc'[u] = "writing"
  BY <1>0 DEF TypeOK
<1>3. \A u \in Threads : pc'[u] = "w_scan" => ~rbias[lk[u]] /\ lk[u] \in Locks
  BY <1>2 DEF RevokedInv, TypeOK
<1>4. ASSUME NEW v \in Threads, pc'[v] = "w_scan", NEW u \in Threads,
             FastReading(u, lk[v])'
      PROVE  Slot(u, lk[v])' >= scan'[v]
  BY <1>0, <1>1, <1>2, <1>3, <1>4 DEF RevokedInv, Slot
<1>5. ASSUME NEW l \in Locks, ~rbias'[l]
      PROVE  \/ \E v \in Threads : lk'[v] = l /\ pc'[v] = "w_scan"
             \/ \A u \in Threads : ~FastReading(u, l)'
  BY <1>0, <1>1, <1>2, <1>5 DEF RevokedInv
<1>6. \A u \in Threads : /\ ~buffered'[u]
                         /\ pc'[u] \in {"w_scan", "writing"} => ~rbias'[lk'[u]]
  BY <1>0, <1>2 DEF RevokedInv
<1> QED
  BY <1>4, <1>5, <1>6 DEF RevokedInv

\* The bias goes on only while no other writer has the lock.
LEMMA RevokedBiasOn ==
    ASSUME CollisionFree, IInv, TypeOK', NEW t \in Threads, Rebias(t) \/ Reinit(t)
    PROVE  RevokedInv'
<1> USE DEF IInv, Accounting, Goto
<1>0. /\ UNCHANGED <<buffered, scan, visible_readers, lk>>
      /\ pc[t] \in {"r_rebias", "writing"}
      /\ \E to \in {"reading", "idle"} : pc' = [pc EXCEPT ![t] = to]
      /\ lk[t] \in Locks
  BY DEF Rebias, Reinit, TypeOK
<1>a. \A l \in Locks : (l # lk[t] => rbias'[l] = rbias[l]) /\ (rbias[l] => rbias'[l])
  BY Zenon DEF Rebias, Reinit, TypeOK
<1>1. ASSUME NEW u \in Threads, u # t, pc[u] \in WriterPCs
      PROVE  lk[u] # lk[t]
  <2>1. CASE Rebias(t)
    <3>1. t \in SlowHolders(lk[t])
      BY <2>1 DEF Rebias, SlowHolders, SlowHolder
    <3>2. writer[lk[t]] = NoThread
      BY <1>0, <3>1 DEF CountInv
    <3> QED
      BY <1>0, <1>1, <3>2, ConstantsAssumption DEF WriterInv
  <2>2. CASE Reinit(t)
    BY <1>1, <2>2, OneWriter DEF Reinit, WriterPCs
  <2> QED
    BY <2>1, <2>2
<1>2. \A u \in Threads : \A l \in Locks : FastReading(u, l)' => FastReading(u, l)
  <2>1. pc'[t] = "reading" => visible_readers[MySlot(t)] = NULL
    <3>1. CASE Rebias(t)
      BY <1>0, <3>1, SlotOwner DEF Rebias, MySlot, AnnouncedPCs
    <3>2. CASE Reinit(t)
      BY <3>2 DEF Reinit, TypeOK
    <3> QED
      BY <3>1, <3>2
  <2> QED
    BY <1>0, <2>1 DEF FastReading, MySlot, Slot, TypeOK
<1>3. \A u \in Threads : pc'[u] \in {"w_scan", "writing"} =>
          u # t /\ pc[u] = pc'[u] /\ lk[u] \in Locks
  BY <1>0 DEF TypeOK
<1>4. \A u \in Threads : /\ ~buffered'[u]
                         /\ pc'[u] \in {"w_scan", "writing"} => ~rbias'[lk'[u]]
  BY <1>0, <1>a, <1>1, <1>3 DEF RevokedInv, WriterPCs
<1>5. ASSUME NEW v \in Threads, pc'[v] = "w_scan", NEW u \in Threads,
             FastReading(u, lk[v])'
      PROVE  Slot(u, lk[v])' >= scan'[v]
  <2>1. FastReading(u, lk[v]) /\ pc[v] = "w_scan"
    BY <1>0, <1>2, <1>3, <1>5
  <2> QED
    BY <1>0, <2>1 DEF RevokedInv, Slot
<1>6. ASSUME NEW l \in Locks, ~rbias'[l]
      PROVE  \/ \E v \in Threads : lk'[v] = l /\ pc'[v] = "w_scan"
             \/ \A u \in Threads : ~FastReading(u, l)'
  <2>1. ~rbias[l]
    BY <1>a, <1>6
  <2>2. CASE \E v \in Threads : lk[v] = l /\ pc[v] = "w_scan"
    BY <1>0, <2>2 DEF TypeOK
  <2> QED
    BY <1>2, <2>1, <2>2 DEF RevokedInv
<1> QED
  BY <1>4, <1>5, <1>6 DEF RevokedInv

\* The bias goes off when a writer starts to scan at slot 0.
LEMMA RevokedRevoke ==
    ASSUME ~StoreBuffering, CollisionFree, IInv, TypeOK', NEW t \in Threads,
           Revoke(t)
    PROVE  RevokedInv'
<1> USE DEF IInv, Accounting, Goto
<1>0. /\ UNCHANGED <<buffered, visible_readers, lk>>
      /\ pc[t] = "w_revoke" /\ pc' = [pc EXCEPT ![t] = "w_scan"]
      /\ rbias' = [rbias EXCEPT ![lk[t]] = FALSE]
      /\ scan' = [scan EXCEPT ![t] = 0]
      /\ lk[t] \in Locks
  BY DEF Revoke, TypeOK
<1>1. \A u \in Threads : \A l \in Locks : FastReading(u, l)' => FastReading(u, l)
  BY <1>0 DEF FastReading, Slot, TypeOK
<1>2. \A u \in Threads : /\ ~buffered'[u]
                         /\ pc'[u] \in {"w_scan", "writing"} => ~rbias'[lk'[u]]
  BY <1>0 DEF RevokedInv, TypeOK
<1>3. ASSUME NEW v \in Threads, pc'[v] = "w_scan", NEW u \in Threads,
             FastReading(u, lk[v])'
      PROVE  Slot(u, lk[v])' >= scan'[v]
  <2>1. CASE v = t
    <3>1. Slot(u, lk[v]) \in Slots /\ scan'[v] = 0 /\ lk'[v] = lk[v]
      BY <1>0, <2>1, SlotType DEF TypeOK
    <3> QED
      BY <3>1, ConstantsAssumption DEF Slots, Slot
  <2>2. CASE v # t
    <3>1. FastReading(u, lk[v]) /\ pc[v] = "w_scan" /\ scan'[v] = scan[v]
      BY <1>0, <1>1, <1>3, <2>2 DEF TypeOK
    <3> QED
      BY <1>0, <3>1 DEF RevokedInv, Slot
  <2> QED
    BY <2>1, <2>2
<1>4. ASSUME NEW l \in Locks, ~rbias'[l]
      PROVE  \/ \E v \in Threads : lk'[v] = l /\ pc'[v] = "w_scan"
             \/ \A u \in Threads : ~FastReading(u, l)'
  <2>1. CASE l = lk[t]
    BY <1>0, <2>1 DEF TypeOK
  <2>2. CASE l # lk[t]
    <3>1. ~rbias[l]
      BY <1>0, <1>4, <2>2 DEF TypeOK
    <3>2. CASE \E v \in Threads : lk[v] = l /\ pc[v] = "w_scan"
      BY <1>0, <3>2 DEF TypeOK
    <3> QED
      BY <1>1, <3>1, <3>2 DEF RevokedInv
  <2> QED
    BY <2>1, <2>2
<1> QED
  BY <1>2, <1>3, <1>4 DEF RevokedInv

\* A slot that does not name the lock hides no reader of it.
LEMMA RevokedScan ==
    ASSUME CollisionFree, IInv, TypeOK', NEW t \in Threads, ScanSlot(t)
    PROVE  RevokedInv'
<1> USE DEF IInv, Accounting, Goto
<1> DEFINE l0 == lk[t]
<1>0. /\ UNCHANGED <<rbias, buffered, visible_readers, lk>>
      /\ pc[t] = "w_scan" /\ visible_readers[scan[t]] # l0
      /\ l0 \in Locks /\ scan[t] \in Slots
  BY DEF ScanSlot, TypeOK
<1>1. \A u \in Threads \ {t} : pc'[u] = pc[u] /\ scan'[u] = scan[u]
  BY DEF ScanSlot, TypeOK
<1>2. \A u \in Threads : \A l \in Locks : FastReading(u, l)' <=> FastReading(u, l)
  <2>1. pc'[t] # "reading"
    BY <1>0 DEF ScanSlot, TypeOK
  <2> QED
    BY <1>0, <1>1, <2>1 DEF FastReading, Slot
<1>3. ASSUME NEW u \in Threads, FastReading(u, l0)
      PROVE  Slot(u, l0) \in Slots /\ Slot(u, l0) > scan[t]
  <2>1. visible_readers[Slot(u, l0)] = l0
    BY <1>0, <1>3, SlotOwner DEF FastReading
  <2>2. Slot(u, l0) >= scan[t] /\ Slot(u, l0) # scan[t]
    BY <1>0, <1>3, <2>1 DEF RevokedInv
  <2>3. Slot(u, l0) \in Slots
    BY <1>0, SlotType
  <2> QED
    BY <1>0, <2>2, <2>3 DEF Slots
<1>4. \A u \in Threads : /\ ~buffered'[u]
                         /\ pc'[u] \in {"w_scan", "writing"} => ~rbias'[lk'[u]]
  BY <1>0, <1>1 DEF RevokedInv
<1>5. ASSUME NEW v \in Threads, pc'[v] = "w_scan", NEW u \in Threads,
             FastReading(u, lk[v])'
      PROVE  Slot(u, lk[v])' >= scan'[v]
  <2>0. FastReading(u, lk[v]) /\ lk[v] \in Locks
    BY <1>0, <1>2, <1>5 DEF TypeOK
  <2>1. CASE v = t
    <3>1. scan'[t] = scan[t] + 1
      BY <1>5, <2>1 DEF ScanSlot, TypeOK
    <3>2. Slot(u, l0) > scan[t] /\ Slot(u, l0) \in Slots
      BY <1>3, <2>0, <2>1
    <3> QED
      BY <1>0, <2>1, <3>1, <3>2 DEF Slots, Slot
  <2>2. CASE v # t
    BY <1>0, <1>1, <1>5, <2>0, <2>2 DEF RevokedInv, Slot
  <2> QED
    BY <2>1, <2>2
<1>6. ASSUME NEW l \in Locks, ~rbias'[l]
      PROVE  \/ \E v \in Threads : lk'[v] = l /\ pc'[v] = "w_scan"
             \/ \A u \in Threads : ~FastReading(u, l)'
  <2>1. CASE l = l0 /\ scan[t] = NrEntries - 1
    <3>1. \A u \in Threads : ~FastReading(u, l0)
      <4> SUFFICES ASSUME NEW u \in Threads, FastReading(u, l0)
                   PROVE  FALSE
        OBVIOUS
      <4>1. Slot(u, l0) \in Slots /\ Slot(u, l0) > scan[t]
        BY <1>3
      <4> QED
        BY <2>1, <4>1, ConstantsAssumption DEF Slots
    <3> QED
      BY <1>2, <2>1, <3>1
  <2>2. CASE l = l0 /\ scan[t] # NrEntries - 1
    BY <1>0, <2>2 DEF ScanSlot
  <2>3. CASE l # l0
    BY <1>0, <1>1, <1>2, <1>6, <2>3 DEF RevokedInv
  <2> QED
    BY <2>1, <2>2, <2>3
<1> QED
  BY <1>4, <1>5, <1>6 DEF RevokedInv

\* A writer that finds the bias off is let in without a scan.
LEMMA RevokedTestBias ==
    ASSUME CollisionFree, IInv, TypeOK', NEW t \in Threads, TestBias(t)
    PROVE  RevokedInv'
<1> USE DEF IInv, Accounting, Goto
<1>0. /\ UNCHANGED <<rbias, buffered, scan, visible_readers, lk>>
      /\ pc[t] = "w_bias"
      /\ pc' = [pc EXCEPT ![t] = IF rbias[lk[t]] THEN "w_revoke" ELSE "writing"]
  BY DEF TestBias
<1>1. \A u \in Threads : \A l \in Locks : FastReading(u, l)' <=> FastReading(u, l)
  BY <1>0 DEF FastReading, Slot, TypeOK
<1>2. \A u \in Threads : pc[u] = "w_scan" <=> pc'[u] = "w_scan"
  BY <1>0 DEF TypeOK
<1>3. \A u \in Threads : /\ ~buffered'[u]
                         /\ pc'[u] \in {"w_scan", "writing"} => ~rbias'[lk'[u]]
  BY <1>0 DEF RevokedInv, TypeOK
<1>4. ASSUME NEW v \in Threads, pc'[v] = "w_scan", NEW u \in Threads,
             FastReading(u, lk[v])'
      PROVE  Slot(u, lk[v])' >= scan'[v]
  <2>1. FastReading(u, lk[v])
    BY <1>0, <1>1, <1>4 DEF TypeOK
  <2> QED
    BY <1>0, <1>2, <1>4, <2>1 DEF RevokedInv, Slot
<1>5. ASSUME NEW l \in Locks, ~rbias'[l]
      PROVE  \/ \E v \in Threads : lk'[v] = l /\ pc'[v] = "w_scan"
             \/ \A u \in Threads : ~FastReading(u, l)'
  BY <1>0, <1>1, <1>2, <1>5 DEF RevokedInv
<1> QED
  BY <1>3, <1>4, <1>5 DEF RevokedInv

LEMMA IInvStep ==
    ASSUME ~StoreBuffering, CollisionFree, IInv, [Next]_vars
    PROVE  IInv'
<1>0. Accounting'
  BY AccountingStep DEF IInv
<1>1. TypeOK'
  BY <1>0 DEF Accounting
<1>2. CASE UNCHANGED vars
  <2>1. RevokedInv'
    BY <1>2 DEF IInv, vars, RevokedInv, FastReading, Slot
  <2> QED
    BY <1>0, <2>1 DEF IInv
<1>3. ASSUME NEW t \in Threads, Drain(t)
      PROVE  FALSE
  BY <1>3 DEF Drain, IInv, RevokedInv
<1>4. CASE Next
  <2>1. RevokedInv'
    BY <1>1, <1>3, <1>4, RevokedReaders, RevokedCalls, RevokedCheckBias,
       RevokedBiasOn, RevokedRevoke, RevokedScan, RevokedTestBias
       DEF Next, ReaderStep, WriterStep
  <2> QED
    BY <1>0, <2>1 DEF IInv
<1> QED
  BY <1>2, <1>4

LEMMA IInvExclusion == CollisionFree /\ IInv => Exclusion
<1> SUFFICES ASSUME CollisionFree, IInv, NEW t \in Threads, NEW u \in Threads,
                    NEW l \in Locks, t # u, Writing(t, l)
             PROVE  ~Reading(u, l) /\ ~Writing(u, l)
  BY DEF Exclusion
<1> USE DEF IInv, Accounting, Reading, Writing
<1>1. writer[l] = t
  BY DEF WriterInv, WriterPCs
<1>2. ~Writing(u, l)
  BY OneWriter DEF WriterPCs
<1>3. ASSUME Reading(u, l)
      PROVE  FALSE
  <2>1. ~rbias[l]
    BY DEF RevokedInv
  <2>2. ~ \E v \in Threads : lk[v] = l /\ pc[v] = "w_scan"
    BY OneWriter DEF WriterPCs
  <2>3. ~FastReading(u, l)
    BY <2>1, <2>2 DEF RevokedInv
  <2>4. u \in SlowHolders(l)
    BY <1>3, <2>3 DEF FastReading, SlowHolders, SlowHolder, MySlot
  <2> QED
    BY <1>1, <2>4, ConstantsAssumption DEF CountInv
<1> QED
  BY <1>2, <1>3

\* With a collision-free bravo_hash and a revocation store that is visible
\* before the scan, bravo.c is a reader-writer lock for any number of
\* threads and locks: no reader, announced or not, overlaps a writer.
THEOREM MutualExclusion ==
    ASSUME CollisionFree, ~StoreBuffering
    PROVE  Spec => []Exclusion
<1>1. Init => IInv
  BY InitAccounting, InitRevoked DEF IInv
<1>2. CollisionFree /\ ~StoreBuffering /\ IInv /\ [Next]_vars => IInv'
  BY IInvStep
<1>3. CollisionFree /\ IInv => Exclusion
  BY IInvExclusion
<1> QED
  BY <1>1, <1>2, <1>3, PTL DEF Spec


-----------------------------------------------------------------------------
(* The lock implements RWLock.                                              *)

\* The abstract lock, as Bravo's refinement mapping reads it off the state.
ReadersOf == [l \in Locks |-> {t \in Threads : Reading(t, l)}]
WriterOf == [l \in Locks |-> IF \E t \in Threads : Writing(t, l)
                             THEN CHOOSE t \in Threads : Writing(t, l)
                             ELSE NoThread]

LEMMA RWActions ==
    ASSUME NEW t \in Threads, NEW l \in Locks
    PROVE  /\ RW!AcquireRead(t, l) <=>
                 /\ WriterOf[l] = NoThread /\ t \notin ReadersOf[l]
                 /\ ReadersOf' = [ReadersOf EXCEPT ![l] = @ \cup {t}] /\ WriterOf' = WriterOf
           /\ RW!ReleaseRead(t, l) <=>
                 /\ t \in ReadersOf[l]
                 /\ ReadersOf' = [ReadersOf EXCEPT ![l] = @ \ {t}] /\ WriterOf' = WriterOf
           /\ RW!AcquireWrite(t, l) <=>
                 /\ WriterOf[l] = NoThread /\ ReadersOf[l] = {}
                 /\ WriterOf' = [WriterOf EXCEPT ![l] = t] /\ ReadersOf' = ReadersOf
           /\ RW!ReleaseWrite(t, l) <=>
                 /\ WriterOf[l] = t
                 /\ WriterOf' = [WriterOf EXCEPT ![l] = NoThread] /\ ReadersOf' = ReadersOf
BY DEF RW!AcquireRead, RW!ReleaseRead, RW!AcquireWrite, RW!ReleaseWrite, ReadersOf, WriterOf

LEMMA RWStutter ==
    UNCHANGED RW!rwvars <=> ReadersOf' = ReadersOf /\ WriterOf' = WriterOf
BY DEF RW!rwvars, ReadersOf, WriterOf

LEMMA WriterIs ==
    ASSUME Exclusion, NEW l \in Locks
    PROVE  /\ \A t \in Threads : Writing(t, l) => WriterOf[l] = t
           /\ (\A t \in Threads : ~Writing(t, l)) => WriterOf[l] = NoThread
BY DEF Exclusion, WriterOf

LEMMA WriterIsNext ==
    ASSUME Exclusion', NEW l \in Locks
    PROVE  /\ \A t \in Threads : Writing(t, l)' => WriterOf'[l] = t
           /\ (\A t \in Threads : ~Writing(t, l)') => WriterOf'[l] = NoThread
BY DEF Exclusion, WriterOf

\* The same thread writes, or none.
LEMMA WriterSame ==
    ASSUME Exclusion, Exclusion', NEW l \in Locks,
           \A t \in Threads : Writing(t, l)' <=> Writing(t, l)
    PROVE  WriterOf'[l] = WriterOf[l]
BY WriterIs, WriterIsNext

LEMMA AbstractFunctions ==
    /\ DOMAIN WriterOf = Locks /\ WriterOf = [l \in Locks |-> WriterOf[l]]
    /\ DOMAIN WriterOf' = Locks /\ WriterOf' = [l \in Locks |-> WriterOf'[l]]
    /\ ReadersOf = [l \in Locks |-> ReadersOf[l]] /\ ReadersOf' = [l \in Locks |-> ReadersOf'[l]]
BY DEF WriterOf, ReadersOf

\* A step in which only thread t moves, and does not go from one critical
\* section to another, is a step of the abstract lock or a stutter.
LEMMA OneThreadMoves ==
    ASSUME Exclusion, Exclusion', NEW t \in Threads, lk[t] \in Locks,
           \A u \in Threads \ {t} : pc'[u] = pc[u] /\ lk'[u] = lk[u],
           \/ pc[t] \notin {"reading", "writing"} /\ pc'[t] \notin {"reading", "writing"}
           \/ /\ lk'[t] = lk[t]
              /\ pc[t] \notin {"reading", "writing"} \/ pc'[t] \notin {"reading", "writing"}
    PROVE  RW!Next \/ UNCHANGED RW!rwvars
<1>1. ASSUME NEW u \in Threads, u # t, NEW l \in Locks
      PROVE  (Reading(u, l)' <=> Reading(u, l)) /\ (Writing(u, l)' <=> Writing(u, l))
  BY <1>1 DEF Reading, Writing
<1>2. CASE pc[t] \notin {"reading", "writing"} /\ pc'[t] \notin {"reading", "writing"}
  <2>1. \A u \in Threads : \A l \in Locks : /\ Reading(u, l)' <=> Reading(u, l)
                                            /\ Writing(u, l)' <=> Writing(u, l)
    BY <1>1, <1>2 DEF Reading, Writing
  <2>2. ReadersOf' = ReadersOf
    BY <2>1 DEF ReadersOf
  <2>3. WriterOf' = WriterOf
    BY <2>1, WriterSame, AbstractFunctions
  <2> QED
    BY <2>2, <2>3, RWStutter
<1> PICK k \in Locks : k = lk[t]
  OBVIOUS
<1>3. CASE /\ lk'[t] = lk[t] /\ pc[t] \notin {"reading", "writing"} /\ pc'[t] = "reading"
  <2>1. \A u \in Threads : \A l \in Locks : /\ Writing(u, l)' <=> Writing(u, l)
                                            /\ Reading(u, l)' <=> Reading(u, l) \/ (u = t /\ l = k)
    BY <1>1, <1>3 DEF Reading, Writing
  <2>2. Reading(t, k)' /\ ~Reading(t, k)
    BY <1>3 DEF Reading
  <2>3. \A u \in Threads : ~Writing(u, k)
    BY <1>3, <2>1, <2>2 DEF Exclusion, Writing
  <2>4. WriterOf[k] = NoThread /\ WriterOf' = WriterOf
    BY <2>1, <2>3, WriterIs, WriterSame, AbstractFunctions
  <2>5. t \notin ReadersOf[k] /\ ReadersOf' = [ReadersOf EXCEPT ![k] = @ \cup {t}]
    <3>1. t \notin ReadersOf[k] /\ ReadersOf'[k] = ReadersOf[k] \cup {t}
      BY <2>1, <2>2 DEF ReadersOf
    <3>2. \A l \in Locks : l # k => ReadersOf'[l] = ReadersOf[l]
      BY <2>1 DEF ReadersOf
    <3> QED
      BY <3>1, <3>2, AbstractFunctions
  <2> QED
    BY <2>4, <2>5, RWActions DEF RW!Next
<1>4. CASE lk'[t] = lk[t] /\ pc[t] = "reading" /\ pc'[t] \notin {"reading", "writing"}
  <2>1. \A u \in Threads : \A l \in Locks : /\ Writing(u, l)' <=> Writing(u, l)
                                            /\ Reading(u, l)' <=> Reading(u, l) /\ ~(u = t /\ l = k)
    BY <1>1, <1>4 DEF Reading, Writing
  <2>2. Reading(t, k)
    BY <1>4 DEF Reading
  <2>3. WriterOf' = WriterOf
    BY <2>1, WriterSame, AbstractFunctions
  <2>4. t \in ReadersOf[k] /\ ReadersOf' = [ReadersOf EXCEPT ![k] = @ \ {t}]
    BY <2>1, <2>2 DEF ReadersOf
  <2> QED
    BY <2>3, <2>4, RWActions DEF RW!Next
<1>5. CASE lk'[t] = lk[t] /\ pc[t] \notin {"reading", "writing"} /\ pc'[t] = "writing"
  <2>1. \A u \in Threads : \A l \in Locks : /\ Reading(u, l)' <=> Reading(u, l)
                                            /\ l # k => (Writing(u, l)' <=> Writing(u, l))
    BY <1>1, <1>5 DEF Reading, Writing
  <2>2. Writing(t, k)' /\ ~Writing(t, k) /\ ~Reading(t, k)
    BY <1>5 DEF Reading, Writing
  <2>3. \A u \in Threads : ~Writing(u, k) /\ ~Reading(u, k)
    BY <1>1, <2>2 DEF Exclusion
  <2>4. WriterOf[k] = NoThread /\ WriterOf'[k] = t
    BY <2>2, <2>3, WriterIs, WriterIsNext
  <2>5. \A l \in Locks : l # k => WriterOf'[l] = WriterOf[l]
    BY <2>1, WriterSame
  <2>6. WriterOf' = [WriterOf EXCEPT ![k] = t]
    BY <2>4, <2>5, AbstractFunctions
  <2>7. ReadersOf[k] = {} /\ ReadersOf' = ReadersOf
    BY <2>1, <2>3 DEF ReadersOf
  <2> QED
    BY <2>4, <2>6, <2>7, RWActions DEF RW!Next
<1>6. CASE lk'[t] = lk[t] /\ pc[t] = "writing" /\ pc'[t] \notin {"reading", "writing"}
  <2>1. \A u \in Threads : \A l \in Locks : /\ Reading(u, l)' <=> Reading(u, l)
                                            /\ l # k => (Writing(u, l)' <=> Writing(u, l))
    BY <1>1, <1>6 DEF Reading, Writing
  <2>2. Writing(t, k) /\ ~Writing(t, k)'
    BY <1>6 DEF Writing
  <2>3. \A u \in Threads : ~Writing(u, k)'
    BY <1>1, <2>2 DEF Exclusion
  <2>4. WriterOf[k] = t /\ WriterOf'[k] = NoThread
    BY <2>2, <2>3, WriterIs, WriterIsNext
  <2>5. \A l \in Locks : l # k => WriterOf'[l] = WriterOf[l]
    BY <2>1, WriterSame
  <2>6. WriterOf' = [WriterOf EXCEPT ![k] = NoThread]
    BY <2>4, <2>5, AbstractFunctions
  <2>7. ReadersOf' = ReadersOf
    BY <2>1 DEF ReadersOf
  <2> QED
    BY <2>4, <2>6, <2>7, RWActions DEF RW!Next
<1> QED
  BY <1>2, <1>3, <1>4, <1>5, <1>6

LEMMA RefinesInit == Init => RW!Init
<1> SUFFICES ASSUME Init PROVE RW!Init
  OBVIOUS
<1>1. \A t \in Threads : \A l \in Locks : ~Reading(t, l) /\ ~Writing(t, l)
  BY DEF Init, Reading, Writing
<1> QED
  BY <1>1 DEF RW!Init

LEMMA RefinesNext ==
    ASSUME TypeOK, TypeOK', Exclusion, Exclusion', [Next]_vars
    PROVE  RW!Next \/ UNCHANGED RW!rwvars
<1>1. CASE UNCHANGED vars
  <2>1. ReadersOf' = ReadersOf /\ WriterOf' = WriterOf
    BY <1>1 DEF vars, ReadersOf, WriterOf, Reading, Writing
  <2> QED
    BY <2>1, RWStutter
<1>2. ASSUME NEW t \in Threads,
             \/ \E l \in Locks, isTry \in BOOLEAN :
                   BeginRead(t, l, isTry) \/ BeginWrite(t, l, isTry)
             \/ ReaderStep(t) \/ WriterStep(t)
      PROVE  RW!Next \/ UNCHANGED RW!rwvars
  <2>1. lk[t] \in Locks
    BY DEF TypeOK
  <2>2. ASSUME NEW l \in Locks, NEW isTry \in BOOLEAN,
               BeginRead(t, l, isTry) \/ BeginWrite(t, l, isTry)
        PROVE  RW!Next \/ UNCHANGED RW!rwvars
    <3>1. /\ \A u \in Threads \ {t} : pc'[u] = pc[u] /\ lk'[u] = lk[u]
          /\ pc[t] \notin {"reading", "writing"} /\ pc'[t] \notin {"reading", "writing"}
      BY <2>2 DEF BeginRead, BeginWrite, Goto, TypeOK
    <3> QED
      BY <2>1, <3>1, OneThreadMoves
  <2>3. CASE ReaderStep(t)
    <3>1. /\ \A u \in Threads \ {t} : pc'[u] = pc[u] /\ lk'[u] = lk[u]
          /\ lk'[t] = lk[t]
          /\ pc[t] \notin {"reading", "writing"} \/ pc'[t] \notin {"reading", "writing"}
      BY <2>3 DEF ReaderStep, CasSlot, CheckBias, ClearSlot, SlowRead, SlowReadBusy, Rebias,
                  TestSlot, FastUnlock, SlowUnlock, Goto, TypeOK
    <3> QED
      BY <2>1, <3>1, OneThreadMoves
  <2>4. CASE Drain(t)
    <3>1. ReadersOf' = ReadersOf /\ WriterOf' = WriterOf
      BY <2>4 DEF Drain, ReadersOf, WriterOf, Reading, Writing
    <3> QED
      BY <3>1, RWStutter
  <2>5. CASE WriterStep(t) /\ ~Drain(t)
    <3>1. /\ \A u \in Threads \ {t} : pc'[u] = pc[u] /\ lk'[u] = lk[u]
          /\ lk'[t] = lk[t]
          /\ pc[t] \notin {"reading", "writing"} \/ pc'[t] \notin {"reading", "writing"}
      BY <2>5 DEF WriterStep, UnderlyingWrite, WriteBusy, TestBias, Revoke, ScanSlot,
                  WriteUnlock, Reinit, Goto, TypeOK
    <3> QED
      BY <2>1, <3>1, OneThreadMoves
  <2> QED
    BY <1>2, <2>2, <2>3, <2>4, <2>5
<1> QED
  BY <1>1, <1>2 DEF Next

\* Under the same two provisos bravo.c implements the abstract reader-writer
\* lock that the rest of the library is modelled with: every step of a thread
\* in bravo_read_lock, bravo_write_lock, their trylocks, the unlocks and
\* bravo_rwlock_destroy is an acquisition, a release or no step of RWLock.
THEOREM Refinement ==
    ASSUME CollisionFree, ~StoreBuffering
    PROVE  Spec => ImplementsRWLock
<1>1. Init => IInv /\ RW!Init
  BY InitAccounting, InitRevoked, RefinesInit DEF IInv
<1>2. CollisionFree /\ ~StoreBuffering /\ IInv /\ [Next]_vars => IInv'
  BY IInvStep
<1>3. CollisionFree /\ IInv => Exclusion /\ TypeOK
  BY IInvExclusion DEF IInv, Accounting
<1>4. /\ TypeOK /\ TypeOK' /\ Exclusion /\ Exclusion' /\ [Next]_vars
      => [RW!Next]_RW!rwvars
  BY RefinesNext
<1> QED
  BY <1>1, <1>2, <1>3, <1>4, PTL DEF Spec, ImplementsRWLock, RW!Spec

=============================================================================
