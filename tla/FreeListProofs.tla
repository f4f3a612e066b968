--------------------------- MODULE FreeListProofs ---------------------------
(***************************************************************************)
(* TLAPS proofs about an object pool, for every batch size, every number   *)
(* of batches and threads and every MAX_SKIP_NODES: batches stay whole,    *)
(* every object is in one place, and a thread keeps no more than it may.   *)
(***************************************************************************)
EXTENDS FreeList, TLAPS, FiniteSetTheorems, SequenceTheorems

-----------------------------------------------------------------------------
(* Arithmetic of batches.                                                   *)

LEMMA UnitType == Unit \in Nat /\ Unit > 0 /\ Batches \in Nat /\ Batches > 0
                  /\ MaxSkipNodes \in Nat /\ MaxSkipNodes > 0
BY FreeListAssumption

LEMMA Product ==
    ASSUME NEW j \in Nat, NEW k \in Nat
    PROVE  /\ Unit * k \in Nat /\ Unit * (k + 1) = Unit * k + Unit
           /\ j <= k => Unit * j <= Unit * k
           /\ k > 0 => Unit * k >= Unit /\ Unit * (k - 1) = Unit * k - Unit
BY UnitType

LEMMA Remainder ==
    ASSUME NEW k \in Nat, NEW r \in 0 .. Unit - 1
    PROVE  (Unit * k + r) % Unit = r
BY UnitType

-----------------------------------------------------------------------------
(* Lists without duplicates.                                                *)

Elems(s) == {s[i] : i \in 1 .. Len(s)}
Simple(s) == \A i, j \in 1 .. Len(s) : s[i] = s[j] => i = j

\* A list that loses its first node.
LEMMA Popped ==
    ASSUME NEW S, NEW s \in Seq(S), s # <<>>
    PROVE  /\ Head(s) = s[1] /\ Head(s) \in S /\ Len(s) > 0 /\ Tail(s) \in Seq(S)
           /\ Len(Tail(s)) = Len(s) - 1 /\ Head(s) \in Elems(s)
           /\ \A i \in 1 .. Len(s) - 1 : Tail(s)[i] = s[i + 1]
           /\ Simple(s) => Simple(Tail(s)) /\ Elems(Tail(s)) = Elems(s) \ {Head(s)}
<1>1. /\ Head(s) = s[1] /\ Head(s) \in S /\ Len(s) \in Nat /\ Len(s) > 0 /\ Tail(s) \in Seq(S)
      /\ Len(Tail(s)) = Len(s) - 1
      /\ \A i \in 1 .. Len(s) - 1 : Tail(s)[i] = s[i + 1]
  BY HeadTailProperties, EmptySeq
<1>2. Head(s) \in Elems(s)
  BY <1>1 DEF Elems
<1>3. ASSUME Simple(s) PROVE Simple(Tail(s))
  BY <1>1, <1>3 DEF Simple
<1>4. ASSUME Simple(s) PROVE Elems(Tail(s)) = Elems(s) \ {Head(s)}
  <2>1. ASSUME NEW x \in Elems(Tail(s)) PROVE x \in Elems(s) /\ x # Head(s)
    <3>1. PICK i \in 1 .. Len(s) - 1 : x = s[i + 1]
      BY <1>1 DEF Elems
    <3>2. i + 1 \in 1 .. Len(s) /\ 1 \in 1 .. Len(s) /\ i + 1 # 1
      BY <1>1
    <3> QED
      BY <1>1, <1>4, <3>1, <3>2 DEF Elems, Simple
  <2>2. ASSUME NEW x \in Elems(s), x # Head(s) PROVE x \in Elems(Tail(s))
    <3>1. PICK i \in 1 .. Len(s) : x = s[i]
      BY DEF Elems
    <3>2. i - 1 \in 1 .. Len(s) - 1 /\ s[(i - 1) + 1] = x
      BY <1>1, <2>2, <3>1
    <3>3. Tail(s)[i - 1] = x
      BY <1>1, <3>2
    <3> QED
      BY <1>1, <3>2, <3>3 DEF Elems
  <2> QED
    BY <2>1, <2>2
<1> QED
  BY <1>1, <1>2, <1>3, <1>4

\* A list that gets another one in front.
LEMMA Spliced ==
    ASSUME NEW S, NEW a \in Seq(S), NEW b \in Seq(S)
    PROVE  /\ a \o b \in Seq(S) /\ Len(a \o b) = Len(a) + Len(b)
           /\ \A i \in 1 .. Len(a) : (a \o b)[i] = a[i]
           /\ \A i \in 1 .. Len(b) : (a \o b)[Len(a) + i] = b[i]
           /\ Elems(a \o b) = Elems(a) \cup Elems(b)
           /\ Simple(a) /\ Simple(b) /\ Elems(a) \cap Elems(b) = {} => Simple(a \o b)
<1> DEFINE c == a \o b
<1>1. /\ c \in Seq(S) /\ Len(c) = Len(a) + Len(b)
      /\ \A i \in 1 .. Len(a) + Len(b) : c[i] = IF i <= Len(a) THEN a[i] ELSE b[i - Len(a)]
      /\ Len(a) \in Nat /\ Len(b) \in Nat
  BY ConcatProperties, LenProperties
<1> HIDE DEF c
<1>2. ASSUME NEW i \in 1 .. Len(a) PROVE c[i] = a[i]
  <2>1. i \in 1 .. Len(a) + Len(b) /\ i <= Len(a)
    BY <1>1
  <2> QED
    BY <1>1, <2>1
<1>3. ASSUME NEW i \in 1 .. Len(b) PROVE c[Len(a) + i] = b[i]
  <2>1. /\ Len(a) + i \in 1 .. Len(a) + Len(b) /\ ~(Len(a) + i <= Len(a))
        /\ (Len(a) + i) - Len(a) = i
    BY <1>1
  <2> QED
    BY <1>1, <2>1
<1>4. Elems(c) = Elems(a) \cup Elems(b)
  <2>1. ASSUME NEW x \in Elems(c) PROVE x \in Elems(a) \cup Elems(b)
    <3>1. PICK i \in 1 .. Len(c) : x = c[i]
      BY DEF Elems
    <3>2. CASE i <= Len(a)
      <4>1. i \in 1 .. Len(a) /\ x = a[i]
        BY <1>1, <3>1, <3>2
      <4> QED
        BY <4>1 DEF Elems
    <3>3. CASE ~(i <= Len(a))
      <4>1. i - Len(a) \in 1 .. Len(b) /\ x = b[i - Len(a)]
        BY <1>1, <3>1, <3>3
      <4> QED
        BY <4>1 DEF Elems
    <3> QED
      BY <3>2, <3>3
  <2>2. ASSUME NEW x \in Elems(a) PROVE x \in Elems(c)
    <3>1. PICK i \in 1 .. Len(a) : x = a[i]
      BY DEF Elems
    <3>2. i \in 1 .. Len(c) /\ c[i] = x
      BY <1>1, <1>2, <3>1
    <3> QED
      BY <3>2 DEF Elems
  <2>3. ASSUME NEW x \in Elems(b) PROVE x \in Elems(c)
    <3>1. PICK i \in 1 .. Len(b) : x = b[i]
      BY DEF Elems
    <3>2. Len(a) + i \in 1 .. Len(c) /\ c[Len(a) + i] = x
      BY <1>1, <1>3, <3>1
    <3> QED
      BY <3>2 DEF Elems
  <2> QED
    BY <2>1, <2>2, <2>3
<1>5. ASSUME Simple(a), Simple(b), Elems(a) \cap Elems(b) = {} PROVE Simple(c)
  <2> SUFFICES ASSUME NEW i \in 1 .. Len(c), NEW j \in 1 .. Len(c), c[i] = c[j]
               PROVE  i = j
    BY DEF Simple
  <2>1. CASE i <= Len(a) /\ j <= Len(a)
    BY <1>1, <1>5, <2>1 DEF Simple
  <2>2. CASE ~(i <= Len(a)) /\ ~(j <= Len(a))
    <3>1. /\ i - Len(a) \in 1 .. Len(b) /\ j - Len(a) \in 1 .. Len(b)
          /\ b[i - Len(a)] = b[j - Len(a)]
      BY <1>1, <2>2
    <3>2. i - Len(a) = j - Len(a)
      BY <1>5, <3>1 DEF Simple
    <3> QED
      BY <1>1, <3>2
  <2>3. CASE i <= Len(a) /\ ~(j <= Len(a))
    <3>1. j - Len(a) \in 1 .. Len(b) /\ i \in 1 .. Len(a) /\ a[i] = b[j - Len(a)]
      BY <1>1, <2>3
    <3> QED
      BY <1>5, <3>1 DEF Elems
  <2>4. CASE ~(i <= Len(a)) /\ j <= Len(a)
    <3>1. i - Len(a) \in 1 .. Len(b) /\ j \in 1 .. Len(a) /\ a[j] = b[i - Len(a)]
      BY <1>1, <2>4
    <3> QED
      BY <1>5, <3>1 DEF Elems
  <2> QED
    BY <2>1, <2>2, <2>3, <2>4
<1> QED
  BY <1>1, <1>2, <1>3, <1>4, <1>5 DEF c

\* A list with one node more.
LEMMA Prefixed ==
    ASSUME NEW S, NEW o \in S, NEW s \in Seq(S)
    PROVE  LET p == <<o>> \o s
           IN  /\ p \in Seq(S) /\ Len(p) = Len(s) + 1 /\ p[1] = o
               /\ \A i \in 1 .. Len(s) : p[i + 1] = s[i]
               /\ Elems(p) = Elems(s) \cup {o}
               /\ Simple(s) /\ o \notin Elems(s) => Simple(p)
<1>1. <<o>> \in Seq(S) /\ Len(<<o>>) = 1 /\ <<o>>[1] = o
  OBVIOUS
<1>2. Elems(<<o>>) = {o} /\ Simple(<<o>>)
  BY <1>1 DEF Elems, Simple
<1> DEFINE a == <<o>>
<1> HIDE DEF a
<1>3. a \in Seq(S) /\ Len(a) = 1 /\ a[1] = o /\ Elems(a) = {o} /\ Simple(a)
  BY <1>1, <1>2 DEF a
<1>4. /\ a \o s \in Seq(S) /\ Len(a \o s) = 1 + Len(s) /\ (a \o s)[1] = o
      /\ \A i \in 1 .. Len(s) : (a \o s)[1 + i] = s[i]
      /\ Elems(a \o s) = {o} \cup Elems(s)
      /\ Simple(s) /\ {o} \cap Elems(s) = {} => Simple(a \o s)
  BY <1>3, Spliced
<1>5. Len(s) \in Nat
  BY LenProperties
<1> QED
  BY <1>4, <1>5 DEF a

\* A list that is cut after its n first nodes.
LEMMA Halved ==
    ASSUME NEW S, NEW s \in Seq(S), NEW n \in Nat, n <= Len(s)
    PROVE  LET a == SubSeq(s, 1, n)
               b == SubSeq(s, n + 1, Len(s))
           IN  /\ a \in Seq(S) /\ Len(a) = n /\ \A i \in 1 .. n : a[i] = s[i]
               /\ b \in Seq(S) /\ Len(b) = Len(s) - n
               /\ \A i \in 1 .. Len(s) - n : b[i] = s[n + i]
               /\ Elems(s) = Elems(a) \cup Elems(b)
               /\ Simple(s) => Simple(a) /\ Simple(b) /\ Elems(a) \cap Elems(b) = {}
<1> DEFINE a == SubSeq(s, 1, n)
           b == SubSeq(s, n + 1, Len(s))
<1>0. Len(s) \in Nat /\ \A i \in 1 .. Len(s) : s[i] \in S
  BY LenProperties, ElementOfSeq
<1>1. a \in Seq(S) /\ Len(a) = n /\ \A i \in 1 .. n : a[i] = s[i]
  BY <1>0, SubSeqProperties
<1>2. /\ b \in Seq(S) /\ Len(b) = Len(s) - n
      /\ \A i \in 1 .. Len(s) - n : b[i] = s[n + i]
  BY <1>0, SubSeqProperties
<1> HIDE DEF a, b
<1>3. Elems(s) = Elems(a) \cup Elems(b)
  <2>1. ASSUME NEW x \in Elems(s) PROVE x \in Elems(a) \cup Elems(b)
    <3>1. PICK i \in 1 .. Len(s) : x = s[i]
      BY DEF Elems
    <3>2. CASE i <= n
      BY <1>1, <3>1, <3>2 DEF Elems
    <3>3. CASE ~(i <= n)
      <4>1. i - n \in 1 .. Len(b) /\ n + (i - n) = i
        BY <1>0, <1>2, <3>3
      <4>2. b[i - n] = x
        BY <1>2, <3>1, <4>1
      <4> QED
        BY <4>1, <4>2 DEF Elems
    <3> QED
      BY <3>2, <3>3
  <2>2. ASSUME NEW x \in Elems(a) PROVE x \in Elems(s)
    BY <1>0, <1>1 DEF Elems
  <2>3. ASSUME NEW x \in Elems(b) PROVE x \in Elems(s)
    <3>1. PICK i \in 1 .. Len(b) : x = b[i]
      BY DEF Elems
    <3>2. n + i \in 1 .. Len(s) /\ s[n + i] = x
      BY <1>0, <1>2, <3>1
    <3> QED
      BY <3>2 DEF Elems
  <2> QED
    BY <2>1, <2>2, <2>3
<1>4. ASSUME Simple(s) PROVE Simple(a) /\ Simple(b) /\ Elems(a) \cap Elems(b) = {}
  <2>1. Simple(a)
    BY <1>0, <1>1, <1>4 DEF Simple
  <2>2. Simple(b)
    <3> SUFFICES ASSUME NEW i \in 1 .. Len(b), NEW j \in 1 .. Len(b), b[i] = b[j] PROVE i = j
      BY DEF Simple
    <3>1. n + i \in 1 .. Len(s) /\ n + j \in 1 .. Len(s) /\ s[n + i] = s[n + j]
      BY <1>0, <1>2
    <3>2. n + i = n + j
      BY <1>4, <3>1 DEF Simple
    <3> QED
      BY <3>2
  <2>3. ASSUME NEW x \in Elems(a), x \in Elems(b) PROVE FALSE
    <3>1. PICK i \in 1 .. n : x = s[i]
      BY <1>1 DEF Elems
    <3>2. PICK j \in 1 .. Len(s) - n : x = s[n + j]
      BY <1>2, <2>3 DEF Elems
    <3>3. i \in 1 .. Len(s) /\ n + j \in 1 .. Len(s) /\ i # n + j
      BY <1>0
    <3> QED
      BY <1>4, <3>1, <3>2, <3>3 DEF Simple
  <2> QED
    BY <2>1, <2>2, <2>3
<1> QED
  BY <1>1, <1>2, <1>3, <1>4 DEF a, b

-----------------------------------------------------------------------------
(* The invariant.                                                           *)

ListType == [list : Seq(Objects), skip : Seq(Objects)]
CollectorType == [list : Seq(Objects), skip : Seq(Objects), list_cnt : Nat, skip_cnt : Nat]

Types ==
    /\ global \in ListType
    /\ provider \in [Threads -> Seq(Objects)]
    /\ collector \in [Threads -> CollectorType]
    /\ alive \subseteq Threads /\ used \subseteq Objects /\ failed \subseteq Threads

\* The skip list marks the last node of every batch, and the batch on top
\* lacks pad nodes.  With pad = 0 it says the same as InBatches.
Padded(list, skip, pad) ==
    /\ Len(list) = Unit * Len(skip) - pad
    /\ \A k \in 1 .. Len(skip) : skip[k] = list[Unit * k - pad]

\* A collector, as its counters see it.
Kept(c) ==
    /\ c.list_cnt = Len(c.list) /\ c.skip_cnt = Len(c.skip)
    /\ c.skip_cnt <= MaxSkipNodes
    /\ \E pad \in 0 .. Unit - 1 : Padded(c.list, c.skip, pad)

BatchInv ==
    /\ Padded(global.list, global.skip, 0)
    /\ \A t \in Threads : Kept(collector[t]) /\ Len(provider[t]) < Unit
    /\ failed # {} => global.skip = <<>>

\* The lists and the objects in use are a partition of the pool.
PlaceInv ==
    /\ \A n \in Names : Simple(List(n)) /\ Elems(List(n)) \cap used = {}
    /\ \A m, n \in Names : m # n => Elems(List(m)) \cap Elems(List(n)) = {}
    /\ \A o \in Objects : o \in used \/ \E n \in Names : o \in Elems(List(n))

FreeListInv == Types /\ BatchInv /\ PlaceInv

-----------------------------------------------------------------------------
(* Cutting and splicing batches.                                            *)

\* Where the k-th mark is.
LEMMA MarkPlace ==
    ASSUME NEW list \in Seq(Objects), NEW skip \in Seq(Objects), NEW pad \in 0 .. Unit - 1,
           Padded(list, skip, pad), NEW k \in 1 .. Len(skip)
    PROVE  Unit * k - pad \in 1 .. Len(list) /\ Unit * k \in Nat
<1>1. Len(skip) \in Nat /\ Len(list) \in Nat /\ k \in Nat /\ k > 0 /\ k <= Len(skip)
  BY LenProperties
<1>2. Unit * k \in Nat /\ Unit * k >= Unit /\ Unit * k <= Unit * Len(skip)
      /\ Unit * Len(skip) \in Nat
  BY <1>1, Product
<1> QED
  BY <1>1, <1>2, UnitType DEF Padded

\* The counter of a collector tells how full the batch on top is.
LEMMA TopOfPad ==
    ASSUME NEW k \in Nat, NEW pad \in 0 .. Unit - 1, Unit * k - pad \in Nat
    PROVE  (Unit * k - pad) % Unit = IF pad = 0 THEN 0 ELSE Unit - pad
<1>1. CASE pad = 0
  <2>1. (Unit * k + 0) % Unit = 0
    BY Remainder, UnitType
  <2> QED
    BY <1>1, <2>1, Product
<1>2. CASE pad # 0
  <2>1. k > 0
    BY <1>2, UnitType
  <2>2. k - 1 \in Nat /\ Unit - pad \in 0 .. Unit - 1
    BY <1>2, <2>1, UnitType
  <2>3. (Unit * (k - 1) + (Unit - pad)) % Unit = Unit - pad
    BY <2>2, Remainder
  <2>4. Unit * (k - 1) = Unit * k - Unit /\ Unit * k \in Nat
    BY <2>1, Product
  <2>5. Unit * (k - 1) + (Unit - pad) = Unit * k - pad
    BY <2>4, UnitType
  <2> QED
    BY <1>2, <2>3, <2>5
<1> QED
  BY <1>1, <1>2

\* A node on a batch that is not full.
LEMMA PushPadded ==
    ASSUME NEW list \in Seq(Objects), NEW skip \in Seq(Objects), NEW pad \in 1 .. Unit - 1,
           Padded(list, skip, pad), NEW o \in Objects
    PROVE  Padded(<<o>> \o list, skip, pad - 1)
<1> DEFINE p == <<o>> \o list
<1>1. /\ Len(p) = Len(list) + 1 /\ \A i \in 1 .. Len(list) : p[i + 1] = list[i]
  BY Prefixed
<1> HIDE DEF p
<1>2. Len(skip) \in Nat /\ Len(list) \in Nat /\ Unit * Len(skip) \in Nat
  BY LenProperties, Product
<1>3. ASSUME NEW k \in 1 .. Len(skip) PROVE skip[k] = p[Unit * k - (pad - 1)]
  <2>1. Unit * k - pad \in 1 .. Len(list) /\ Unit * k \in Nat
    BY MarkPlace
  <2>2. p[(Unit * k - pad) + 1] = list[Unit * k - pad]
    BY <1>1, <2>1
  <2>3. (Unit * k - pad) + 1 = Unit * k - (pad - 1)
    BY <2>1
  <2> QED
    BY <2>2, <2>3 DEF Padded
<1>4. Len(p) = Unit * Len(skip) - (pad - 1)
  BY <1>1, <1>2 DEF Padded
<1> QED
  BY <1>3, <1>4 DEF Padded, p

\* A node that starts a batch, and its mark.
LEMMA MarkPadded ==
    ASSUME NEW list \in Seq(Objects), NEW skip \in Seq(Objects),
           Padded(list, skip, 0), NEW o \in Objects
    PROVE  Padded(<<o>> \o list, <<o>> \o skip, Unit - 1)
<1> DEFINE p == <<o>> \o list
           q == <<o>> \o skip
<1>1. /\ Len(p) = Len(list) + 1 /\ p[1] = o /\ \A i \in 1 .. Len(list) : p[i + 1] = list[i]
      /\ Len(q) = Len(skip) + 1 /\ q[1] = o /\ \A i \in 1 .. Len(skip) : q[i + 1] = skip[i]
  BY Prefixed
<1> HIDE DEF p, q
<1>2. /\ Len(skip) \in Nat /\ Len(list) \in Nat /\ Unit * Len(skip) \in Nat
      /\ Unit * (Len(skip) + 1) = Unit * Len(skip) + Unit
  BY LenProperties, Product
<1>3. Len(p) = Unit * Len(q) - (Unit - 1)
  BY <1>1, <1>2, UnitType DEF Padded
<1>4. ASSUME NEW k \in 1 .. Len(q) PROVE q[k] = p[Unit * k - (Unit - 1)]
  <2>1. CASE k = 1
    <3>1. Unit * 1 - (Unit - 1) = 1
      BY UnitType
    <3> QED
      BY <1>1, <2>1, <3>1
  <2>2. CASE k # 1
    <3> DEFINE j == k - 1
    <3>1. j \in 1 .. Len(skip) /\ j \in Nat /\ k = j + 1 /\ 0 \in 0 .. Unit - 1
      BY <1>1, <1>2, <2>2, UnitType
    <3> HIDE DEF j
    <3>2. Unit * j - 0 \in 1 .. Len(list) /\ Unit * j \in Nat
      BY <3>1, MarkPlace
    <3>3. Unit * (j + 1) = Unit * j + Unit /\ Unit * j \in Nat /\ Unit * j - 0 = Unit * j
      BY <3>1, <3>2, Product
    <3>4. Unit * k - (Unit - 1) = Unit * j + 1
      BY <3>1, <3>3, UnitType
    <3>5. p[Unit * j + 1] = list[Unit * j]
      BY <1>1, <3>2, <3>3
    <3>6. q[j + 1] = skip[j] /\ skip[j] = list[Unit * j]
      BY <1>1, <3>1, <3>3 DEF Padded
    <3> QED
      BY <3>1, <3>4, <3>5, <3>6
  <2> QED
    BY <2>1, <2>2
<1> QED
  BY <1>3, <1>4 DEF Padded, p, q

\* A whole batch on top of whole batches.
LEMMA SplicePadded ==
    ASSUME NEW list \in Seq(Objects), NEW skip \in Seq(Objects), Padded(list, skip, 0),
           NEW a \in Seq(Objects), Len(a) = Unit, NEW x \in Objects, a[Unit] = x
    PROVE  Padded(a \o list, <<x>> \o skip, 0)
<1> DEFINE p == a \o list
           q == <<x>> \o skip
<1>1. /\ Len(p) = Unit + Len(list) /\ \A i \in 1 .. Unit : p[i] = a[i]
      /\ \A i \in 1 .. Len(list) : p[Unit + i] = list[i]
  <2>1. \A s \in Seq(Objects) :
           /\ Len(s \o list) = Len(s) + Len(list)
           /\ \A i \in 1 .. Len(s) : (s \o list)[i] = s[i]
           /\ \A i \in 1 .. Len(list) : (s \o list)[Len(s) + i] = list[i]
    BY Spliced
  <2> QED
    BY <2>1
<1>2. Len(q) = Len(skip) + 1 /\ q[1] = x /\ \A i \in 1 .. Len(skip) : q[i + 1] = skip[i]
  BY Prefixed
<1> HIDE DEF p, q
<1>3. /\ Len(skip) \in Nat /\ Len(list) \in Nat /\ Unit * Len(skip) \in Nat
      /\ Unit * (Len(skip) + 1) = Unit * Len(skip) + Unit
  BY LenProperties, Product
<1>4. Len(p) = Unit * Len(q) - 0
  BY <1>1, <1>2, <1>3, UnitType DEF Padded
<1>5. ASSUME NEW k \in 1 .. Len(q) PROVE q[k] = p[Unit * k - 0]
  <2>1. CASE k = 1
    <3>1. Unit * 1 - 0 = Unit /\ Unit \in 1 .. Unit
      BY UnitType
    <3> QED
      BY <1>1, <1>2, <2>1, <3>1
  <2>2. CASE k # 1
    <3> DEFINE j == k - 1
    <3>1. j \in 1 .. Len(skip) /\ j \in Nat /\ k = j + 1 /\ 0 \in 0 .. Unit - 1
      BY <1>2, <1>3, <2>2, UnitType
    <3> HIDE DEF j
    <3>2. Unit * j - 0 \in 1 .. Len(list) /\ Unit * j \in Nat
      BY <3>1, MarkPlace
    <3>3. Unit * (j + 1) = Unit * j + Unit /\ Unit * j - 0 = Unit * j
      BY <3>1, <3>2, Product
    <3>4. Unit * k - 0 = Unit + Unit * j
      BY <3>1, <3>2, <3>3, UnitType
    <3>5. p[Unit + Unit * j] = list[Unit * j]
      BY <1>1, <3>2, <3>3
    <3>6. q[j + 1] = skip[j] /\ skip[j] = list[Unit * j]
      BY <1>2, <3>1, <3>3 DEF Padded
    <3> QED
      BY <3>1, <3>4, <3>5, <3>6
  <2> QED
    BY <2>1, <2>2
<1> QED
  BY <1>4, <1>5 DEF Padded, p, q

\* slist_cut_splice at the first mark: one whole batch, and whole batches.
LEMMA CutBatch ==
    ASSUME NEW list \in Seq(Objects), NEW skip \in Seq(Objects), Padded(list, skip, 0),
           Simple(list), skip # <<>>
    PROVE  LET a == Cut(list, Head(skip))
               b == Rest(list, Head(skip))
           IN  /\ a \in Seq(Objects) /\ Len(a) = Unit /\ a[Unit] = Head(skip)
               /\ b \in Seq(Objects) /\ Padded(b, Tail(skip), 0)
               /\ Elems(list) = Elems(a) \cup Elems(b) /\ Elems(a) \cap Elems(b) = {}
               /\ Simple(a) /\ Simple(b)
<1>1. /\ Head(skip) = skip[1] /\ Head(skip) \in Objects /\ Len(skip) > 0
      /\ Tail(skip) \in Seq(Objects) /\ Len(Tail(skip)) = Len(skip) - 1
      /\ \A i \in 1 .. Len(skip) - 1 : Tail(skip)[i] = skip[i + 1]
  BY Popped
<1>2. Len(skip) \in Nat /\ Len(list) \in Nat /\ 1 \in 1 .. Len(skip) /\ 0 \in 0 .. Unit - 1
  BY <1>1, LenProperties, UnitType
<1>3. Unit * 1 - 0 \in 1 .. Len(list)
  BY <1>2, MarkPlace
<1>4. Unit * 1 - 0 = Unit
  BY UnitType
<1>5. Unit \in 1 .. Len(list) /\ list[Unit] = Head(skip)
  BY <1>1, <1>2, <1>3, <1>4 DEF Padded
<1>6. Place(list, Head(skip)) = Unit
  BY <1>5 DEF Place, Simple
<1> DEFINE a == SubSeq(list, 1, Unit)
           b == SubSeq(list, Unit + 1, Len(list))
<1>7. Cut(list, Head(skip)) = a /\ Rest(list, Head(skip)) = b
  BY <1>6 DEF Cut, Rest
<1>8. /\ a \in Seq(Objects) /\ Len(a) = Unit /\ \A i \in 1 .. Unit : a[i] = list[i]
      /\ b \in Seq(Objects) /\ Len(b) = Len(list) - Unit
      /\ \A i \in 1 .. Len(list) - Unit : b[i] = list[Unit + i]
      /\ Elems(list) = Elems(a) \cup Elems(b)
      /\ Simple(a) /\ Simple(b) /\ Elems(a) \cap Elems(b) = {}
  <2>1. Unit \in Nat /\ Unit <= Len(list)
    BY <1>2, <1>5, UnitType
  <2> QED
    BY <2>1, Halved
<1> HIDE DEF a, b
<1>9. a[Unit] = Head(skip)
  BY <1>5, <1>8, UnitType
<1>10. Padded(b, Tail(skip), 0)
  <2>1. Unit * (Len(skip) - 1) = Unit * Len(skip) - Unit /\ Unit * Len(skip) \in Nat
    BY <1>1, <1>2, Product
  <2>2. Len(b) = Unit * Len(Tail(skip)) - 0
    BY <1>1, <1>2, <1>8, <2>1, UnitType DEF Padded
  <2>3. ASSUME NEW k \in 1 .. Len(Tail(skip)) PROVE Tail(skip)[k] = b[Unit * k - 0]
    <3>1. k \in Nat /\ k > 0 /\ k \in 1 .. Len(skip) - 1 /\ k + 1 \in 1 .. Len(skip)
      BY <1>1, <1>2
    <3>2. Unit * (k + 1) - 0 \in 1 .. Len(list)
      BY <1>2, <3>1, MarkPlace
    <3>3. Unit * (k + 1) = Unit * k + Unit /\ Unit * k \in Nat /\ Unit * k >= Unit
      BY <3>1, Product
    <3>4. Unit * k - 0 \in 1 .. Len(list) - Unit /\ Unit + (Unit * k - 0) = Unit * (k + 1) - 0
      BY <1>2, <3>2, <3>3, UnitType
    <3>5. b[Unit * k - 0] = list[Unit + (Unit * k - 0)]
      BY <1>8, <3>4
    <3>6. Tail(skip)[k] = skip[k + 1] /\ skip[k + 1] = list[Unit * (k + 1) - 0]
      BY <1>1, <3>1 DEF Padded
    <3> QED
      BY <3>4, <3>5, <3>6
  <2> QED
    BY <2>2, <2>3 DEF Padded
<1> QED
  BY <1>7, <1>8, <1>9, <1>10

-----------------------------------------------------------------------------
(* The lists by their names.                                                *)

G == <<"global">>
P(t) == <<"provider", t>>
C(t) == <<"collector", t>>

LEMMA ListNames ==
    /\ G \in Names /\ List(G) = global.list
    /\ \A t \in Threads : /\ P(t) \in Names /\ List(P(t)) = provider[t]
                          /\ C(t) \in Names /\ List(C(t)) = collector[t].list
                          /\ P(t) # G /\ C(t) # G
    /\ \A t, u \in Threads : /\ P(t) # C(u)
                             /\ P(t) = P(u) => t = u
                             /\ C(t) = C(u) => t = u
    /\ \A n \in Names : n = G \/ \E t \in Threads : n = P(t) \/ n = C(t)
BY DEF G, P, C, Names, List

LEMMA ListNamesNext ==
    /\ List(G)' = global'.list
    /\ \A t \in Threads : List(P(t))' = provider'[t] /\ List(C(t))' = collector'[t].list
BY DEF G, P, C, Names, List

LEMMA ListsType ==
    ASSUME Types, NEW n \in Names
    PROVE  List(n) \in Seq(Objects)
<1>1. \A t \in Threads : provider[t] \in Seq(Objects) /\ collector[t].list \in Seq(Objects)
  BY DEF Types, CollectorType
<1>2. global.list \in Seq(Objects)
  BY DEF Types, ListType
<1> QED
  BY <1>1, <1>2, ListNames

\* An object goes from a list to its user.
LEMMA PlaceTaken ==
    ASSUME PlaceInv, NEW n \in Names, NEW o, o \in Elems(List(n)),
           \A m \in Names : m # n => List(m)' = List(m),
           Simple(List(n)'), Elems(List(n)') = Elems(List(n)) \ {o}, used' = used \cup {o}
    PROVE  PlaceInv'
<1>1. \A m \in Names : Simple(List(m)') /\ Elems(List(m)') = Elems(List(m)) \ {o}
  BY DEF PlaceInv
<1>2. \A m \in Names : Simple(List(m)') /\ Elems(List(m)') \cap used' = {}
  BY <1>1 DEF PlaceInv
<1>3. \A m, k \in Names : m # k => Elems(List(m)') \cap Elems(List(k)') = {}
  BY <1>1 DEF PlaceInv
<1>4. \A x \in Objects : x \in used' \/ \E m \in Names : x \in Elems(List(m)')
  BY <1>1 DEF PlaceInv
<1> QED
  BY <1>2, <1>3, <1>4 DEF PlaceInv, Elems, Simple

\* ... and back to a list.
LEMMA PlaceGiven ==
    ASSUME PlaceInv, NEW n \in Names, NEW o, o \in used,
           \A m \in Names : m # n => List(m)' = List(m),
           Simple(List(n)'), Elems(List(n)') = Elems(List(n)) \cup {o}, used' = used \ {o}
    PROVE  PlaceInv'
<1>1. \A m \in Names : /\ Simple(List(m)')
                       /\ Elems(List(m)') = IF m = n THEN Elems(List(m)) \cup {o}
                                                     ELSE Elems(List(m))
                       /\ o \notin Elems(List(m))
  BY DEF PlaceInv
<1>2. \A m \in Names : Simple(List(m)') /\ Elems(List(m)') \cap used' = {}
  BY <1>1 DEF PlaceInv
<1>3. \A m, k \in Names : m # k => Elems(List(m)') \cap Elems(List(k)') = {}
  BY <1>1 DEF PlaceInv
<1>4. \A x \in Objects : x \in used' \/ \E m \in Names : x \in Elems(List(m)')
  BY <1>1 DEF PlaceInv
<1> QED
  BY <1>2, <1>3, <1>4 DEF PlaceInv, Elems, Simple

\* A batch goes from one list to another, and one of its objects to a user.
LEMMA PlaceRefilled ==
    ASSUME PlaceInv, NEW g \in Names, NEW n \in Names, g # n, NEW A, A \subseteq Elems(List(g)),
           NEW o \in A, Elems(List(n)) = {},
           \A m \in Names : m # n /\ m # g => List(m)' = List(m),
           Simple(List(n)'), Elems(List(n)') = A \ {o},
           Simple(List(g)'), Elems(List(g)') = Elems(List(g)) \ A,
           used' = used \cup {o}
    PROVE  PlaceInv'
<1>1. \A m \in Names : /\ Simple(List(m)')
                       /\ Elems(List(m)') = IF m = n THEN A \ {o} ELSE Elems(List(m)) \ A
  BY DEF PlaceInv
<1>2. \A m \in Names : Simple(List(m)') /\ Elems(List(m)') \cap used' = {}
  BY <1>1 DEF PlaceInv
<1>3. \A m, k \in Names : m # k => Elems(List(m)') \cap Elems(List(k)') = {}
  BY <1>1 DEF PlaceInv
<1>4. \A x \in Objects : x \in used' \/ \E m \in Names : x \in Elems(List(m)')
  BY <1>1 DEF PlaceInv
<1> QED
  BY <1>2, <1>3, <1>4 DEF PlaceInv, Elems, Simple

\* A batch goes back while an object is freed.
LEMMA PlaceReturned ==
    ASSUME PlaceInv, NEW g \in Names, NEW n \in Names, g # n, NEW A, A \subseteq Elems(List(n)),
           NEW o \in used,
           \A m \in Names : m # n /\ m # g => List(m)' = List(m),
           Simple(List(n)'), Elems(List(n)') = (Elems(List(n)) \ A) \cup {o},
           Simple(List(g)'), Elems(List(g)') = Elems(List(g)) \cup A,
           used' = used \ {o}
    PROVE  PlaceInv'
<1>1. \A m \in Names : /\ Simple(List(m)') /\ o \notin Elems(List(m))
                       /\ Elems(List(m)') = IF m = n THEN (Elems(List(m)) \ A) \cup {o}
                                            ELSE IF m = g THEN Elems(List(m)) \cup A
                                            ELSE Elems(List(m))
  BY DEF PlaceInv
<1>2. \A m \in Names : Simple(List(m)') /\ Elems(List(m)') \cap used' = {}
  BY <1>1 DEF PlaceInv
<1>3. \A m, k \in Names : m # k => Elems(List(m)') \cap Elems(List(k)') = {}
  BY <1>1 DEF PlaceInv
<1>4. \A x \in Objects : x \in used' \/ \E m \in Names : x \in Elems(List(m)')
  <2> SUFFICES ASSUME NEW x \in Objects, x \notin used'
               PROVE  \E m \in Names : x \in Elems(List(m)')
    OBVIOUS
  <2>1. CASE x = o
    BY <1>1, <2>1
  <2>2. CASE x # o
    <3>1. PICK m \in Names : x \in Elems(List(m))
      BY <2>2 DEF PlaceInv
    <3>2. CASE x \in A
      BY <1>1, <3>2
    <3>3. CASE x \notin A
      BY <1>1, <3>1, <3>3
    <3> QED
      BY <3>2, <3>3
  <2> QED
    BY <2>1, <2>2
<1> QED
  BY <1>2, <1>3, <1>4 DEF PlaceInv, Elems, Simple

-----------------------------------------------------------------------------
(* The steps.                                                               *)

LEMMA AllocOwn ==
    ASSUME FreeListInv, NEW t \in Threads, provider[t] # <<>>,
           provider' = [provider EXCEPT ![t] = Tail(@)],
           used' = used \cup {Head(provider[t])},
           UNCHANGED <<global, collector, alive, failed>>
    PROVE  FreeListInv'
<1>1. provider[t] \in Seq(Objects) /\ provider \in [Threads -> Seq(Objects)]
  BY DEF FreeListInv, Types
<1>2. /\ provider'[t] = Tail(provider[t])
      /\ \A u \in Threads : u # t => provider'[u] = provider[u]
  BY <1>1
<1>3. /\ Head(provider[t]) \in Objects /\ Tail(provider[t]) \in Seq(Objects)
      /\ Len(Tail(provider[t])) = Len(provider[t]) - 1
      /\ Head(provider[t]) \in Elems(provider[t])
      /\ Simple(provider[t]) => /\ Simple(Tail(provider[t]))
                                /\ Elems(Tail(provider[t])) = Elems(provider[t]) \ {Head(provider[t])}
  BY <1>1, Popped
<1>4. Types'
  BY <1>1, <1>2, <1>3 DEF FreeListInv, Types
<1>5. BatchInv'
  <2>1. Len(provider[t]) \in Nat /\ Len(provider[t]) < Unit
    BY <1>1, LenProperties DEF FreeListInv, BatchInv
  <2>2. \A u \in Threads : Len(provider'[u]) < Unit
    BY <1>2, <1>3, <2>1, UnitType DEF FreeListInv, BatchInv
  <2> QED
    BY <2>2 DEF FreeListInv, BatchInv
<1>6. PlaceInv'
  <2>1. P(t) \in Names /\ List(P(t)) = provider[t] /\ List(P(t))' = Tail(provider[t])
    BY <1>2, ListNames, ListNamesNext
  <2>2. ASSUME NEW m \in Names, m # P(t) PROVE List(m)' = List(m)
    BY <1>2, <2>2, ListNames, ListNamesNext
  <2>3. PlaceInv /\ Simple(List(P(t)))
    BY <2>1 DEF FreeListInv, PlaceInv
  <2> QED
    BY <1>3, <2>1, <2>2, <2>3, PlaceTaken
<1> QED
  BY <1>4, <1>5, <1>6 DEF FreeListInv

LEMMA AllocRefill ==
    ASSUME FreeListInv, NEW t \in Threads, provider[t] = <<>>, global.skip # <<>>,
           failed = {},
           provider' = [provider EXCEPT ![t] = Tail(Batch)],
           used' = used \cup {Head(Batch)}, global' = Without,
           UNCHANGED <<collector, alive, failed>>
    PROVE  FreeListInv'
<1> DEFINE a == Cut(global.list, Head(global.skip))
           b == Rest(global.list, Head(global.skip))
<1>1. /\ provider \in [Threads -> Seq(Objects)] /\ global \in ListType
      /\ global.list \in Seq(Objects) /\ global.skip \in Seq(Objects)
  BY DEF FreeListInv, Types, ListType
<1>2. Padded(global.list, global.skip, 0) /\ Simple(global.list) /\ PlaceInv
  BY ListNames DEF FreeListInv, BatchInv, PlaceInv
<1>3. /\ a \in Seq(Objects) /\ Len(a) = Unit
      /\ b \in Seq(Objects) /\ Padded(b, Tail(global.skip), 0)
      /\ Elems(global.list) = Elems(a) \cup Elems(b) /\ Elems(a) \cap Elems(b) = {}
      /\ Simple(a) /\ Simple(b)
  BY <1>1, <1>2, CutBatch
<1>4. Batch = a /\ Without = [list |-> b, skip |-> Tail(global.skip)]
  BY DEF Batch, Without
<1> HIDE DEF a, b
<1>5. a # <<>>
  BY <1>3, EmptySeq, UnitType
<1>6. /\ Head(a) \in Objects /\ Tail(a) \in Seq(Objects) /\ Len(Tail(a)) = Unit - 1
      /\ Head(a) \in Elems(a) /\ Simple(Tail(a)) /\ Elems(Tail(a)) = Elems(a) \ {Head(a)}
  BY <1>3, <1>5, Popped
<1>7. Tail(global.skip) \in Seq(Objects)
  BY <1>1, HeadTailProperties
<1>8. /\ provider'[t] = Tail(a) /\ \A u \in Threads : u # t => provider'[u] = provider[u]
      /\ global'.list = b /\ global'.skip = Tail(global.skip) /\ used' = used \cup {Head(a)}
  BY <1>1, <1>4
<1>9. Types'
  <2>1. global' \in ListType
    BY <1>3, <1>4, <1>7 DEF ListType
  <2>2. provider' \in [Threads -> Seq(Objects)]
    BY <1>1, <1>4, <1>6
  <2> QED
    BY <1>6, <1>8, <2>1, <2>2 DEF FreeListInv, Types
<1>10. BatchInv'
  <2>1. \A u \in Threads : Len(provider'[u]) < Unit
    BY <1>6, <1>8, UnitType DEF FreeListInv, BatchInv
  <2> QED
    BY <1>3, <1>8, <2>1 DEF FreeListInv, BatchInv
<1>11. PlaceInv'
  <2>1. /\ P(t) \in Names /\ List(P(t)) = <<>> /\ List(P(t))' = Tail(a)
        /\ G \in Names /\ List(G) = global.list /\ List(G)' = b /\ G # P(t)
    BY <1>8, ListNames, ListNamesNext
  <2>2. ASSUME NEW m \in Names, m # P(t), m # G PROVE List(m)' = List(m)
    BY <1>8, <2>2, ListNames, ListNamesNext
  <2>3. Elems(List(P(t))) = {}
    BY <2>1, EmptySeq DEF Elems
  <2>4. Elems(a) \subseteq Elems(List(G)) /\ Elems(b) = Elems(List(G)) \ Elems(a)
    BY <1>3, <2>1
  <2>5. PICK n \in Names : n = P(t)
    BY <2>1
  <2>6. PICK A, o : A = Elems(a) /\ o = Head(a)
    OBVIOUS
  <2>7. /\ G # n /\ A \subseteq Elems(List(G)) /\ o \in A /\ Elems(List(n)) = {}
        /\ \A m \in Names : m # n /\ m # G => List(m)' = List(m)
        /\ used' = used \cup {o}
    BY <1>6, <1>8, <2>1, <2>2, <2>3, <2>4, <2>5, <2>6
  <2>8. List(n)' = Tail(a)
    BY <2>1, <2>5
  <2>9. Simple(List(n)') /\ Elems(List(n)') = A \ {o}
    BY <1>6, <2>6, <2>8
  <2>10. Simple(List(G)') /\ Elems(List(G)') = Elems(List(G)) \ A
    BY <1>3, <2>1, <2>4, <2>6
  <2> QED
    BY <1>2, <2>1, <2>7, <2>9, <2>10, PlaceRefilled
<1> QED
  BY <1>9, <1>10, <1>11 DEF FreeListInv

\* What PUSH_COLLECTOR writes to a collector.
LEMMA PushedFields ==
    ASSUME NEW c \in CollectorType, NEW o \in Objects
    PROVE  LET p == Pushed(c, o)
               m == Marked(c, o)
           IN  /\ p \in CollectorType /\ p.list = <<o>> \o c.list /\ p.skip = c.skip
               /\ p.list_cnt = c.list_cnt + 1 /\ p.skip_cnt = c.skip_cnt
               /\ m \in CollectorType /\ m.list = c.list /\ m.skip = <<o>> \o c.skip
               /\ m.list_cnt = c.list_cnt /\ m.skip_cnt = c.skip_cnt + 1
<1>1. c.list \in Seq(Objects) /\ c.skip \in Seq(Objects) /\ c.list_cnt \in Nat /\ c.skip_cnt \in Nat
  BY DEF CollectorType
<1>2. <<o>> \o c.list \in Seq(Objects) /\ <<o>> \o c.skip \in Seq(Objects)
  BY <1>1, Prefixed
<1>3. /\ Pushed(c, o) = [c EXCEPT !.list = <<o>> \o c.list, !.list_cnt = c.list_cnt + 1]
      /\ Marked(c, o) = [c EXCEPT !.skip = <<o>> \o c.skip, !.skip_cnt = c.skip_cnt + 1]
  BY DEF Pushed, Marked
<1>4. c.list_cnt + 1 \in Nat /\ c.skip_cnt + 1 \in Nat
  BY <1>1
<1>5. PICK x \in Seq(Objects), y \in Seq(Objects), k \in Nat, n \in Nat :
         x = <<o>> \o c.list /\ y = <<o>> \o c.skip /\ k = c.list_cnt + 1 /\ n = c.skip_cnt + 1
  BY <1>2, <1>4
<1>6. PICK p, m : p = Pushed(c, o) /\ m = Marked(c, o)
  OBVIOUS
<1>7. p = [c EXCEPT !.list = x, !.list_cnt = k] /\ m = [c EXCEPT !.skip = y, !.skip_cnt = n]
  BY <1>3, <1>5, <1>6, Zenon
<1>8. /\ p \in CollectorType /\ p.list = x /\ p.skip = c.skip
      /\ p.list_cnt = k /\ p.skip_cnt = c.skip_cnt
      /\ m \in CollectorType /\ m.list = c.list /\ m.skip = y
      /\ m.list_cnt = c.list_cnt /\ m.skip_cnt = n
  BY <1>7 DEF CollectorType
<1> QED
  BY <1>5, <1>6, <1>8, Zenon

\* The top batch of a collector is full when PUSH_COLLECTOR finds the counter
\* at a multiple of the unit, and only then.
LEMMA KeptPad ==
    ASSUME NEW c \in CollectorType, Kept(c)
    PROVE  \E pad \in 0 .. Unit - 1 :
              /\ Padded(c.list, c.skip, pad)
              /\ c.list_cnt % Unit = IF pad = 0 THEN 0 ELSE Unit - pad
<1>1. PICK pad \in 0 .. Unit - 1 : Padded(c.list, c.skip, pad)
  BY DEF Kept
<1>2. /\ Len(c.skip) \in Nat /\ c.list_cnt \in Nat
      /\ c.list_cnt = Unit * Len(c.skip) - pad
  BY <1>1, LenProperties DEF Kept, Padded, CollectorType
<1> QED
  BY <1>1, <1>2, TopOfPad

\* A node on a batch that is not full.
LEMMA KeptPushed ==
    ASSUME NEW c \in CollectorType, Kept(c), NEW o \in Objects, c.list_cnt % Unit # 0
    PROVE  Kept(Pushed(c, o))
<1>1. PICK pad \in 0 .. Unit - 1 : /\ Padded(c.list, c.skip, pad)
                                   /\ c.list_cnt % Unit = IF pad = 0 THEN 0 ELSE Unit - pad
  BY KeptPad
<1>2. pad \in 1 .. Unit - 1 /\ pad - 1 \in 0 .. Unit - 1
  BY <1>1, UnitType
<1>3. c.list \in Seq(Objects) /\ c.skip \in Seq(Objects) /\ Len(c.list) \in Nat
  BY LenProperties DEF CollectorType
<1>4. Padded(<<o>> \o c.list, c.skip, pad - 1) /\ Len(<<o>> \o c.list) = Len(c.list) + 1
  BY <1>1, <1>2, <1>3, PushPadded, Prefixed
<1> DEFINE p == Pushed(c, o)
<1>5. /\ p.list = <<o>> \o c.list /\ p.skip = c.skip
      /\ p.list_cnt = c.list_cnt + 1 /\ p.skip_cnt = c.skip_cnt
  BY PushedFields
<1> HIDE DEF p
<1>6. Kept(p)
  BY <1>2, <1>4, <1>5 DEF Kept
<1> QED
  BY <1>6 DEF p

\* A node that starts a batch.
LEMMA KeptMarked ==
    ASSUME NEW c \in CollectorType, NEW o \in Objects,
           c.list_cnt = Len(c.list), c.skip_cnt = Len(c.skip), c.skip_cnt < MaxSkipNodes,
           Padded(c.list, c.skip, 0)
    PROVE  LET p == Pushed(Marked(c, o), o)
           IN  p \in CollectorType /\ Kept(p) /\ p.list = <<o>> \o c.list
<1> DEFINE m == Marked(c, o)
<1>1. /\ m \in CollectorType /\ m.list = c.list /\ m.skip = <<o>> \o c.skip
      /\ m.list_cnt = c.list_cnt /\ m.skip_cnt = c.skip_cnt + 1
  BY PushedFields
<1> HIDE DEF m
<1> DEFINE p == Pushed(m, o)
<1>a. /\ p \in CollectorType /\ p.list = <<o>> \o m.list /\ p.skip = m.skip
      /\ p.list_cnt = m.list_cnt + 1 /\ p.skip_cnt = m.skip_cnt
  BY <1>1, PushedFields
<1> HIDE DEF p
<1>2. /\ p \in CollectorType /\ p.list = <<o>> \o c.list /\ p.skip = <<o>> \o c.skip
      /\ p.list_cnt = c.list_cnt + 1 /\ p.skip_cnt = c.skip_cnt + 1
  BY <1>1, <1>a
<1>3. c.list \in Seq(Objects) /\ c.skip \in Seq(Objects) /\ c.skip_cnt \in Nat
  BY DEF CollectorType
<1>4. /\ Len(<<o>> \o c.list) = Len(c.list) + 1 /\ Len(<<o>> \o c.skip) = Len(c.skip) + 1
      /\ Padded(<<o>> \o c.list, <<o>> \o c.skip, Unit - 1)
  BY <1>3, MarkPadded, Prefixed
<1>5. Unit - 1 \in 0 .. Unit - 1 /\ c.skip_cnt + 1 <= MaxSkipNodes
  BY <1>3, UnitType
<1>6. Kept(p)
  BY <1>2, <1>4, <1>5 DEF Kept
<1> QED
  BY <1>2, <1>6 DEF p, m

\* What a full collector gives away, and what it keeps.
LEMMA KeptLighter ==
    ASSUME NEW c \in CollectorType, Kept(c), Simple(c.list),
           c.list_cnt % Unit = 0, CollectorFull(c)
    PROVE  LET a == Cut(c.list, Head(c.skip))
               l == Lighter(c)
           IN  /\ a \in Seq(Objects) /\ Len(a) = Unit /\ a[Unit] = Head(c.skip) /\ Simple(a)
               /\ Head(c.skip) \in Objects
               /\ l \in CollectorType /\ Padded(l.list, l.skip, 0) /\ Simple(l.list)
               /\ l.list_cnt = Len(l.list) /\ l.skip_cnt = Len(l.skip)
               /\ l.skip_cnt < MaxSkipNodes
               /\ Elems(c.list) = Elems(a) \cup Elems(l.list)
               /\ Elems(a) \cap Elems(l.list) = {}
<1>1. PICK pad \in 0 .. Unit - 1 : /\ Padded(c.list, c.skip, pad)
                                   /\ c.list_cnt % Unit = IF pad = 0 THEN 0 ELSE Unit - pad
  BY KeptPad
<1>2. pad = 0
  BY <1>1, UnitType
<1>3. /\ c.list \in Seq(Objects) /\ c.skip \in Seq(Objects)
      /\ c.skip_cnt \in Nat /\ c.list_cnt \in Nat
      /\ c.skip_cnt = Len(c.skip) /\ c.list_cnt = Len(c.list)
      /\ c.skip_cnt <= MaxSkipNodes /\ c.skip_cnt >= MaxSkipNodes
  BY DEF CollectorType, Kept, CollectorFull
<1>4. c.skip # <<>> /\ c.skip_cnt - 1 \in Nat /\ c.skip_cnt - 1 < MaxSkipNodes
  BY <1>3, UnitType, EmptySeq
<1> DEFINE a == Cut(c.list, Head(c.skip))
           b == Rest(c.list, Head(c.skip))
           l == Lighter(c)
<1>5. /\ a \in Seq(Objects) /\ Len(a) = Unit /\ a[Unit] = Head(c.skip)
      /\ b \in Seq(Objects) /\ Padded(b, Tail(c.skip), 0)
      /\ Elems(c.list) = Elems(a) \cup Elems(b) /\ Elems(a) \cap Elems(b) = {}
      /\ Simple(a) /\ Simple(b)
  BY <1>1, <1>2, <1>3, <1>4, CutBatch
<1>6. /\ l.list = b /\ l.skip = Tail(c.skip)
      /\ l.list_cnt = c.list_cnt - Unit /\ l.skip_cnt = c.skip_cnt - 1
      /\ l = [list |-> b, skip |-> Tail(c.skip),
              list_cnt |-> c.list_cnt - Unit, skip_cnt |-> c.skip_cnt - 1]
  BY DEF Lighter
<1> HIDE DEF a, b, l
<1>7. /\ Head(c.skip) \in Objects /\ Tail(c.skip) \in Seq(Objects)
      /\ Len(Tail(c.skip)) = Len(c.skip) - 1
  BY <1>3, <1>4, Popped
<1>8. Len(c.skip) > 0 /\ Len(c.skip) \in Nat
  BY <1>3, <1>4
<1>9. /\ Unit * Len(c.skip) \in Nat /\ Unit * Len(c.skip) >= Unit
      /\ Unit * (Len(c.skip) - 1) = Unit * Len(c.skip) - Unit
  BY <1>8, Product
<1>10. c.list_cnt = Unit * Len(c.skip) /\ Len(b) = Unit * (Len(c.skip) - 1)
  BY <1>1, <1>2, <1>3, <1>5, <1>7, <1>9, UnitType DEF Padded
<1>11. c.list_cnt - Unit \in Nat /\ c.list_cnt - Unit = Len(b)
  BY <1>9, <1>10, UnitType
<1>12. l \in CollectorType
  BY <1>4, <1>5, <1>6, <1>7, <1>11 DEF CollectorType
<1> QED
  BY <1>3, <1>4, <1>5, <1>6, <1>7, <1>11, <1>12 DEF a, l

\* A collector that changes keeps the types of all.
LEMMA CollectorUpdate ==
    ASSUME collector \in [Threads -> CollectorType], NEW t \in Threads, NEW p \in CollectorType,
           collector' = [collector EXCEPT ![t] = p]
    PROVE  /\ collector' \in [Threads -> CollectorType] /\ collector'[t] = p
           /\ \A u \in Threads : u # t => collector'[u] = collector[u]
OBVIOUS

\* The object goes on top of a batch that is there, or starts one.
LEMMA FreeKept ==
    ASSUME FreeListInv, NEW t \in Threads, NEW o \in used, NEW p \in CollectorType,
           Kept(p), p.list = <<o>> \o collector[t].list,
           collector' = [collector EXCEPT ![t] = p], used' = used \ {o},
           UNCHANGED <<global, provider, alive, failed>>
    PROVE  FreeListInv'
<1>1. collector \in [Threads -> CollectorType] /\ o \in Objects /\ PlaceInv
  BY DEF FreeListInv, Types
<1>2. /\ collector' \in [Threads -> CollectorType] /\ collector'[t] = p
      /\ \A u \in Threads : u # t => collector'[u] = collector[u]
  BY <1>1, CollectorUpdate
<1>3. Types'
  BY <1>2 DEF FreeListInv, Types
<1>4. BatchInv'
  <2>1. \A u \in Threads : Kept(collector'[u])
    BY <1>2 DEF FreeListInv, BatchInv
  <2> QED
    BY <2>1 DEF FreeListInv, BatchInv
<1>5. PlaceInv'
  <2>1. PICK n \in Names : n = C(t)
    BY ListNames
  <2>2. List(n) = collector[t].list /\ List(n)' = p.list /\ List(n) \in Seq(Objects)
    BY <1>2, <2>1, ListNames, ListNamesNext, ListsType DEF FreeListInv
  <2>3. ASSUME NEW m \in Names, m # n PROVE List(m)' = List(m)
    BY <1>2, <2>1, <2>3, ListNames, ListNamesNext
  <2>4. Simple(List(n)) /\ o \notin Elems(List(n))
    BY <1>1 DEF PlaceInv
  <2>5. Simple(<<o>> \o List(n)) /\ Elems(<<o>> \o List(n)) = Elems(List(n)) \cup {o}
    BY <1>1, <2>2, <2>4, Prefixed
  <2>6. Simple(List(n)') /\ Elems(List(n)') = Elems(List(n)) \cup {o}
    BY <2>2, <2>5
  <2> QED
    BY <1>1, <2>3, <2>6, PlaceGiven
<1> QED
  BY <1>3, <1>4, <1>5 DEF FreeListInv

\* A full collector first gives its top batch back to the global list.
LEMMA FreeFull ==
    ASSUME FreeListInv, NEW t \in Threads, NEW o \in used, failed = {},
           collector[t].list_cnt % Unit = 0, CollectorFull(collector[t]),
           collector' = [collector EXCEPT ![t] = Pushed(Marked(Lighter(collector[t]), o), o)],
           global' = [list |-> Cut(collector[t].list, Head(collector[t].skip)) \o global.list,
                      skip |-> <<Head(collector[t].skip)>> \o global.skip],
           used' = used \ {o}, UNCHANGED <<provider, alive, failed>>
    PROVE  FreeListInv'
<1> DEFINE c == collector[t]
<1>1. /\ collector \in [Threads -> CollectorType] /\ c \in CollectorType /\ Kept(c)
      /\ o \in Objects /\ PlaceInv /\ global \in ListType
      /\ global.list \in Seq(Objects) /\ global.skip \in Seq(Objects)
      /\ Padded(global.list, global.skip, 0)
  BY DEF FreeListInv, Types, BatchInv, ListType
<1>2. PICK n \in Names : n = C(t) /\ n # G
  BY ListNames
<1>3. /\ List(n) = c.list /\ List(G) = global.list /\ G \in Names
      /\ Simple(c.list) /\ Simple(global.list)
      /\ o \notin Elems(c.list) /\ Elems(c.list) \cap Elems(global.list) = {}
  BY <1>1, <1>2, ListNames DEF PlaceInv
<1> DEFINE a == Cut(c.list, Head(c.skip))
           h == Head(c.skip)
           l == Lighter(c)
<1>4. /\ a \in Seq(Objects) /\ Len(a) = Unit /\ a[Unit] = h /\ Simple(a) /\ h \in Objects
      /\ l \in CollectorType /\ Padded(l.list, l.skip, 0) /\ Simple(l.list)
      /\ l.list_cnt = Len(l.list) /\ l.skip_cnt = Len(l.skip)
      /\ l.skip_cnt < MaxSkipNodes
      /\ Elems(c.list) = Elems(a) \cup Elems(l.list) /\ Elems(a) \cap Elems(l.list) = {}
  BY <1>1, <1>3, KeptLighter
<1>5. /\ collector' = [collector EXCEPT ![t] = Pushed(Marked(l, o), o)]
      /\ global'.list = a \o global.list /\ global'.skip = <<h>> \o global.skip
      /\ global' = [list |-> a \o global.list, skip |-> <<h>> \o global.skip]
  OBVIOUS
<1> HIDE DEF a, h, l, c
<1>6. PICK p \in CollectorType : /\ p = Pushed(Marked(l, o), o) /\ Kept(p)
                                 /\ p.list = <<o>> \o l.list
  BY <1>1, <1>4, KeptMarked
<1>7. /\ collector' \in [Threads -> CollectorType] /\ collector'[t] = p
      /\ \A u \in Threads : u # t => collector'[u] = collector[u]
  BY <1>1, <1>5, <1>6, CollectorUpdate
<1>8. /\ a \o global.list \in Seq(Objects) /\ <<h>> \o global.skip \in Seq(Objects)
      /\ Elems(a \o global.list) = Elems(a) \cup Elems(global.list)
      /\ Simple(a \o global.list)
  <2>1. Elems(a) \cap Elems(global.list) = {}
    BY <1>3, <1>4
  <2> QED
    BY <1>1, <1>3, <1>4, <2>1, Spliced, Prefixed
<1>9. Padded(a \o global.list, <<h>> \o global.skip, 0)
  BY <1>1, <1>4, SplicePadded
<1>10. Types'
  BY <1>5, <1>7, <1>8 DEF FreeListInv, Types, ListType
<1>11. BatchInv'
  <2>1. \A u \in Threads : Kept(collector'[u])
    BY <1>6, <1>7 DEF FreeListInv, BatchInv
  <2>2. Padded(global'.list, global'.skip, 0)
    BY <1>5, <1>9
  <2> QED
    BY <2>1, <2>2 DEF FreeListInv, BatchInv
<1>12. PlaceInv'
  <2>1. List(n)' = p.list /\ List(G)' = a \o global.list
    BY <1>2, <1>5, <1>7, ListNamesNext
  <2>2. ASSUME NEW m \in Names, m # n, m # G PROVE List(m)' = List(m)
    BY <1>2, <1>7, <2>2, ListNames, ListNamesNext
  <2>3. PICK A : A = Elems(a)
    OBVIOUS
  <2>4. o \notin Elems(l.list) /\ l.list \in Seq(Objects)
    BY <1>3, <1>4 DEF CollectorType
  <2>5. Simple(<<o>> \o l.list) /\ Elems(<<o>> \o l.list) = Elems(l.list) \cup {o}
    BY <1>1, <1>4, <2>4, Prefixed
  <2>6. Elems(l.list) = Elems(List(n)) \ A /\ A \subseteq Elems(List(n))
    BY <1>3, <1>4, <2>3
  <2>7. Simple(List(n)') /\ Elems(List(n)') = (Elems(List(n)) \ A) \cup {o}
    BY <1>6, <2>1, <2>5, <2>6
  <2>8. Simple(List(G)') /\ Elems(List(G)') = Elems(List(G)) \cup A
    BY <1>3, <1>8, <2>1, <2>3
  <2> QED
    BY <1>1, <1>2, <1>3, <2>2, <2>6, <2>7, <2>8, PlaceReturned
<1> QED
  BY <1>10, <1>11, <1>12 DEF FreeListInv

LEMMA FreeStep ==
    ASSUME FreeListInv, NEW t \in Threads, NEW o \in used, Free(t, o)
    PROVE  FreeListInv'
<1> DEFINE c == collector[t]
<1>1. c \in CollectorType /\ Kept(c) /\ o \in Objects
  BY DEF FreeListInv, Types, BatchInv
<1>2. failed = {} /\ used' = used \ {o} /\ UNCHANGED <<provider, alive, failed>>
  BY DEF Free
<1>3. CASE /\ c.list_cnt % Unit # 0
           /\ collector' = [collector EXCEPT ![t] = Pushed(c, o)]
           /\ UNCHANGED global
  <2>1. PICK p : p = Pushed(c, o)
    OBVIOUS
  <2>2. p \in CollectorType /\ Kept(p) /\ p.list = <<o>> \o c.list
    BY <1>1, <1>3, <2>1, KeptPushed, PushedFields
  <2>3. collector' = [collector EXCEPT ![t] = p]
    BY <1>3, <2>1
  <2> QED
    BY <1>2, <1>3, <2>2, <2>3, FreeKept
<1>4. CASE /\ c.list_cnt % Unit = 0
           /\ ~CollectorFull(c)
           /\ collector' = [collector EXCEPT ![t] = Pushed(Marked(c, o), o)]
           /\ UNCHANGED global
  <2>1. PICK p : p = Pushed(Marked(c, o), o)
    OBVIOUS
  <2>2. PICK pad \in 0 .. Unit - 1 : /\ Padded(c.list, c.skip, pad)
                                     /\ c.list_cnt % Unit = IF pad = 0 THEN 0 ELSE Unit - pad
    BY <1>1, KeptPad
  <2>3. pad = 0
    BY <1>4, <2>2, UnitType
  <2>4. /\ c.list_cnt = Len(c.list) /\ c.skip_cnt = Len(c.skip) /\ c.skip_cnt < MaxSkipNodes
    BY <1>1, <1>4, UnitType DEF Kept, CollectorFull, CollectorType
  <2>5. p \in CollectorType /\ Kept(p) /\ p.list = <<o>> \o c.list
    BY <1>1, <2>1, <2>2, <2>3, <2>4, KeptMarked
  <2>6. collector' = [collector EXCEPT ![t] = p]
    BY <1>4, <2>1
  <2> QED
    BY <1>2, <1>4, <2>5, <2>6, FreeKept
<1>5. CASE /\ c.list_cnt % Unit = 0
           /\ CollectorFull(c)
           /\ collector' = [collector EXCEPT ![t] = Pushed(Marked(Lighter(c), o), o)]
           /\ global' = [list |-> Cut(c.list, Head(c.skip)) \o global.list,
                         skip |-> <<Head(c.skip)>> \o global.skip]
  BY <1>2, <1>5, FreeFull
<1> QED
  BY <1>3, <1>4, <1>5 DEF Free

LEMMA AllocStep ==
    ASSUME FreeListInv, NEW t \in Threads, Alloc(t)
    PROVE  FreeListInv'
<1>1. failed = {} /\ UNCHANGED <<collector, alive, failed>>
  BY DEF Alloc
<1>2. CASE /\ provider[t] # <<>>
           /\ provider' = [provider EXCEPT ![t] = Tail(@)]
           /\ used' = used \cup {Head(provider[t])}
           /\ UNCHANGED global
  BY <1>1, <1>2, AllocOwn
<1>3. CASE /\ provider[t] = <<>>
           /\ global.skip # <<>>
           /\ provider' = [provider EXCEPT ![t] = Tail(Batch)]
           /\ used' = used \cup {Head(Batch)}
           /\ global' = Without
  BY <1>1, <1>3, AllocRefill
<1> QED
  BY <1>2, <1>3 DEF Alloc

\* Neither the end of the process nor that of a thread moves an object.
LEMMA RestStep ==
    ASSUME FreeListInv, alive' \subseteq Threads, failed' \subseteq Threads,
           failed' # {} => global.skip = <<>>,
           UNCHANGED <<global, provider, collector, used>>
    PROVE  FreeListInv'
<1>1. \A n \in Names : List(n)' = List(n)
  BY ListNames, ListNamesNext
<1>2. PlaceInv'
  <2>1. \A n \in Names : Simple(List(n)') /\ Elems(List(n)') \cap used' = {}
    BY <1>1 DEF FreeListInv, PlaceInv
  <2>2. \A m, n \in Names : m # n => Elems(List(m)') \cap Elems(List(n)') = {}
    BY <1>1 DEF FreeListInv, PlaceInv
  <2>3. \A o \in Objects : o \in used' \/ \E n \in Names : o \in Elems(List(n)')
    BY <1>1 DEF FreeListInv, PlaceInv
  <2> QED
    BY <2>1, <2>2, <2>3 DEF PlaceInv, Elems, Simple
<1>3. Types' /\ BatchInv'
  BY DEF FreeListInv, Types, BatchInv
<1> QED
  BY <1>2, <1>3 DEF FreeListInv

LEMMA FreeListInvNext == FreeListInv /\ [Next]_vars => FreeListInv'
<1> SUFFICES ASSUME FreeListInv, [Next]_vars
             PROVE  FreeListInv'
  OBVIOUS
<1>1. ASSUME NEW t \in Threads, Alloc(t) PROVE FreeListInv'
  BY <1>1, AllocStep
<1>2. ASSUME NEW t \in Threads, NEW o \in used, Free(t, o) PROVE FreeListInv'
  BY <1>2, FreeStep
<1>3. ASSUME NEW t \in Threads, Exhaust(t) PROVE FreeListInv'
  BY <1>3, RestStep DEF Exhaust, FreeListInv, Types
<1>4. ASSUME NEW t \in Threads, Exit(t) PROVE FreeListInv'
  BY <1>4, RestStep DEF Exit, FreeListInv, Types, BatchInv
<1>5. CASE UNCHANGED vars
  BY <1>5, RestStep DEF vars, FreeListInv, Types, BatchInv
<1> QED
  BY <1>1, <1>2, <1>3, <1>4, <1>5 DEF Next

-----------------------------------------------------------------------------
(* The list create_global_list makes.                                       *)

LEMMA CreatedType ==
    /\ Created \in ListType /\ Len(Created.list) = Count /\ Len(Created.skip) = Batches
    /\ \A i \in 1 .. Count : Created.list[i] = Count + 1 - i
    /\ \A k \in 1 .. Batches : Created.skip[k] = Unit * (Batches - k) + 1
<1>1. Count \in Nat /\ Count = Unit * Batches
  BY UnitType, Product DEF Count
<1> DEFINE l == [i \in 1 .. Count |-> Count + 1 - i]
           s == [k \in 1 .. Batches |-> Unit * (Batches - k) + 1]
<1>2. \A i \in 1 .. Count : Count + 1 - i \in Objects
  BY <1>1 DEF Objects
<1>3. \A k \in 1 .. Batches : Unit * (Batches - k) + 1 \in Objects
  <2> SUFFICES ASSUME NEW k \in 1 .. Batches PROVE Unit * (Batches - k) + 1 \in Objects
    OBVIOUS
  <2>1. PICK j \in Nat : j = Batches - k /\ j <= Batches - 1 /\ Batches - 1 \in Nat
    BY UnitType
  <2>2. /\ Unit * j \in Nat /\ Unit * j <= Unit * (Batches - 1)
        /\ Unit * (Batches - 1) = Unit * Batches - Unit
    BY <2>1, UnitType, Product
  <2>3. Unit * j + 1 \in 1 .. Count
    BY <1>1, <2>2, UnitType
  <2> QED
    BY <2>1, <2>3 DEF Objects
<1>4. l \in Seq(Objects) /\ Len(l) = Count
  BY <1>1, <1>2
<1>5. s \in Seq(Objects) /\ Len(s) = Batches
  BY <1>3, UnitType
<1>6. Created.list = l /\ Created.skip = s /\ Created = [list |-> l, skip |-> s]
  BY DEF Created
<1>7. Created \in ListType
  BY <1>4, <1>5, <1>6 DEF ListType
<1> QED
  BY <1>4, <1>5, <1>6, <1>7

LEMMA CreatedPadded == Padded(Created.list, Created.skip, 0)
<1>1. Count \in Nat /\ Count = Unit * Batches
  BY UnitType, Product DEF Count
<1>2. Len(Created.list) = Unit * Len(Created.skip) - 0
  BY <1>1, CreatedType
<1>3. ASSUME NEW k \in 1 .. Batches PROVE Created.skip[k] = Created.list[Unit * k - 0]
  <2>1. k \in Nat /\ k > 0 /\ Batches - k \in Nat /\ k <= Batches
    BY UnitType
  <2>2. Unit * (Batches - k) = Unit * Batches - Unit * k
    BY <2>1, UnitType
  <2>3. Unit * k \in Nat /\ Unit * k >= Unit /\ Unit * k <= Unit * Batches
    BY <2>1, UnitType, Product
  <2>4. Unit * k - 0 \in 1 .. Count /\ Count + 1 - (Unit * k - 0) = Unit * (Batches - k) + 1
    BY <1>1, <2>2, <2>3, UnitType
  <2> QED
    BY <2>4, CreatedType
<1> QED
  BY <1>2, <1>3, CreatedType DEF Padded

LEMMA CreatedPlaces ==
    Simple(Created.list) /\ Elems(Created.list) = Objects
<1>1. Count \in Nat
  BY UnitType, Product DEF Count
<1>2. Simple(Created.list)
  BY <1>1, CreatedType DEF Simple
<1>3. ASSUME NEW x \in Elems(Created.list) PROVE x \in Objects
  BY <1>1, CreatedType DEF Elems, Objects
<1>4. ASSUME NEW x \in Objects PROVE x \in Elems(Created.list)
  <2>1. Count + 1 - x \in 1 .. Count /\ Count + 1 - (Count + 1 - x) = x
    BY <1>1 DEF Objects
  <2> QED
    BY <2>1, CreatedType DEF Elems
<1> QED
  BY <1>2, <1>3, <1>4

LEMMA FreeListInvInit == Init => FreeListInv
<1> SUFFICES ASSUME Init PROVE FreeListInv
  OBVIOUS
<1>1. /\ global = Created /\ used = {} /\ failed = {} /\ alive = Threads
      /\ \A t \in Threads : provider[t] = <<>> /\ collector[t] = EmptyList
  BY DEF Init
<1>2. <<>> \in Seq(Objects) /\ Len(<<>>) = 0
  OBVIOUS
<1>3. /\ EmptyList \in CollectorType /\ EmptyList.list = <<>> /\ EmptyList.skip = <<>>
      /\ EmptyList.list_cnt = 0 /\ EmptyList.skip_cnt = 0
  BY <1>2 DEF EmptyList, CollectorType
<1>4. Types
  BY <1>2, <1>3, CreatedType DEF Init, Types
<1>5. Padded(<<>>, <<>>, 0)
  BY <1>2, UnitType DEF Padded
<1>6. Kept(EmptyList)
  BY <1>2, <1>3, <1>5, UnitType DEF Kept
<1>7. BatchInv
  BY <1>1, <1>2, <1>6, CreatedPadded, UnitType DEF BatchInv
<1>8. Elems(<<>>) = {} /\ Simple(<<>>)
  BY <1>2 DEF Elems, Simple
<1>9. /\ G \in Names /\ List(G) = Created.list
      /\ \A n \in Names : n # G => List(n) = <<>>
  BY <1>1, <1>3, ListNames
<1>10. /\ \A n \in Names : Simple(List(n)) /\ Elems(List(n)) \cap used = {}
       /\ \A m, n \in Names : m # n => Elems(List(m)) \cap Elems(List(n)) = {}
       /\ \A o \in Objects : \E n \in Names : o \in Elems(List(n))
  BY <1>1, <1>8, <1>9, CreatedPlaces
<1> QED
  BY <1>4, <1>7, <1>10 DEF FreeListInv, PlaceInv

LEMMA FreeListInvAlways == Spec => []FreeListInv
BY FreeListInvInit, FreeListInvNext, PTL DEF Spec

-----------------------------------------------------------------------------
(* What it means.                                                           *)

\* The nodes of an object, list by list.
LEMMA NodesOf ==
    ASSUME NEW o
    PROVE  \A x : x \in Nodes(o) <=> \E n \in Names : \E i \in 1 .. Len(List(n)) :
                                        x = <<n, i>> /\ List(n)[i] = o
BY DEF Nodes

LEMMA InOnePlace == FreeListInv => OnePlace
<1> SUFFICES ASSUME FreeListInv, NEW o \in Objects
             PROVE  Cardinality(Nodes(o)) = IF o \in used THEN 0 ELSE 1
  BY DEF OnePlace
<1>1. PlaceInv
  BY DEF FreeListInv
<1>2. CASE o \in used
  <2>1. \A n \in Names : o \notin Elems(List(n))
    BY <1>1, <1>2 DEF PlaceInv
  <2>2. Nodes(o) = {}
    BY <2>1, NodesOf DEF Elems
  <2> QED
    BY <1>2, <2>2, FS_EmptySet
<1>3. CASE o \notin used
  <2>1. PICK n \in Names : o \in Elems(List(n))
    BY <1>1, <1>3 DEF PlaceInv
  <2>2. PICK i \in 1 .. Len(List(n)) : List(n)[i] = o
    BY <2>1 DEF Elems
  <2>3. ASSUME NEW m \in Names, NEW j \in 1 .. Len(List(m)), List(m)[j] = o
        PROVE  m = n /\ j = i
    <3>1. o \in Elems(List(m))
      BY <2>3 DEF Elems
    <3>2. m = n
      BY <1>1, <2>1, <3>1 DEF PlaceInv
    <3> QED
      BY <1>1, <2>2, <2>3, <3>2 DEF PlaceInv, Simple
  <2>4. <<n, i>> \in Nodes(o)
    BY <2>2, NodesOf
  <2>5. ASSUME NEW x \in Nodes(o) PROVE x = <<n, i>>
    <3>1. PICK m \in Names : \E j \in 1 .. Len(List(m)) : x = <<m, j>> /\ List(m)[j] = o
      BY NodesOf
    <3>2. PICK j \in 1 .. Len(List(m)) : x = <<m, j>> /\ List(m)[j] = o
      BY <3>1
    <3> QED
      BY <2>3, <3>2
  <2>6. Nodes(o) = {<<n, i>>}
    BY <2>4, <2>5
  <2> QED
    BY <1>3, <2>6, FS_Singleton
<1> QED
  BY <1>2, <1>3

\* A list whose top batch is full, and one whose top batch is not.
LEMMA PaddedBatches ==
    ASSUME NEW list \in Seq(Objects), NEW skip \in Seq(Objects), NEW pad \in 0 .. Unit - 1,
           Padded(list, skip, pad)
    PROVE  /\ pad = 0 => InBatches(list, skip)
           /\ pad > 0 =>
                 /\ Head(skip) = list[Unit - pad]
                 /\ InBatches(SubSeq(list, (Unit - pad) + 1, Len(list)), Tail(skip))
<1>1. Len(list) \in Nat /\ Len(skip) \in Nat /\ Unit * Len(skip) \in Nat
  BY LenProperties, Product
<1>2. ASSUME pad = 0 PROVE InBatches(list, skip)
  <2>1. \A k \in 1 .. Len(skip) : Unit * k - 0 = Unit * k
    BY Product
  <2> QED
    BY <1>1, <1>2, <2>1 DEF Padded, InBatches
<1>3. ASSUME pad > 0 PROVE /\ Head(skip) = list[Unit - pad]
                           /\ InBatches(SubSeq(list, (Unit - pad) + 1, Len(list)), Tail(skip))
  <2>1. Len(skip) > 0
    <3>1. CASE Len(skip) = 0
      <4>1. Unit * Len(skip) = 0
        BY <3>1, UnitType
      <4> QED
        BY <1>1, <1>3, <4>1 DEF Padded
    <3> QED
      BY <1>1, <3>1
  <2>2. skip # <<>>
    BY <2>1, EmptySeq
  <2>3. /\ Head(skip) = skip[1] /\ Tail(skip) \in Seq(Objects) /\ Len(Tail(skip)) = Len(skip) - 1
        /\ \A i \in 1 .. Len(skip) - 1 : Tail(skip)[i] = skip[i + 1]
    BY <2>2, Popped
  <2>4. Unit * 1 - pad = Unit - pad /\ 1 \in 1 .. Len(skip)
    BY <1>1, <2>1, UnitType
  <2>5. Head(skip) = list[Unit - pad]
    BY <2>3, <2>4 DEF Padded
  <2> DEFINE top == Unit - pad
             b == SubSeq(list, top + 1, Len(list))
  <2>6. top \in Nat /\ top <= Len(list)
    <3>1. Unit * 1 - pad \in 1 .. Len(list)
      BY <2>4, MarkPlace
    <3> QED
      BY <2>4, <3>1, UnitType
  <2>7. /\ b \in Seq(Objects) /\ Len(b) = Len(list) - top
        /\ \A i \in 1 .. Len(list) - top : b[i] = list[top + i]
    BY <2>6, Halved
  <2> HIDE DEF b
  <2>8. Len(b) = Unit * Len(Tail(skip))
    <3>1. Unit * (Len(skip) - 1) = Unit * Len(skip) - Unit
      BY <1>1, <2>1, Product
    <3> QED
      BY <1>1, <2>3, <2>7, <3>1, UnitType DEF Padded
  <2>9. ASSUME NEW k \in 1 .. Len(Tail(skip)) PROVE Tail(skip)[k] = b[Unit * k]
    <3>1. k \in Nat /\ k > 0 /\ k \in 1 .. Len(skip) - 1 /\ k + 1 \in 1 .. Len(skip)
      BY <1>1, <2>3
    <3>2. Unit * (k + 1) - pad \in 1 .. Len(list)
      BY <3>1, MarkPlace
    <3>3. Unit * (k + 1) = Unit * k + Unit /\ Unit * k \in Nat /\ Unit * k >= Unit
      BY <3>1, Product
    <3>4. Unit * k \in 1 .. Len(list) - top /\ top + Unit * k = Unit * (k + 1) - pad
      BY <1>1, <3>2, <3>3, UnitType
    <3>5. b[Unit * k] = list[top + Unit * k]
      BY <2>7, <3>4
    <3>6. Tail(skip)[k] = skip[k + 1] /\ skip[k + 1] = list[Unit * (k + 1) - pad]
      BY <2>3, <3>1 DEF Padded
    <3> QED
      BY <3>4, <3>5, <3>6
  <2> QED
    BY <2>5, <2>8, <2>9 DEF InBatches, b
<1> QED
  BY <1>2, <1>3

LEMMA InWholeBatches == FreeListInv => WholeBatches
<1> SUFFICES ASSUME FreeListInv PROVE WholeBatches
  OBVIOUS
<1>1. InBatches(global.list, global.skip)
  <2>1. /\ global.list \in Seq(Objects) /\ global.skip \in Seq(Objects)
        /\ Padded(global.list, global.skip, 0) /\ 0 \in 0 .. Unit - 1
    BY UnitType DEF FreeListInv, Types, ListType, BatchInv
  <2> QED
    BY <2>1, PaddedBatches
<1>2. ASSUME NEW t \in Threads
      PROVE  LET c == collector[t]
                 top == c.list_cnt % Unit
             IN  /\ c.list_cnt = Len(c.list) /\ c.skip_cnt = Len(c.skip)
                 /\ top = 0 => InBatches(c.list, c.skip)
                 /\ top > 0 =>
                       /\ Head(c.skip) = c.list[top]
                       /\ InBatches(SubSeq(c.list, top + 1, Len(c.list)), Tail(c.skip))
  <2> DEFINE c == collector[t]
             top == c.list_cnt % Unit
  <2>1. /\ c \in CollectorType /\ Kept(c) /\ c.list \in Seq(Objects) /\ c.skip \in Seq(Objects)
        /\ c.list_cnt = Len(c.list) /\ c.skip_cnt = Len(c.skip)
    BY DEF FreeListInv, Types, BatchInv, CollectorType, Kept
  <2> HIDE DEF c
  <2>2. PICK pad \in 0 .. Unit - 1 : /\ Padded(c.list, c.skip, pad)
                                     /\ top = IF pad = 0 THEN 0 ELSE Unit - pad
    BY <2>1, KeptPad
  <2> HIDE DEF top
  <2>3. /\ pad = 0 => InBatches(c.list, c.skip)
        /\ pad > 0 =>
              /\ Head(c.skip) = c.list[Unit - pad]
              /\ InBatches(SubSeq(c.list, (Unit - pad) + 1, Len(c.list)), Tail(c.skip))
    BY <2>1, <2>2, PaddedBatches
  <2>4. CASE pad = 0
    BY <2>1, <2>2, <2>3, <2>4 DEF c, top
  <2>5. CASE pad > 0
    <3>1. top = Unit - pad /\ top # 0
      BY <2>2, <2>5, UnitType
    <3> QED
      BY <2>1, <2>3, <2>5, <3>1 DEF c, top
  <2> QED
    BY <2>4, <2>5
<1> QED
  BY <1>1, <1>2 DEF WholeBatches

LEMMA ShortAtEnd == FreeListInv => EndsOnlyWhenShort
<1> SUFFICES ASSUME FreeListInv PROVE EndsOnlyWhenShort
  OBVIOUS
<1>1. ASSUME failed # {} PROVE global.list = <<>>
  <2>1. /\ global.skip = <<>> /\ Len(global.list) = Unit * Len(global.skip) - 0
        /\ global.list \in Seq(Objects)
    BY <1>1 DEF FreeListInv, BatchInv, Padded, Types, ListType
  <2>2. Len(global.list) = 0
    BY <2>1, UnitType
  <2> QED
    BY <2>1, <2>2, EmptySeq
<1>2. ASSUME NEW t \in Threads PROVE Len(collector[t].list) <= MaxSkipNodes * Unit
  <2> DEFINE c == collector[t]
  <2>1. /\ c \in CollectorType /\ Kept(c) /\ c.list \in Seq(Objects) /\ c.skip \in Seq(Objects)
        /\ c.skip_cnt = Len(c.skip) /\ c.skip_cnt <= MaxSkipNodes
    BY DEF FreeListInv, Types, BatchInv, CollectorType, Kept
  <2> HIDE DEF c
  <2>2. PICK pad \in 0 .. Unit - 1 : Len(c.list) = Unit * Len(c.skip) - pad
    BY <2>1 DEF Kept, Padded
  <2>3. Len(c.skip) \in Nat /\ Len(c.list) \in Nat
    BY <2>1, LenProperties
  <2>4. Unit * Len(c.skip) <= Unit * MaxSkipNodes /\ Unit * Len(c.skip) \in Nat
    BY <2>1, <2>3, UnitType, Product
  <2>5. Unit * MaxSkipNodes = MaxSkipNodes * Unit /\ Unit * MaxSkipNodes \in Nat
    BY UnitType
  <2> QED
    BY <2>2, <2>3, <2>4, <2>5 DEF c
<1> QED
  BY <1>1, <1>2 DEF EndsOnlyWhenShort, FreeListInv, BatchInv

\* Every variable of the pool has its type, in every reachable state.
THEOREM TypeCorrect == Spec => []TypeOK
<1>1. FreeListInv => TypeOK
  BY DEF FreeListInv, Types, TypeOK, ListType, CollectorType
<1> QED
  BY <1>1, FreeListInvAlways, PTL

\* Through POP_PROVIDER, PUSH_COLLECTOR and the ends of threads, every object
\* of the pool is in use or is on exactly one list, once: none is lost, none
\* is handed out twice.
THEOREM ObjectsInOnePlace == Spec => []OnePlace
BY InOnePlace, FreeListInvAlways, PTL

\* The skip list of the global list always marks the last node of every batch
\* of Unit nodes, and so does the skip list of a collector, as far as its
\* counters say that batches are full.
THEOREM BatchesWhole == Spec => []WholeBatches
BY InWholeBatches, FreeListInvAlways, PTL

\* The process ends for want of objects only when the global list is empty,
\* and no thread ever keeps more than MaxSkipNodes batches and one provider.
THEOREM EndsWhenShort == Spec => []EndsOnlyWhenShort
BY ShortAtEnd, FreeListInvAlways, PTL

=============================================================================
