-------------------------- MODULE FileTableProofs ---------------------------
(***************************************************************************)
(* TLAPS proofs about open files, for every number of threads, inodes,     *)
(* descriptors and mmios and every mapping size.  The invariant comes in   *)
(* three layers, each proved with the ones below it: what holds however    *)
(* opens overlap, what needs that two opens of one file do not, and what   *)
(* needs, besides, that no last close comes between an fstat and its       *)
(* lookup.                                                                 *)
(***************************************************************************)
EXTENDS FileTable, TLAPS, FiniteSetTheorems

-----------------------------------------------------------------------------
(* First layer: types, and who owns a descriptor.                           *)

Locals == [fd : Fds \cup {NULL}, ino : Inos \cup {NULL}, flags : Modes \cup {NULL},
           fsize : Nat, mmio : Mmios \cup {NULL}]
Mmio == [ino : Inos \cup {NULL}, ref : Int, fsize : Nat, mapped : Nat, writable : BOOLEAN]

Types ==
    /\ disk \in [Inos -> Nat] /\ size \in [Inos -> Nat]
    /\ kernel \in [Fds -> Inos \cup {NULL}]
    /\ fd_table \in [Fds -> File \cup {NULL}]
    /\ mm \in [Mmios -> Mmio]
    /\ hash \subseteq Mmios /\ pool \subseteq Mmios
    /\ pc \in [Threads -> {"idle"} \cup Opening \cup Closing]
    /\ loc \in [Threads -> Locals]

\* A mapping holds the file.
Fits == \A m \in Mmios : mm[m].fsize <= mm[m].mapped

\* The mmio that thread t has mapped and not published.
Private(t, m) == pc[t] = "put" /\ loc[t].mmio = m

\* An mmio is in the pool, in the hash, or private to one thread.
MmioOwned ==
    /\ hash \cap pool = {}
    /\ \A t \in Threads : \A m \in Mmios : Private(t, m) =>
          /\ m \notin hash \cup pool
          /\ \A u \in Threads : Private(u, m) => u = t

\* The locals of a thread in an open or a close, whose descriptor is open in
\* the kernel for its inode.
Busy(t) ==
    /\ loc[t].fd \in Fds /\ loc[t].ino \in Inos
    /\ kernel[loc[t].fd] = loc[t].ino
    /\ pc[t] \in Opening => loc[t].flags \in Modes
    /\ pc[t] \in {"put", "install"} => loc[t].mmio \in Mmios
    /\ fd_table[loc[t].fd] = NULL <=> pc[t] \in Opening \cup {"kclose"}

BusyThreads == \A t \in Threads : pc[t] # "idle" => Busy(t)

\* One thread at a time opens or closes a descriptor.
FdOwned == \A t, u \in Threads :
              pc[t] # "idle" /\ pc[u] # "idle" /\ loc[t].fd = loc[u].fd => t = u

FdInv == Types /\ Fits /\ MmioOwned /\ BusyThreads /\ FdOwned /\ FdConsistent

-----------------------------------------------------------------------------
(* Second layer: who uses an mmio.                                          *)

OneOpener == \A t, u \in Threads :
                pc[t] \in Opening /\ pc[u] \in Opening /\ loc[t].ino = loc[u].ino => t = u

\* The hash has one mmio for an inode, and some user of it.
HashUnique ==
    /\ \A m \in hash : mm[m].ino \in Inos /\ mm[m].ref > 0
    /\ \A m, n \in hash : mm[m].ino = mm[n].ino => m = n

\* A thread that has looked up in vain is the only one that can add an mmio.
Absent == \A t \in Threads : pc[t] \in {"map", "put"} => InHash(loc[t].ino) = {}

PutOwn == \A t \in Threads : pc[t] = "put" => mm[loc[t].mmio].ino = loc[t].ino

OpenLive == \A t \in Threads : pc[t] = "install" =>
               loc[t].mmio \in hash /\ mm[loc[t].mmio].ino = loc[t].ino

FileLive == \A fd \in Usable : /\ fd_table[fd].mmio \in hash
                               /\ mm[fd_table[fd].mmio].ino = fd_table[fd].ino

Counts == \A m \in Mmios : mm[m].ref = Cardinality(Holders(m))

UseInv == /\ OneOpener /\ HashUnique /\ Absent /\ PutOwn /\ OpenLive /\ FileLive
          /\ Counts /\ PosInFile

-----------------------------------------------------------------------------
(* Third layer: the file is as long as its writes.                          *)

DiskCovers == \A ino \in Inos : disk[ino] >= size[ino]

\* What mmio m says of its file covers the writes, and lies on the disk.
Covers(m, ino) == mm[m].fsize >= size[ino] /\ mm[m].mapped <= disk[ino]

HashCovers == \A m \in hash : Covers(m, mm[m].ino)

\* A thread that has to map the file knows its size.
KnowsSize(t) ==
    /\ pc[t] \in {"lookup", "map"} =>
          /\ loc[t].fsize <= disk[loc[t].ino]
          /\ InHash(loc[t].ino) = {} => loc[t].fsize >= size[loc[t].ino]
    /\ pc[t] = "put" => Covers(loc[t].mmio, loc[t].ino)

OpenCovers == \A t \in Threads : KnowsSize(t)

SizeInv == DiskCovers /\ HashCovers /\ OpenCovers

-----------------------------------------------------------------------------
(* Facts about the operators.                                               *)

\* A set of naturals has a least element.
LEMMA Least ==
    ASSUME NEW S, S \subseteq Nat, S # {}
    PROVE  \E n \in S : \A m \in S : n <= m
<1> DEFINE R == OpToRel(<, Nat)
<1>1. \E n \in S : \A m \in S : ~(<<m, n>> \in R)
  <2> HIDE DEF R
  <2>1. IsWellFoundedOn(R, Nat)
    BY NatLessThanWellFounded DEF R
  <2> QED
    BY <2>1, WFMin
<1>2. \A m, n \in S : m < n => <<m, n>> \in R
  BY DEF OpToRel
<1> HIDE DEF R
<1>3. PICK n \in S : \A m \in S : ~(<<m, n>> \in R)
  BY <1>1
<1>4. \A m \in S : ~(m < n)
  BY <1>2, <1>3, Zenon
<1> QED
  BY <1>4

\* posix.open returns a free descriptor.
LEMMA FreeFd ==
    ASSUME Types, NEW free, free = {fd \in Fds : kernel[fd] = NULL}, free # {}
    PROVE  LET fd == CHOOSE n \in free : \A m \in free : n <= m
           IN  fd \in Fds /\ kernel[fd] = NULL
<1>1. free \subseteq Nat
  BY FileTableAssumption
<1> QED
  BY <1>1, Least

\* The order of a close.
LEMMA CloseSteps ==
    /\ CloseOrder["idle"] = "free" /\ CloseOrder["free"] = "clear"
    /\ CloseOrder["clear"] = "kclose" /\ CloseOrder["kclose"] = "idle"
BY DEF CloseOrder

LEMMA ExpendedFits ==
    ASSUME NEW mapped \in Nat, NEW end \in Nat, NEW new \in Expended(mapped, end)
    PROVE  new \in Nat /\ new >= mapped /\ new >= end
<1> DEFINE first == IF mapped >= BasicMmap THEN 2 * mapped ELSE BasicMmap
<1>1. first \in Nat /\ first >= mapped
  BY FileTableAssumption
<1> HIDE DEF first
<1>2. CASE mapped >= end
  BY <1>2 DEF Expended
<1>3. CASE ~(mapped >= end) /\ first >= end
  BY <1>1, <1>3 DEF Expended, first
<1>4. CASE ~(mapped >= end) /\ ~(first >= end)
  <2>1. new \in end .. 2 * end - 1
    BY <1>4 DEF Expended, first
  <2> QED
    BY <1>4, <2>1
<1> QED
  BY <1>2, <1>3, <1>4

\* What the mmios look like after a close.
LEMMA Fewer ==
    ASSUME NEW e \in Mmio
    PROVE  LET x == [e EXCEPT !.ref = @ - 1]
           IN  /\ x \in Mmio /\ x.ref = e.ref - 1 /\ x.ino = e.ino
               /\ x.fsize = e.fsize /\ x.mapped = e.mapped
BY DEF Mmio

LEMMA Reset ==
    ASSUME NEW r \in Int
    PROVE  LET x == [FreeMmio EXCEPT !.ref = r]
           IN  /\ x \in Mmio /\ x.ref = r /\ x.fsize = 0 /\ x.mapped = 0
BY DEF Mmio, FreeMmio

LEMMA ReleasedType ==
    ASSUME NEW m, mm[m] \in Mmio
    PROVE  /\ Released(m) \in Mmio /\ Released(m).ref = mm[m].ref - 1
           /\ Released(m).fsize = 0 /\ Released(m).mapped = 0
<1> DEFINE r == mm[m].ref - 1
<1>1. r \in Int
  BY DEF Mmio
<1>2. Released(m) = [FreeMmio EXCEPT !.ref = r]
  BY DEF Released
<1> HIDE DEF r
<1>3. LET x == [FreeMmio EXCEPT !.ref = r]
      IN  x \in Mmio /\ x.ref = r /\ x.fsize = 0 /\ x.mapped = 0
  BY <1>1, Reset
<1> QED
  BY <1>2, <1>3 DEF r

LEMMA IdleLocals == NoLocals \in Locals
BY DEF NoLocals, Locals

LEMMA WithPos ==
    ASSUME NEW f \in File, NEW n \in Nat
    PROVE  LET x == [f EXCEPT !.pos = n]
           IN  /\ x \in File /\ x.mmio = f.mmio /\ x.ino = f.ino /\ x.flags = f.flags
               /\ x.freed = f.freed /\ x.pos = n
BY DEF File

\* Updating one mmio, or one file.
LEMMA MmioUpdate ==
    ASSUME Types, NEW m \in Mmios, NEW x \in Mmio, mm' = [mm EXCEPT ![m] = x]
    PROVE  mm' \in [Mmios -> Mmio] /\ \A n \in Mmios : mm'[n] = IF n = m THEN x ELSE mm[n]
BY DEF Types

-----------------------------------------------------------------------------
(* What a step of each kind does, as far as the invariants can tell.        *)

\* A use of descriptor fd moves its position to pos.
LEMMA Moved ==
    ASSUME Types, NEW fd \in Usable, NEW pos \in Nat, SetPos(fd, pos)
    PROVE  /\ fd_table' \in [Fds -> File \cup {NULL}]
           /\ \A d \in Fds : d # fd => fd_table'[d] = fd_table[d]
           /\ fd_table[fd] \in File /\ fd_table'[fd] \in File
           /\ fd_table'[fd].mmio = fd_table[fd].mmio
           /\ fd_table'[fd].ino = fd_table[fd].ino
           /\ fd_table'[fd].freed = fd_table[fd].freed
           /\ fd_table'[fd].pos = pos
           /\ \A d \in Fds : fd_table'[d] = NULL <=> fd_table[d] = NULL
<1>1. fd \in Fds /\ fd_table[fd] \in File
  BY DEF Types, Usable
<1> DEFINE x == [fd_table[fd] EXCEPT !.pos = pos]
<1>2. fd_table' = [fd_table EXCEPT ![fd] = x]
  BY DEF SetPos
<1>3. /\ x \in File /\ x.mmio = fd_table[fd].mmio /\ x.ino = fd_table[fd].ino
      /\ x.freed = fd_table[fd].freed /\ x.pos = pos
  <2> DEFINE f == fd_table[fd]
  <2>1. f \in File
    BY <1>1
  <2> HIDE DEF f
  <2>2. LET y == [f EXCEPT !.pos = pos]
        IN  y \in File /\ y.mmio = f.mmio /\ y.ino = f.ino /\ y.freed = f.freed /\ y.pos = pos
    BY <2>1, WithPos
  <2> QED
    BY <2>2 DEF f
<1> HIDE DEF x
<1>4. NULL \notin File
  BY FileTableAssumption
<1> QED
  BY <1>1, <1>2, <1>3, <1>4 DEF Types

\* A write also grows the mmio of its file, and the disk under it.
LEMMA Written ==
    ASSUME Types, NEW fd \in Usable, NEW len \in 1 .. MaxSize, Write(fd, len)
    PROVE  LET f == fd_table[fd]
               end == f.pos + len
           IN  /\ f \in File /\ f.mmio \in Mmios /\ f.ino \in Inos /\ end \in Nat
               /\ SetPos(fd, end)
               /\ mm' \in [Mmios -> Mmio]
               /\ \A n \in Mmios : n # f.mmio => mm'[n] = mm[n]
               /\ mm'[f.mmio].ref = mm[f.mmio].ref /\ mm'[f.mmio].ino = mm[f.mmio].ino
               /\ mm'[f.mmio].fsize = NewSize(mm[f.mmio].fsize, end)
               /\ mm'[f.mmio].mapped >= end
               /\ mm'[f.mmio].mapped >= mm[f.mmio].mapped
               /\ disk' \in [Inos -> Nat]
               /\ \A i \in Inos : disk'[i] >= disk[i]
               /\ mm'[f.mmio].mapped = mm[f.mmio].mapped \/ disk'[f.ino] >= mm'[f.mmio].mapped
               /\ size' = [size EXCEPT ![f.ino] = Larger(@, end)]
               /\ size' \in [Inos -> Nat]
<1> DEFINE f == fd_table[fd]
           end == f.pos + len
           m == f.mmio
<1>1. fd \in Fds /\ f \in File
  BY DEF Types, Usable
<1>2. m \in Mmios /\ f.ino \in Inos /\ end \in Nat
  BY <1>1, FileTableAssumption DEF File
<1>3. PICK new \in Expended(mm[m].mapped, end) :
         /\ mm' = [mm EXCEPT ![m].mapped = new, ![m].fsize = NewSize(@, end)]
         /\ disk' = [disk EXCEPT ![f.ino] = IF new > mm[m].mapped THEN Larger(@, new) ELSE @]
  BY DEF Write
<1>4. SetPos(fd, end) /\ size' = [size EXCEPT ![f.ino] = Larger(@, end)]
  BY DEF Write
<1> HIDE DEF f, end, m
<1>5. mm[m] \in Mmio /\ mm[m].mapped \in Nat /\ mm[m].fsize \in Nat
  BY <1>2 DEF Types, Mmio
<1>6. new \in Nat /\ new >= mm[m].mapped /\ new >= end
  BY <1>2, <1>3, <1>5, ExpendedFits
<1> DEFINE x == [[mm[m] EXCEPT !.mapped = new] EXCEPT !.fsize = NewSize(mm[m].fsize, end)]
<1>7. NewSize(mm[m].fsize, end) \in Nat
  BY <1>2, <1>5 DEF NewSize
<1>8. /\ x \in Mmio /\ x.ref = mm[m].ref /\ x.ino = mm[m].ino
      /\ x.fsize = NewSize(mm[m].fsize, end) /\ x.mapped = new
  <2> DEFINE e == mm[m]
             b == NewSize(mm[m].fsize, end)
  <2>1. e \in Mmio /\ b \in Nat
    BY <1>5, <1>7
  <2> HIDE DEF e, b
  <2>2. LET y == [[e EXCEPT !.mapped = new] EXCEPT !.fsize = b]
        IN  /\ y \in Mmio /\ y.ref = e.ref /\ y.ino = e.ino /\ y.fsize = b /\ y.mapped = new
    BY <1>6, <2>1 DEF Mmio
  <2> QED
    BY <2>2 DEF e, b
<1>9. mm' = [mm EXCEPT ![m] = x]
  <2>1. mm \in [Mmios -> Mmio]
    BY DEF Types
  <2>2. [mm EXCEPT ![m].mapped = new][m].fsize = mm[m].fsize
    BY <1>2, <1>5, <2>1 DEF Mmio
  <2> QED
    BY <1>2, <1>3, <2>1, <2>2 DEF Mmio
<1> HIDE DEF x
<1>10. mm' \in [Mmios -> Mmio] /\ \A n \in Mmios : mm'[n] = IF n = m THEN x ELSE mm[n]
  BY <1>2, <1>8, <1>9, MmioUpdate
<1>11. /\ disk' \in [Inos -> Nat] /\ \A i \in Inos : disk'[i] >= disk[i]
       /\ new = mm[m].mapped \/ disk'[f.ino] >= new
  BY <1>2, <1>3, <1>5, <1>6 DEF Types, Larger
<1>12. size' \in [Inos -> Nat]
  BY <1>2, <1>4 DEF Types, Larger
<1> QED
  BY <1>1, <1>2, <1>4, <1>6, <1>8, <1>10, <1>11, <1>12 DEF f, end, m

-----------------------------------------------------------------------------
(* First layer.                                                             *)

\* What stays when an action changes no thread and no descriptor's owner.
LEMMA FdInvCalls ==
    ASSUME FdInv, UNCHANGED <<kernel, hash, pool, pc, loc>>,
           disk' \in [Inos -> Nat], size' \in [Inos -> Nat], mm' \in [Mmios -> Mmio],
           \A m \in Mmios : mm'[m].fsize <= mm'[m].mapped,
           fd_table' \in [Fds -> File \cup {NULL}],
           \A d \in Fds : /\ fd_table'[d] = NULL <=> fd_table[d] = NULL
                          /\ fd_table[d] # NULL => /\ fd_table'[d].ino = fd_table[d].ino
                                                   /\ fd_table'[d].freed = fd_table[d].freed
    PROVE  FdInv' /\ Usable' = Usable
<1>1. Types' /\ Fits'
  BY DEF FdInv, Types, Fits
<1>2. MmioOwned' /\ FdOwned'
  BY DEF FdInv, MmioOwned, Private, FdOwned
<1>3. BusyThreads'
  BY DEF FdInv, BusyThreads, Busy
<1>4. Usable' = Usable
  BY DEF Usable
<1>5. FdConsistent'
  BY <1>4 DEF FdInv, FdConsistent
<1> QED
  BY <1>1, <1>2, <1>3, <1>4, <1>5 DEF FdInv

LEMMA FdInvRead ==
    ASSUME FdInv, NEW fd \in Usable, NEW len \in 1 .. MaxSize, Read(fd, len)
    PROVE  FdInv'
<1> DEFINE pos == Smaller(fd_table[fd].pos + len, mm[fd_table[fd].mmio].fsize)
<1>1. Types /\ fd_table[fd] \in File
  BY DEF FdInv, Types, Usable
<1>2. pos \in Nat /\ SetPos(fd, pos)
  BY <1>1, FileTableAssumption DEF Types, File, Mmio, Smaller, Read
<1>3. UNCHANGED <<kernel, hash, pool, pc, loc, disk, size, mm>>
  BY DEF Read
<1> HIDE DEF pos
<1> QED
  BY <1>1, <1>2, <1>3, Moved, FdInvCalls DEF FdInv, Types, Fits

LEMMA FdInvSeek ==
    ASSUME FdInv, NEW fd \in Usable, NEW to \in 0 .. MaxSize, SetPos(fd, to),
           UNCHANGED <<disk, kernel, mm, hash, pool, pc, loc, size>>
    PROVE  FdInv'
BY Moved, FdInvCalls, FileTableAssumption DEF FdInv, Types, Fits

LEMMA FdInvWrite ==
    ASSUME FdInv, NEW fd \in Usable, NEW len \in 1 .. MaxSize, Write(fd, len)
    PROVE  FdInv'
<1> DEFINE f == fd_table[fd]
           end == f.pos + len
           m == f.mmio
<1>0. Types
  BY DEF FdInv
<1>1. /\ m \in Mmios /\ end \in Nat /\ SetPos(fd, end)
      /\ mm' \in [Mmios -> Mmio] /\ disk' \in [Inos -> Nat] /\ size' \in [Inos -> Nat]
      /\ \A n \in Mmios : n # m => mm'[n] = mm[n]
      /\ mm'[m].fsize = NewSize(mm[m].fsize, end)
      /\ mm'[m].mapped >= end /\ mm'[m].mapped >= mm[m].mapped
  BY <1>0, Written
<1>2. UNCHANGED <<kernel, hash, pool, pc, loc>>
  BY DEF Write
<1> HIDE DEF f, end, m
<1>3. \A n \in Mmios : mm'[n].fsize <= mm'[n].mapped
  <2>1. mm'[m].fsize <= mm'[m].mapped
    <3>1. mm[m].fsize \in Nat /\ mm[m].mapped \in Nat /\ mm[m].fsize <= mm[m].mapped
      BY <1>1 DEF FdInv, Types, Fits, Mmio
    <3>2. mm'[m].mapped \in Nat
      BY <1>1 DEF Mmio
    <3> QED
      BY <1>1, <3>1, <3>2 DEF NewSize
  <2> QED
    BY <1>1, <2>1 DEF FdInv, Fits
<1> QED
  BY <1>0, <1>1, <1>2, <1>3, Moved, FdInvCalls

\* An action that touches neither files nor threads nor mmios.
LEMMA FdInvQuiet ==
    ASSUME FdInv, UNCHANGED <<disk, kernel, fd_table, mm, hash, pool, pc, loc, size>>
    PROVE  FdInv'
BY DEF FdInv, Types, Fits, MmioOwned, Private, FdOwned, BusyThreads, Busy, FdConsistent, Usable

\* How an open or a close takes its next step.
LEMMA Stepped ==
    ASSUME Types, NEW t \in Threads, NEW to \in {"idle"} \cup Opening \cup Closing,
           NEW l \in Locals, pc' = [pc EXCEPT ![t] = to], loc' = [loc EXCEPT ![t] = l]
    PROVE  /\ pc' \in [Threads -> {"idle"} \cup Opening \cup Closing]
           /\ loc' \in [Threads -> Locals]
           /\ pc'[t] = to /\ loc'[t] = l
           /\ \A u \in Threads : u # t => pc'[u] = pc[u] /\ loc'[u] = loc[u]
BY DEF Types

LEMMA Opened ==
    ASSUME Types, NEW t \in Threads, NEW ino \in Inos, NEW flags \in Modes,
           Open(t, ino, flags)
    PROVE  \E fd \in Fds, l \in Locals :
              /\ kernel[fd] = NULL /\ kernel' = [kernel EXCEPT ![fd] = ino]
              /\ l.fd = fd /\ l.ino = ino /\ l.flags = flags /\ l.fsize = disk[ino]
              /\ loc' = [loc EXCEPT ![t] = l] /\ pc' = [pc EXCEPT ![t] = "lookup"]
<1> DEFINE free == {d \in Fds : kernel[d] = NULL}
           fd == CHOOSE n \in free : \A m \in free : n <= m
           l == [NoLocals EXCEPT !.fd = fd, !.ino = ino, !.flags = flags, !.fsize = disk[ino]]
<1>1. free # {}
  BY DEF Open
<1>2. fd \in Fds /\ kernel[fd] = NULL
  <2> HIDE DEF free
  <2>1. free = {d \in Fds : kernel[d] = NULL}
    BY DEF free
  <2> QED
    BY <1>1, <2>1, FreeFd
<1>3. /\ kernel' = [kernel EXCEPT ![fd] = ino]
      /\ loc' = [loc EXCEPT ![t] = l] /\ pc' = [pc EXCEPT ![t] = "lookup"]
  BY DEF Open, Goto
<1> HIDE DEF fd
<1>4. /\ l \in Locals /\ l.fd = fd /\ l.ino = ino /\ l.flags = flags /\ l.fsize = disk[ino]
  <2> DEFINE n == disk[ino]
  <2>1. n \in Nat
    BY DEF Types
  <2> HIDE DEF n
  <2>2. LET x == [NoLocals EXCEPT !.fd = fd, !.ino = ino, !.flags = flags, !.fsize = n]
        IN  /\ x \in Locals /\ x.fd = fd /\ x.ino = ino /\ x.flags = flags /\ x.fsize = n
    BY <1>2, <2>1 DEF NoLocals, Locals
  <2> QED
    BY <2>2 DEF n
<1> HIDE DEF l
<1> QED
  BY <1>2, <1>3, <1>4

LEMMA FdInvOpen ==
    ASSUME FdInv, NEW t \in Threads, NEW ino \in Inos, NEW flags \in Modes,
           Open(t, ino, flags)
    PROVE  FdInv'
<1>0. Types
  BY DEF FdInv
<1>1. PICK fd \in Fds, l \in Locals :
         /\ kernel[fd] = NULL /\ kernel' = [kernel EXCEPT ![fd] = ino]
         /\ l.fd = fd /\ l.ino = ino /\ l.flags = flags /\ l.fsize = disk[ino]
         /\ loc' = [loc EXCEPT ![t] = l] /\ pc' = [pc EXCEPT ![t] = "lookup"]
  BY <1>0, Opened
<1>2. /\ pc[t] = "idle" /\ UNCHANGED <<disk, fd_table, mm, hash, pool, exited, size>>
  BY DEF Open
<1>3. /\ pc' \in [Threads -> {"idle"} \cup Opening \cup Closing] /\ loc' \in [Threads -> Locals]
      /\ pc'[t] = "lookup" /\ loc'[t] = l
      /\ \A u \in Threads : u # t => pc'[u] = pc[u] /\ loc'[u] = loc[u]
  BY <1>0, <1>1, Stepped DEF Opening
<1>4. kernel' \in [Fds -> Inos \cup {NULL}] /\ kernel'[fd] = ino
      /\ \A d \in Fds : d # fd => kernel'[d] = kernel[d]
  BY <1>0, <1>1 DEF Types
<1>5. NULL \notin Inos
  BY FileTableAssumption
<1>6. fd_table[fd] = NULL
  BY <1>0, <1>1, <1>5 DEF FdInv, FdConsistent, Types, File
<1>7. \A u \in Threads : pc[u] # "idle" => loc[u].fd # fd
  BY <1>1, <1>5 DEF FdInv, BusyThreads, Busy
<1>8. Types' /\ Fits'
  BY <1>2, <1>3, <1>4 DEF FdInv, Types, Fits
<1>9. MmioOwned'
  BY <1>2, <1>3 DEF FdInv, MmioOwned, Private
<1>10. BusyThreads'
  <2> SUFFICES ASSUME NEW u \in Threads, pc'[u] # "idle" PROVE Busy(u)'
    BY DEF BusyThreads
  <2>1. CASE u = t
    BY <1>1, <1>2, <1>3, <1>4, <1>6, <2>1 DEF Busy, Opening
  <2>2. CASE u # t
    <3>1. Busy(u) /\ loc[u].fd # fd
      BY <1>3, <1>7, <2>2 DEF FdInv, BusyThreads
    <3> QED
      BY <1>2, <1>3, <1>4, <2>2, <3>1 DEF Busy
  <2> QED
    BY <2>1, <2>2
<1>11. FdOwned'
  BY <1>1, <1>3, <1>7 DEF FdInv, FdOwned
<1>12. \A d \in Usable' : d \in Usable
  BY <1>2, <1>3 DEF Usable, Closing
<1>13. FdConsistent'
  BY <1>2, <1>4, <1>6, <1>12 DEF FdInv, FdConsistent
<1> QED
  BY <1>8, <1>9, <1>10, <1>11, <1>13 DEF FdInv

\* A step of an open that leaves the descriptors alone.
LEMMA FdInvOpening ==
    ASSUME FdInv, NEW t \in Threads, pc[t] \in Opening, NEW to \in Opening, NEW l \in Locals,
           pc' = [pc EXCEPT ![t] = to], loc' = [loc EXCEPT ![t] = l],
           l.fd = loc[t].fd, l.ino = loc[t].ino, l.flags = loc[t].flags,
           to \in {"put", "install"} => l.mmio \in Mmios,
           UNCHANGED <<kernel, fd_table>>
    PROVE  /\ pc' \in [Threads -> {"idle"} \cup Opening \cup Closing]
           /\ loc' \in [Threads -> Locals]
           /\ pc'[t] = to /\ loc'[t] = l
           /\ \A u \in Threads : u # t => pc'[u] = pc[u] /\ loc'[u] = loc[u]
           /\ Usable' = Usable
           /\ BusyThreads' /\ FdOwned' /\ FdConsistent'
<1>0. Types
  BY DEF FdInv
<1>1. /\ pc' \in [Threads -> {"idle"} \cup Opening \cup Closing] /\ loc' \in [Threads -> Locals]
      /\ pc'[t] = to /\ loc'[t] = l
      /\ \A u \in Threads : u # t => pc'[u] = pc[u] /\ loc'[u] = loc[u]
  BY <1>0, Stepped
<1>2. to \notin Closing /\ pc[t] \notin Closing /\ to # "idle" /\ pc[t] # "idle"
  BY DEF Opening, Closing
<1>3. Usable' = Usable
  BY <1>1, <1>2 DEF Usable
<1>4. BusyThreads'
  <2> SUFFICES ASSUME NEW u \in Threads, pc'[u] # "idle" PROVE Busy(u)'
    BY DEF BusyThreads
  <2>1. CASE u = t
    <3>1. Busy(t)
      BY <1>2 DEF FdInv, BusyThreads
    <3> QED
      BY <1>1, <2>1, <3>1 DEF Busy
  <2>2. CASE u # t
    BY <1>1, <2>2 DEF FdInv, BusyThreads, Busy
  <2> QED
    BY <2>1, <2>2
<1>5. FdOwned'
  BY <1>1, <1>2 DEF FdInv, FdOwned
<1>6. FdConsistent'
  BY <1>3 DEF FdInv, FdConsistent
<1> QED
  BY <1>1, <1>3, <1>4, <1>5, <1>6

\* get_mmio_hash: found, or not.
LEMMA LookedUp ==
    ASSUME Types, NEW t \in Threads, Lookup(t), InHash(loc[t].ino) # {}
    PROVE  \E m \in InHash(loc[t].ino), x \in Mmio, l \in Locals :
              /\ mm' = [mm EXCEPT ![m] = x] /\ mm[m] \in Mmio
              /\ x.ref = mm[m].ref + 1 /\ x.ino = mm[m].ino
              /\ x.fsize = mm[m].fsize /\ x.mapped = mm[m].mapped
              /\ loc' = [loc EXCEPT ![t] = l] /\ pc' = [pc EXCEPT ![t] = "install"]
              /\ l.fd = loc[t].fd /\ l.ino = loc[t].ino /\ l.flags = loc[t].flags /\ l.mmio = m
<1> DEFINE m == Found(loc[t].ino)
           e == mm[m]
           x == [e EXCEPT !.ref = @ + 1]
           k == loc[t]
           l == [k EXCEPT !.mmio = m]
<1>1. m \in InHash(loc[t].ino)
  BY DEF Found
<1>2. m \in Mmios
  BY <1>1 DEF InHash, Types
<1> HIDE DEF m
<1>3. /\ mm' = [mm EXCEPT ![m].ref = @ + 1] /\ loc' = [loc EXCEPT ![t].mmio = m]
      /\ pc' = [pc EXCEPT ![t] = "install"]
  BY DEF Lookup, Referenced, Goto, m
<1>4. mm' = [mm EXCEPT ![m] = x] /\ loc' = [loc EXCEPT ![t] = l]
  BY <1>3
<1>5. e \in Mmio /\ k \in Locals
  BY <1>2 DEF Types
<1> HIDE DEF e, k
<1>6. /\ x \in Mmio /\ x.ref = e.ref + 1 /\ x.ino = e.ino
      /\ x.fsize = e.fsize /\ x.mapped = e.mapped
  BY <1>5 DEF Mmio
<1>7. /\ l \in Locals /\ l.fd = k.fd /\ l.ino = k.ino /\ l.flags = k.flags /\ l.mmio = m
  BY <1>2, <1>5 DEF Locals
<1> HIDE DEF x, l
<1>8. /\ mm' = [mm EXCEPT ![m] = x] /\ mm[m] \in Mmio
      /\ x.ref = mm[m].ref + 1 /\ x.ino = mm[m].ino
      /\ x.fsize = mm[m].fsize /\ x.mapped = mm[m].mapped
  BY <1>4, <1>5, <1>6 DEF e
<1>9. /\ loc' = [loc EXCEPT ![t] = l] /\ pc' = [pc EXCEPT ![t] = "install"]
      /\ l.fd = loc[t].fd /\ l.ino = loc[t].ino /\ l.flags = loc[t].flags /\ l.mmio = m
  BY <1>3, <1>4, <1>7 DEF k
<1>10. x \in Mmio /\ l \in Locals
  BY <1>6, <1>7
<1> HIDE DEF e, k
<1> USE <1>1, <1>10
<1> WITNESS m \in InHash(loc[t].ino), x \in Mmio, l \in Locals
<1> QED
  BY <1>8, <1>9

LEMMA FdInvLookup ==
    ASSUME FdInv, NEW t \in Threads, Lookup(t)
    PROVE  FdInv'
<1>0. Types /\ pc[t] \in Opening /\ loc[t] \in Locals
  BY DEF FdInv, Lookup, Opening, Types
<1>1. UNCHANGED <<disk, kernel, fd_table, hash, pool, exited, size>>
  BY DEF Lookup
<1>2. CASE InHash(loc[t].ino) # {}
  <2>1. PICK m \in InHash(loc[t].ino), x \in Mmio, l \in Locals :
              /\ mm' = [mm EXCEPT ![m] = x] /\ mm[m] \in Mmio
              /\ x.fsize = mm[m].fsize /\ x.mapped = mm[m].mapped
              /\ loc' = [loc EXCEPT ![t] = l] /\ pc' = [pc EXCEPT ![t] = "install"]
              /\ l.fd = loc[t].fd /\ l.ino = loc[t].ino /\ l.flags = loc[t].flags /\ l.mmio = m
    BY <1>0, <1>2, LookedUp
  <2>2. m \in Mmios
    BY <1>0, <2>1 DEF InHash, Types
  <2>3. /\ pc' \in [Threads -> {"idle"} \cup Opening \cup Closing]
        /\ loc' \in [Threads -> Locals]
        /\ pc'[t] = "install"
        /\ \A u \in Threads : u # t => pc'[u] = pc[u] /\ loc'[u] = loc[u]
        /\ BusyThreads' /\ FdOwned' /\ FdConsistent'
    <3>1. "install" \in Opening
      BY DEF Opening
    <3> QED
      BY <1>0, <1>1, <2>1, <2>2, <3>1, FdInvOpening
  <2>4. mm' \in [Mmios -> Mmio] /\ \A n \in Mmios : mm'[n] = IF n = m THEN x ELSE mm[n]
    BY <1>0, <2>1, <2>2, MmioUpdate
  <2>5. Types' /\ Fits'
    BY <1>1, <2>1, <2>3, <2>4 DEF FdInv, Types, Fits
  <2>6. MmioOwned'
    BY <1>1, <2>3 DEF FdInv, MmioOwned, Private
  <2> QED
    BY <2>3, <2>5, <2>6 DEF FdInv
<1>3. CASE InHash(loc[t].ino) = {}
  <2>1. /\ pc' = [pc EXCEPT ![t] = "map"] /\ UNCHANGED <<mm, loc>>
    BY <1>3 DEF Lookup, Goto
  <2>2. loc' = [loc EXCEPT ![t] = loc[t]]
    BY <1>0, <2>1 DEF Types
  <2>3. /\ pc' \in [Threads -> {"idle"} \cup Opening \cup Closing]
        /\ loc' \in [Threads -> Locals]
        /\ pc'[t] = "map"
        /\ \A u \in Threads : u # t => pc'[u] = pc[u] /\ loc'[u] = loc[u]
        /\ BusyThreads' /\ FdOwned' /\ FdConsistent'
    <3>1. "map" \in Opening
      BY DEF Opening
    <3> QED
      BY <1>0, <1>1, <2>1, <2>2, <3>1, FdInvOpening
  <2>5. Types' /\ Fits'
    BY <1>1, <2>1, <2>3 DEF FdInv, Types, Fits
  <2>6. MmioOwned'
    BY <1>1, <2>3 DEF FdInv, MmioOwned, Private
  <2> QED
    BY <2>3, <2>5, <2>6 DEF FdInv
<1> QED
  BY <1>2, <1>3

\* get_new_mmio
LEMMA Mapped ==
    ASSUME Types, NEW t \in Threads, Map(t), loc[t].ino \in Inos
    PROVE  \E m \in pool, x \in Mmio, l \in Locals :
              /\ pool' = pool \ {m} /\ mm' = [mm EXCEPT ![m] = x]
              /\ x.ref = mm[m].ref /\ x.ino = loc[t].ino /\ x.fsize = loc[t].fsize
              /\ x.mapped = IF loc[t].fsize = 0 THEN DefaultMmap ELSE loc[t].fsize
              /\ x.fsize <= x.mapped
              /\ loc' = [loc EXCEPT ![t] = l] /\ pc' = [pc EXCEPT ![t] = "put"]
              /\ l.fd = loc[t].fd /\ l.ino = loc[t].ino /\ l.flags = loc[t].flags /\ l.mmio = m
              /\ disk' \in [Inos -> Nat] /\ \A i \in Inos : disk'[i] >= disk[i]
              /\ x.fsize = 0 => disk'[loc[t].ino] >= x.mapped
<1> DEFINE k == loc[t]
           len == IF k.fsize = 0 THEN DefaultMmap ELSE k.fsize
<1>1. PICK m \in pool :
              /\ pool' = pool \ {m}
              /\ mm' = [mm EXCEPT ![m] = [ino |-> k.ino, ref |-> @.ref, fsize |-> k.fsize,
                                          mapped |-> len, writable |-> k.flags = "rw"]]
              /\ loc' = [loc EXCEPT ![t].mmio = m]
  BY DEF Map
<1>2. /\ disk' = [disk EXCEPT ![k.ino] = IF k.fsize = 0 THEN Larger(@, len) ELSE @]
      /\ pc' = [pc EXCEPT ![t] = "put"]
  BY DEF Map, Goto
<1> DEFINE x == [ino |-> k.ino, ref |-> mm[m].ref, fsize |-> k.fsize,
                 mapped |-> len, writable |-> k.flags = "rw"]
           l == [k EXCEPT !.mmio = m]
<1>3. m \in Mmios /\ k \in Locals /\ k.ino \in Inos /\ mm[m] \in Mmio
  BY DEF Types
<1>4. k.fsize \in Nat /\ mm[m].ref \in Int
  BY <1>3 DEF Locals, Mmio
<1>5. mm' = [mm EXCEPT ![m] = x] /\ loc' = [loc EXCEPT ![t] = l]
  BY <1>1, <1>3 DEF Types
<1>6. len \in Nat /\ k.fsize <= len
  BY <1>4, FileTableAssumption
<1> HIDE DEF k
<1>7. /\ disk' \in [Inos -> Nat] /\ \A i \in Inos : disk'[i] >= disk[i]
      /\ k.fsize = 0 => disk'[k.ino] >= len
  <2> HIDE DEF len
  <2> QED
    BY <1>2, <1>3, <1>4, <1>6 DEF Types, Larger
<1>8. x \in Mmio
  <2> HIDE DEF len
  <2> QED
    BY <1>3, <1>4, <1>6 DEF Mmio
<1>9. /\ l \in Locals /\ l.fd = k.fd /\ l.ino = k.ino /\ l.flags = k.flags /\ l.mmio = m
  BY <1>3 DEF Locals
<1>10. /\ x.ref = mm[m].ref /\ x.ino = k.ino /\ x.fsize = k.fsize /\ x.mapped = len
  OBVIOUS
<1> HIDE DEF x, l
<1>11. /\ x.mapped = IF k.fsize = 0 THEN DefaultMmap ELSE k.fsize
       /\ x.fsize <= x.mapped
       /\ x.fsize = 0 => disk'[k.ino] >= x.mapped
  BY <1>6, <1>7, <1>10
<1> HIDE DEF len
<1> QED
  BY <1>1, <1>2, <1>5, <1>7, <1>8, <1>9, <1>10, <1>11 DEF k

LEMMA FdInvMap ==
    ASSUME FdInv, NEW t \in Threads, Map(t)
    PROVE  FdInv'
<1>0. Types /\ pc[t] = "map" /\ pc[t] \in Opening /\ pc[t] # "idle"
  BY DEF FdInv, Map, Opening
<1>1. Busy(t)
  BY <1>0 DEF FdInv, BusyThreads
<1>2. PICK m \in pool, x \in Mmio, l \in Locals :
         /\ pool' = pool \ {m} /\ mm' = [mm EXCEPT ![m] = x]
         /\ x.fsize <= x.mapped
         /\ loc' = [loc EXCEPT ![t] = l] /\ pc' = [pc EXCEPT ![t] = "put"]
         /\ l.fd = loc[t].fd /\ l.ino = loc[t].ino /\ l.flags = loc[t].flags /\ l.mmio = m
         /\ disk' \in [Inos -> Nat]
  BY <1>0, <1>1, Mapped DEF Busy
<1>3. m \in Mmios
  BY <1>0 DEF Types
<1>4. UNCHANGED <<kernel, fd_table, hash, exited, size>>
  BY DEF Map
<1>5. /\ pc' \in [Threads -> {"idle"} \cup Opening \cup Closing]
      /\ loc' \in [Threads -> Locals]
      /\ pc'[t] = "put" /\ loc'[t] = l
      /\ \A u \in Threads : u # t => pc'[u] = pc[u] /\ loc'[u] = loc[u]
      /\ BusyThreads' /\ FdOwned' /\ FdConsistent'
  <2>1. "put" \in Opening
    BY DEF Opening
  <2> QED
    BY <1>0, <1>2, <1>3, <1>4, <2>1, FdInvOpening
<1>6. mm' \in [Mmios -> Mmio] /\ \A n \in Mmios : mm'[n] = IF n = m THEN x ELSE mm[n]
  BY <1>0, <1>2, <1>3, MmioUpdate
<1>7. Types' /\ Fits'
  BY <1>2, <1>4, <1>5, <1>6 DEF FdInv, Types, Fits
<1>8. MmioOwned'
  <2>1. \A u \in Threads : ~Private(u, m)
    BY <1>3 DEF FdInv, MmioOwned
  <2>2. m \notin hash
    BY DEF FdInv, MmioOwned
  <2>3. \A u \in Threads : \A n \in Mmios :
           Private(u, n)' <=> IF u = t THEN n = m ELSE Private(u, n)
    BY <1>2, <1>5 DEF Private
  <2>4. \A n \in Mmios : ~Private(t, n)
    BY <1>0 DEF Private
  <2> QED
    BY <1>2, <1>4, <2>1, <2>2, <2>3, <2>4 DEF FdInv, MmioOwned
<1> QED
  BY <1>5, <1>7, <1>8 DEF FdInv

\* put_mmio_hash for the thread that is first.
LEMMA PutFirst ==
    ASSUME Types, NEW t \in Threads, Put(t), InHash(loc[t].ino) = {}, loc[t].mmio \in Mmios
    PROVE  \E x \in Mmio :
              /\ mm' = [mm EXCEPT ![loc[t].mmio] = x]
              /\ x.ref = mm[loc[t].mmio].ref + 1 /\ x.ino = mm[loc[t].mmio].ino
              /\ x.fsize = mm[loc[t].mmio].fsize /\ x.mapped = mm[loc[t].mmio].mapped
              /\ hash' = hash \cup {loc[t].mmio}
              /\ loc' = [loc EXCEPT ![t] = loc[t]] /\ pc' = [pc EXCEPT ![t] = "install"]
<1> DEFINE m == loc[t].mmio
           e == mm[m]
           x == [e EXCEPT !.ref = @ + 1]
<1>1. /\ mm' = [mm EXCEPT ![m].ref = @ + 1] /\ hash' = hash \cup {m}
      /\ loc' = [loc EXCEPT ![t].mmio = @] /\ pc' = [pc EXCEPT ![t] = "install"]
  BY DEF Put, Referenced, Goto
<1>2. loc' = [loc EXCEPT ![t] = loc[t]]
  BY <1>1 DEF Types, Locals
<1>3. e \in Mmio
  BY DEF Types
<1>4. mm' = [mm EXCEPT ![m] = x]
  BY <1>1
<1> HIDE DEF e
<1>5. /\ x \in Mmio /\ x.ref = e.ref + 1 /\ x.ino = e.ino
      /\ x.fsize = e.fsize /\ x.mapped = e.mapped
  BY <1>3 DEF Mmio
<1> HIDE DEF x
<1> QED
  BY <1>1, <1>2, <1>4, <1>5 DEF e

\* ... and for one that comes later.
LEMMA PutLost ==
    ASSUME Types, NEW t \in Threads, Put(t), InHash(loc[t].ino) # {}
    PROVE  \E l \in Locals :
              /\ UNCHANGED <<mm, hash>>
              /\ loc' = [loc EXCEPT ![t] = l] /\ pc' = [pc EXCEPT ![t] = "install"]
              /\ l.fd = loc[t].fd /\ l.ino = loc[t].ino /\ l.flags = loc[t].flags
              /\ l.mmio \in Mmios
<1> DEFINE m == Found(loc[t].ino)
           k == loc[t]
           l == [k EXCEPT !.mmio = m]
<1>1. m \in InHash(loc[t].ino)
  BY DEF Found
<1>2. m \in Mmios
  BY <1>1 DEF InHash, Types
<1> HIDE DEF m
<1>3. /\ UNCHANGED <<mm, hash>> /\ loc' = [loc EXCEPT ![t].mmio = m]
      /\ pc' = [pc EXCEPT ![t] = "install"]
  BY DEF Put, Goto, m
<1>4. loc' = [loc EXCEPT ![t] = l]
  BY <1>3
<1>5. k \in Locals
  BY DEF Types
<1> HIDE DEF k
<1>6. /\ l \in Locals /\ l.fd = k.fd /\ l.ino = k.ino /\ l.flags = k.flags /\ l.mmio = m
  BY <1>2, <1>5 DEF Locals
<1> HIDE DEF l
<1> QED
  BY <1>2, <1>3, <1>4, <1>6 DEF k

LEMMA FdInvPut ==
    ASSUME FdInv, NEW t \in Threads, Put(t)
    PROVE  FdInv'
<1>0. /\ Types /\ pc[t] = "put" /\ pc[t] \in Opening /\ pc[t] # "idle"
      /\ loc[t] \in Locals /\ "install" \in Opening
  BY DEF FdInv, Put, Opening, Types
<1>1. loc[t].mmio \in Mmios
  BY <1>0 DEF FdInv, BusyThreads, Busy
<1>2. UNCHANGED <<disk, kernel, fd_table, pool, exited, size>>
  BY DEF Put
<1>3. CASE InHash(loc[t].ino) = {}
  <2> DEFINE m == loc[t].mmio
  <2>1. PICK x \in Mmio :
         /\ mm' = [mm EXCEPT ![m] = x]
         /\ x.fsize = mm[m].fsize /\ x.mapped = mm[m].mapped
         /\ hash' = hash \cup {m}
         /\ loc' = [loc EXCEPT ![t] = loc[t]] /\ pc' = [pc EXCEPT ![t] = "install"]
    BY <1>0, <1>1, <1>3, PutFirst
  <2>2. /\ pc' \in [Threads -> {"idle"} \cup Opening \cup Closing]
        /\ loc' \in [Threads -> Locals]
        /\ pc'[t] = "install"
        /\ \A u \in Threads : u # t => pc'[u] = pc[u] /\ loc'[u] = loc[u]
        /\ BusyThreads' /\ FdOwned' /\ FdConsistent'
    BY <1>0, <1>1, <1>2, <2>1, FdInvOpening
  <2>3. mm' \in [Mmios -> Mmio] /\ \A n \in Mmios : mm'[n] = IF n = m THEN x ELSE mm[n]
    BY <1>0, <1>1, <2>1, MmioUpdate
  <2>4. Types' /\ Fits'
    BY <1>1, <1>2, <2>1, <2>2, <2>3 DEF FdInv, Types, Fits
  <2>5. MmioOwned'
    <3>1. Private(t, m)
      BY <1>0 DEF Private
    <3>2. m \notin pool /\ \A u \in Threads : Private(u, m) => u = t
      BY <1>1, <3>1 DEF FdInv, MmioOwned
    <3>3. \A u \in Threads : \A n \in Mmios : Private(u, n)' <=> u # t /\ Private(u, n)
      BY <2>2 DEF Private
    <3> QED
      BY <1>1, <1>2, <2>1, <3>2, <3>3 DEF FdInv, MmioOwned
  <2> QED
    BY <2>2, <2>4, <2>5 DEF FdInv
<1>4. CASE InHash(loc[t].ino) # {}
  <2>1. PICK l \in Locals :
              /\ UNCHANGED <<mm, hash>>
              /\ loc' = [loc EXCEPT ![t] = l] /\ pc' = [pc EXCEPT ![t] = "install"]
              /\ l.fd = loc[t].fd /\ l.ino = loc[t].ino /\ l.flags = loc[t].flags
              /\ l.mmio \in Mmios
    BY <1>0, <1>4, PutLost
  <2>2. /\ pc' \in [Threads -> {"idle"} \cup Opening \cup Closing]
        /\ loc' \in [Threads -> Locals]
        /\ pc'[t] = "install"
        /\ \A u \in Threads : u # t => pc'[u] = pc[u] /\ loc'[u] = loc[u]
        /\ BusyThreads' /\ FdOwned' /\ FdConsistent'
    BY <1>0, <1>2, <2>1, FdInvOpening
  <2>3. Types' /\ Fits'
    BY <1>2, <2>1, <2>2 DEF FdInv, Types, Fits
  <2>4. \A u \in Threads : \A n \in Mmios : Private(u, n)' <=> u # t /\ Private(u, n)
    BY <2>2 DEF Private
  <2>5. MmioOwned'
    BY <1>2, <2>1, <2>4 DEF FdInv, MmioOwned
  <2> QED
    BY <2>2, <2>3, <2>5 DEF FdInv
<1> QED
  BY <1>3, <1>4

\* The end of an open.
LEMMA Installed ==
    ASSUME FdInv, NEW t \in Threads, Install(t)
    PROVE  LET fd == loc[t].fd
           IN  /\ fd \in Fds /\ fd_table[fd] = NULL /\ Busy(t)
               /\ fd_table' \in [Fds -> File \cup {NULL}] /\ fd_table'[fd] \in File
               /\ fd_table'[fd].mmio = loc[t].mmio /\ fd_table'[fd].ino = loc[t].ino
               /\ fd_table'[fd].pos = 0 /\ fd_table'[fd].freed = FALSE
               /\ \A d \in Fds : d # fd => fd_table'[d] = fd_table[d]
               /\ pc'[t] = "idle" /\ pc[t] = "install"
               /\ \A u \in Threads : u # t => pc'[u] = pc[u] /\ loc'[u] = loc[u]
               /\ pc' \in [Threads -> {"idle"} \cup Opening \cup Closing]
               /\ loc' \in [Threads -> Locals]
               /\ UNCHANGED <<disk, kernel, mm, hash, pool, exited, size>>
<1> DEFINE l == loc[t]
           x == [mmio |-> l.mmio, flags |-> l.flags, ino |-> l.ino, pos |-> 0, freed |-> FALSE]
<1>1. /\ pc[t] = "install" /\ fd_table' = [fd_table EXCEPT ![l.fd] = x]
      /\ loc' = [loc EXCEPT ![t] = NoLocals] /\ pc' = [pc EXCEPT ![t] = "idle"]
      /\ UNCHANGED <<disk, kernel, mm, hash, pool, exited, size>>
  BY DEF Install, Goto
<1>2. Busy(t) /\ Types
  BY <1>1 DEF FdInv, BusyThreads
<1>3. /\ l.fd \in Fds /\ l.flags \in Modes /\ l.mmio \in Mmios /\ l.ino \in Inos
      /\ fd_table[l.fd] = NULL
  BY <1>1, <1>2 DEF Busy, Opening
<1> HIDE DEF l
<1>4. x \in File /\ x.mmio = l.mmio /\ x.ino = l.ino /\ x.pos = 0 /\ x.freed = FALSE
  BY <1>3 DEF File
<1>5. NoLocals \in Locals
  BY IdleLocals
<1>6. /\ pc' \in [Threads -> {"idle"} \cup Opening \cup Closing] /\ loc' \in [Threads -> Locals]
      /\ pc'[t] = "idle"
      /\ \A u \in Threads : u # t => pc'[u] = pc[u] /\ loc'[u] = loc[u]
  BY <1>1, <1>2, <1>5, Stepped
<1> HIDE DEF x
<1>7. /\ fd_table' \in [Fds -> File \cup {NULL}] /\ fd_table'[l.fd] = x
      /\ \A d \in Fds : d # l.fd => fd_table'[d] = fd_table[d]
  BY <1>1, <1>2, <1>3, <1>4 DEF Types
<1> QED
  BY <1>1, <1>2, <1>3, <1>4, <1>6, <1>7 DEF l

LEMMA FdInvInstall ==
    ASSUME FdInv, NEW t \in Threads, Install(t)
    PROVE  FdInv' /\ Usable' = Usable \cup {loc[t].fd}
<1> DEFINE fd == loc[t].fd
<1>1. /\ fd \in Fds /\ fd_table[fd] = NULL /\ Busy(t)
      /\ fd_table' \in [Fds -> File \cup {NULL}] /\ fd_table'[fd] \in File
      /\ fd_table'[fd].ino = loc[t].ino /\ fd_table'[fd].freed = FALSE
      /\ \A d \in Fds : d # fd => fd_table'[d] = fd_table[d]
      /\ pc'[t] = "idle" /\ pc[t] = "install"
      /\ \A u \in Threads : u # t => pc'[u] = pc[u] /\ loc'[u] = loc[u]
      /\ pc' \in [Threads -> {"idle"} \cup Opening \cup Closing]
      /\ loc' \in [Threads -> Locals]
      /\ UNCHANGED <<disk, kernel, mm, hash, pool, exited, size>>
  BY Installed
<1>2. \A u \in Threads : u # t /\ pc[u] # "idle" => loc[u].fd # fd
  BY <1>1 DEF FdInv, FdOwned
<1>3. Types' /\ Fits'
  BY <1>1 DEF FdInv, Types, Fits
<1>4. MmioOwned'
  <2>1. \A u \in Threads : \A n \in Mmios : Private(u, n)' <=> Private(u, n)
    BY <1>1 DEF Private
  <2> QED
    BY <1>1, <2>1 DEF FdInv, MmioOwned
<1>5. BusyThreads'
  <2> SUFFICES ASSUME NEW u \in Threads, pc'[u] # "idle" PROVE Busy(u)'
    BY DEF BusyThreads
  <2>1. u # t /\ Busy(u) /\ loc[u].fd # fd
    BY <1>1, <1>2 DEF FdInv, BusyThreads
  <2> QED
    BY <1>1, <2>1 DEF Busy
<1>6. FdOwned'
  BY <1>1 DEF FdInv, FdOwned
<1>7. NULL \notin File
  BY FileTableAssumption
<1>8. Usable' = Usable \cup {fd}
  BY <1>1, <1>2, <1>7 DEF Usable, Closing
<1>9. FdConsistent'
  BY <1>1, <1>8 DEF FdInv, FdConsistent, Busy
<1> QED
  BY <1>3, <1>4, <1>5, <1>6, <1>8, <1>9 DEF FdInv

\* delete_mmio_hash and release_mmio
LEMMA Closed ==
    ASSUME FdInv, NEW t \in Threads, NEW fd \in Usable, Close(t, fd)
    PROVE  LET found == InHash(fd_table[fd].ino)
               last == {m \in found : LastReference(m)}
           IN  /\ fd \in Fds /\ fd_table[fd] \in File
               /\ last \subseteq found /\ found \subseteq hash
               /\ hash' = hash \ last /\ pool' = pool \cup last
               /\ mm' \in [Mmios -> Mmio]
               /\ \A m \in Mmios : m \notin found => mm'[m] = mm[m]
               /\ \A m \in found : mm'[m].ref = mm[m].ref - 1
               /\ \A m \in found : m \notin last =>
                     /\ mm'[m].ino = mm[m].ino
                     /\ mm'[m].fsize = mm[m].fsize /\ mm'[m].mapped = mm[m].mapped
               /\ \A m \in last : mm'[m].fsize = 0 /\ mm'[m].mapped = 0
               /\ pc[t] = "idle" /\ pc'[t] = "free"
               /\ loc'[t].fd = fd /\ loc'[t].ino = fd_table[fd].ino
               /\ \A u \in Threads : u # t => pc'[u] = pc[u] /\ loc'[u] = loc[u]
               /\ pc' \in [Threads -> {"idle"} \cup Opening \cup Closing]
               /\ loc' \in [Threads -> Locals]
               /\ UNCHANGED <<kernel, fd_table, exited, size>>
<1> DEFINE found == InHash(fd_table[fd].ino)
           last == {m \in found : LastReference(m)}
           l == [NoLocals EXCEPT !.fd = fd, !.ino = fd_table[fd].ino]
<1>0. Types /\ fd \in Fds /\ fd_table[fd] \in File /\ fd_table[fd].ino \in Inos
  BY DEF FdInv, Usable, Types, File
<1>1. found \subseteq hash /\ last \subseteq found /\ found \subseteq Mmios
  BY <1>0 DEF InHash, Types
<1>2. /\ pc[t] = "idle" /\ hash' = hash \ last /\ pool' = pool \cup last
      /\ mm' = [m \in Mmios |-> IF m \in last THEN Released(m)
                                ELSE IF m \in found THEN [mm[m] EXCEPT !.ref = @ - 1]
                                ELSE mm[m]]
      /\ Step(t, l)
      /\ UNCHANGED <<kernel, fd_table, exited, size>>
  BY DEF Close
<1>3. l \in Locals /\ l.fd = fd /\ l.ino = fd_table[fd].ino
  <2> DEFINE i == fd_table[fd].ino
  <2>1. i \in Inos
    BY <1>0
  <2> HIDE DEF i
  <2>2. LET x == [NoLocals EXCEPT !.fd = fd, !.ino = i]
        IN  x \in Locals /\ x.fd = fd /\ x.ino = i
    BY <1>0, <2>1 DEF NoLocals, Locals
  <2> QED
    BY <2>2 DEF i
<1> HIDE DEF l
<1>4. pc' = [pc EXCEPT ![t] = "free"] /\ loc' = [loc EXCEPT ![t] = l]
  BY <1>2, CloseSteps DEF Step, Goto
<1>5. /\ pc' \in [Threads -> {"idle"} \cup Opening \cup Closing] /\ loc' \in [Threads -> Locals]
      /\ pc'[t] = "free" /\ loc'[t] = l
      /\ \A u \in Threads : u # t => pc'[u] = pc[u] /\ loc'[u] = loc[u]
  BY <1>0, <1>3, <1>4, Stepped DEF Closing
<1> HIDE DEF found, last
<1>6. \A m \in Mmios : /\ m \in last => /\ mm'[m] \in Mmio /\ mm'[m].ref = mm[m].ref - 1
                                        /\ mm'[m].fsize = 0 /\ mm'[m].mapped = 0
                       /\ m \in found \ last =>
                             /\ mm'[m] \in Mmio /\ mm'[m].ref = mm[m].ref - 1
                             /\ mm'[m].ino = mm[m].ino
                             /\ mm'[m].fsize = mm[m].fsize /\ mm'[m].mapped = mm[m].mapped
                       /\ m \notin found => mm'[m] = mm[m] /\ mm[m] \in Mmio
  <2> TAKE m \in Mmios
  <2> DEFINE e == mm[m]
  <2>1. e \in Mmio
    BY <1>0 DEF Types
  <2>2. CASE m \in last
    <3>1. mm'[m] = Released(m)
      BY <1>2, <2>2
    <3> QED
      BY <1>1, <2>1, <2>2, <3>1, ReleasedType
  <2>3. CASE m \in found \ last
    <3>1. mm'[m] = [e EXCEPT !.ref = @ - 1]
      BY <1>2, <2>3
    <3> HIDE DEF e
    <3>2. LET x == [e EXCEPT !.ref = @ - 1]
          IN  /\ x \in Mmio /\ x.ref = e.ref - 1 /\ x.ino = e.ino
              /\ x.fsize = e.fsize /\ x.mapped = e.mapped
      BY <2>1, Fewer
    <3> QED
      BY <2>3, <3>1, <3>2 DEF e
  <2>4. CASE m \notin found
    BY <1>1, <1>2, <2>1, <2>4
  <2> QED
    BY <1>1, <2>2, <2>3, <2>4
<1>7. mm' \in [Mmios -> Mmio]
  <2>1. \A m \in Mmios : mm'[m] \in Mmio
    BY <1>6
  <2> QED
    BY <1>2, <2>1
<1> QED
  BY <1>0, <1>1, <1>2, <1>3, <1>5, <1>6, <1>7 DEF found, last

\* The ftruncate of a last close.
LEMMA ClosedDisk ==
    ASSUME FdInv, NEW t \in Threads, NEW fd \in Usable, Close(t, fd)
    PROVE  LET last == {m \in InHash(fd_table[fd].ino) : LastReference(m)}
           IN  /\ disk' \in [Inos -> Nat]
               /\ \/ disk' = disk
                  \/ \E m \in last : disk' = [disk EXCEPT ![mm[m].ino] = mm[m].fsize]
<1> DEFINE last == {m \in InHash(fd_table[fd].ino) : LastReference(m)}
           n == CHOOSE m \in last : TRUE
<1>1. disk' = IF last # {} THEN Truncated(n, fd_table[fd].flags) ELSE disk
  BY DEF Close
<1>2. last \subseteq Mmios
  BY DEF FdInv, Types, InHash
<1>3. last # {} => n \in last
  OBVIOUS
<1> HIDE DEF last, n
<1>4. disk' = disk \/ (n \in last /\ disk' = [disk EXCEPT ![mm[n].ino] = mm[n].fsize])
  BY <1>1, <1>3 DEF Truncated
<1>5. n \in last => mm[n].fsize \in Nat
  BY <1>2 DEF FdInv, Types, Mmio
<1>6. disk' \in [Inos -> Nat]
  BY <1>4, <1>5 DEF FdInv, Types
<1> QED
  BY <1>4, <1>6 DEF last

LEMMA FdInvClose ==
    ASSUME FdInv, NEW t \in Threads, NEW fd \in Usable, Close(t, fd)
    PROVE  FdInv' /\ Usable' = Usable \ {fd}
<1> DEFINE found == InHash(fd_table[fd].ino)
           last == {m \in found : LastReference(m)}
<1>1. /\ fd \in Fds /\ fd_table[fd] \in File
      /\ last \subseteq found /\ found \subseteq hash
      /\ hash' = hash \ last /\ pool' = pool \cup last
      /\ mm' \in [Mmios -> Mmio]
      /\ \A m \in Mmios : m \notin found => mm'[m] = mm[m]
      /\ \A m \in found : m \notin last =>
            /\ mm'[m].fsize = mm[m].fsize /\ mm'[m].mapped = mm[m].mapped
      /\ \A m \in last : mm'[m].fsize = 0 /\ mm'[m].mapped = 0
      /\ pc[t] = "idle" /\ pc'[t] = "free"
      /\ loc'[t].fd = fd /\ loc'[t].ino = fd_table[fd].ino
      /\ \A u \in Threads : u # t => pc'[u] = pc[u] /\ loc'[u] = loc[u]
      /\ pc' \in [Threads -> {"idle"} \cup Opening \cup Closing]
      /\ loc' \in [Threads -> Locals]
      /\ UNCHANGED <<kernel, fd_table, exited, size>>
  BY Closed
<1>2. disk' \in [Inos -> Nat]
  BY ClosedDisk
<1> HIDE DEF found, last
<1>3. \A u \in Threads : pc[u] # "idle" => loc[u].fd # fd
  <2> SUFFICES ASSUME NEW u \in Threads, pc[u] # "idle", loc[u].fd = fd PROVE FALSE
    OBVIOUS
  <2>1. Busy(u) /\ fd_table[fd] # NULL
    BY DEF FdInv, BusyThreads, Usable
  <2>2. pc[u] \in Closing
    BY <2>1 DEF Busy, FdInv, Types, Opening, Closing
  <2> QED
    BY <2>2 DEF Usable
<1>4. Usable' = Usable \ {fd}
  BY <1>1, <1>3 DEF Usable, Closing
<1>5. Types'
  BY <1>1, <1>2 DEF FdInv, Types
<1>6. Fits'
  BY <1>1 DEF FdInv, Fits
<1>7. MmioOwned'
  <2>1. \A u \in Threads : \A n \in Mmios : Private(u, n)' <=> Private(u, n)
    BY <1>1 DEF Private
  <2> QED
    BY <1>1, <2>1 DEF FdInv, MmioOwned
<1>8. BusyThreads'
  <2> SUFFICES ASSUME NEW u \in Threads, pc'[u] # "idle" PROVE Busy(u)'
    BY DEF BusyThreads
  <2>1. CASE u = t
    <3>1. fd_table[fd] # NULL
      BY DEF Usable
    <3>2. kernel[fd] = fd_table[fd].ino /\ fd_table[fd].ino \in Inos
      BY <1>1, <3>1 DEF FdInv, FdConsistent, File
    <3> QED
      BY <1>1, <2>1, <3>1, <3>2 DEF Busy, Opening
  <2>2. CASE u # t
    BY <1>1, <2>2 DEF FdInv, BusyThreads, Busy
  <2> QED
    BY <2>1, <2>2
<1>9. FdOwned'
  BY <1>1, <1>3 DEF FdInv, FdOwned
<1>10. FdConsistent'
  BY <1>1, <1>4 DEF FdInv, FdConsistent
<1> QED
  BY <1>4, <1>5, <1>6, <1>7, <1>8, <1>9, <1>10 DEF FdInv

\* The later steps of a close, which concern no mmio.
LEMMA ClosingStep ==
    ASSUME FdInv, NEW t \in Threads, FreeFile(t) \/ Clear(t) \/ KClose(t)
    PROVE  LET fd == loc[t].fd
           IN  /\ Busy(t) /\ fd \in Fds /\ fd \notin Usable /\ pc[t] \in Closing
               /\ pc'[t] \in Closing \cup {"idle"}
               /\ \A u \in Threads : u # t => pc'[u] = pc[u] /\ loc'[u] = loc[u]
               /\ pc' \in [Threads -> {"idle"} \cup Opening \cup Closing]
               /\ loc' \in [Threads -> Locals]
               /\ \A d \in Fds : d # fd => fd_table'[d] = fd_table[d] /\ kernel'[d] = kernel[d]
               /\ fd_table' \in [Fds -> File \cup {NULL}]
               /\ kernel' \in [Fds -> Inos \cup {NULL}]
               /\ UNCHANGED <<disk, mm, hash, pool, exited, size>>
               /\ pc'[t] # "idle" => loc'[t] = loc[t] /\ kernel'[fd] = kernel[fd]
               /\ pc'[t] = "clear" => /\ fd_table'[fd] # NULL /\ fd_table[fd] # NULL
                                      /\ fd_table'[fd].ino = fd_table[fd].ino
               /\ pc'[t] = "idle" \/ pc'[t] = "kclose" => fd_table'[fd] = NULL
               /\ pc'[t] # "free"
<1> DEFINE fd == loc[t].fd
<1>0. Types /\ pc[t] \in {"free", "clear", "kclose"} /\ loc[t] \in Locals
  BY DEF FdInv, FreeFile, Clear, KClose, Types
<1>1. Busy(t) /\ fd \in Fds
  BY <1>0 DEF FdInv, BusyThreads, Busy
<1>2. pc[t] \in Closing /\ fd \notin Usable
  BY <1>0 DEF Closing, Usable
<1>3. NULL \notin File /\ NoLocals \in Locals
  BY FileTableAssumption, IdleLocals
<1>4. CASE FreeFile(t)
  <2> DEFINE f == fd_table[fd]
             x == [f EXCEPT !.freed = TRUE]
  <2>1. /\ pc[t] = "free" /\ fd_table' = [fd_table EXCEPT ![fd] = x]
        /\ pc' = [pc EXCEPT ![t] = "clear"] /\ loc' = [loc EXCEPT ![t] = loc[t]]
        /\ UNCHANGED <<disk, kernel, mm, hash, pool, exited, size>>
    BY <1>4, CloseSteps DEF FreeFile, Step, Goto
  <2>2. f \in File
    BY <1>0, <1>1, <2>1 DEF Types, Busy, Opening
  <2> HIDE DEF f
  <2>3. x \in File /\ x.ino = f.ino
    BY <2>2 DEF File
  <2> HIDE DEF x
  <2>4. /\ fd_table' \in [Fds -> File \cup {NULL}] /\ fd_table'[fd] = x
        /\ \A d \in Fds : d # fd => fd_table'[d] = fd_table[d]
    BY <1>0, <1>1, <2>1, <2>3 DEF Types
  <2>5. /\ pc' \in [Threads -> {"idle"} \cup Opening \cup Closing] /\ loc' \in [Threads -> Locals]
        /\ pc'[t] = "clear" /\ loc'[t] = loc[t]
        /\ \A u \in Threads : u # t => pc'[u] = pc[u] /\ loc'[u] = loc[u]
    BY <1>0, <2>1, Stepped DEF Closing
  <2> QED
    BY <1>0, <1>1, <1>2, <1>3, <2>1, <2>2, <2>3, <2>4, <2>5 DEF f, Types, Closing
<1>5. CASE Clear(t)
  <2>1. /\ pc[t] = "clear" /\ fd_table' = [fd_table EXCEPT ![fd] = NULL]
        /\ pc' = [pc EXCEPT ![t] = "kclose"] /\ loc' = [loc EXCEPT ![t] = loc[t]]
        /\ UNCHANGED <<disk, kernel, mm, hash, pool, exited, size>>
    BY <1>5, CloseSteps DEF Clear, Step, Goto
  <2>2. /\ pc' \in [Threads -> {"idle"} \cup Opening \cup Closing] /\ loc' \in [Threads -> Locals]
        /\ pc'[t] = "kclose" /\ loc'[t] = loc[t]
        /\ \A u \in Threads : u # t => pc'[u] = pc[u] /\ loc'[u] = loc[u]
    BY <1>0, <2>1, Stepped DEF Closing
  <2> QED
    BY <1>0, <1>1, <1>2, <2>1, <2>2 DEF Types, Closing
<1>6. CASE KClose(t)
  <2>1. /\ pc[t] = "kclose" /\ kernel' = [kernel EXCEPT ![fd] = NULL]
        /\ pc' = [pc EXCEPT ![t] = "idle"] /\ loc' = [loc EXCEPT ![t] = NoLocals]
        /\ UNCHANGED <<disk, fd_table, mm, hash, pool, exited, size>>
    BY <1>6, CloseSteps DEF KClose, Step, Goto
  <2>2. /\ pc' \in [Threads -> {"idle"} \cup Opening \cup Closing] /\ loc' \in [Threads -> Locals]
        /\ pc'[t] = "idle"
        /\ \A u \in Threads : u # t => pc'[u] = pc[u] /\ loc'[u] = loc[u]
    BY <1>0, <1>3, <2>1, Stepped
  <2>3. fd_table[fd] = NULL
    BY <1>1, <2>1 DEF Busy
  <2> QED
    BY <1>0, <1>1, <1>2, <2>1, <2>2, <2>3 DEF Types, Closing
<1> QED
  BY <1>4, <1>5, <1>6

LEMMA FdInvClosing ==
    ASSUME FdInv, NEW t \in Threads, FreeFile(t) \/ Clear(t) \/ KClose(t)
    PROVE  FdInv' /\ Usable' = Usable
<1> DEFINE fd == loc[t].fd
<1>1. /\ Busy(t) /\ fd \in Fds /\ fd \notin Usable /\ pc[t] \in Closing
      /\ pc'[t] \in Closing \cup {"idle"}
      /\ \A u \in Threads : u # t => pc'[u] = pc[u] /\ loc'[u] = loc[u]
      /\ pc' \in [Threads -> {"idle"} \cup Opening \cup Closing]
      /\ loc' \in [Threads -> Locals]
      /\ \A d \in Fds : d # fd => fd_table'[d] = fd_table[d] /\ kernel'[d] = kernel[d]
      /\ fd_table' \in [Fds -> File \cup {NULL}]
      /\ kernel' \in [Fds -> Inos \cup {NULL}]
      /\ UNCHANGED <<disk, mm, hash, pool, exited, size>>
      /\ pc'[t] # "idle" => loc'[t] = loc[t] /\ kernel'[fd] = kernel[fd]
      /\ pc'[t] = "clear" => /\ fd_table'[fd] # NULL /\ fd_table[fd] # NULL
                             /\ fd_table'[fd].ino = fd_table[fd].ino
      /\ pc'[t] = "idle" \/ pc'[t] = "kclose" => fd_table'[fd] = NULL
      /\ pc'[t] # "free"
  BY ClosingStep
<1>2. pc[t] # "idle" /\ pc[t] # "put" /\ pc'[t] # "put" /\ pc'[t] \notin Opening
  BY <1>1 DEF Closing, Opening
<1>3. \A u \in Threads : u # t /\ pc[u] # "idle" => loc[u].fd # fd
  BY <1>2 DEF FdInv, FdOwned
<1>4. Usable' = Usable
  <2>1. fd \notin Usable'
    <3>1. CASE pc'[t] = "clear"
      BY <1>1, <3>1 DEF Usable, Closing
    <3>2. CASE pc'[t] # "clear"
      BY <1>1, <3>2 DEF Usable, Closing
    <3> QED
      BY <3>1, <3>2
  <2>2. \A d \in Fds : d # fd => (d \in Usable' <=> d \in Usable)
    <3> SUFFICES ASSUME NEW d \in Fds, d # fd PROVE d \in Usable' <=> d \in Usable
      OBVIOUS
    <3>1. \A u \in Threads : (pc'[u] \in Closing => loc'[u].fd # d)
                             <=> (pc[u] \in Closing => loc[u].fd # d)
      BY <1>1 DEF Closing
    <3> QED
      BY <1>1, <3>1 DEF Usable
  <2>3. Usable \subseteq Fds /\ Usable' \subseteq Fds
    BY DEF Usable
  <2> QED
    BY <1>1, <2>1, <2>2, <2>3
<1>5. Types' /\ Fits'
  BY <1>1 DEF FdInv, Types, Fits
<1>6. MmioOwned'
  <2>1. \A u \in Threads : \A n \in Mmios : Private(u, n)' <=> Private(u, n)
    BY <1>1, <1>2 DEF Private
  <2> QED
    BY <1>1, <2>1 DEF FdInv, MmioOwned
<1>7. BusyThreads'
  <2> SUFFICES ASSUME NEW u \in Threads, pc'[u] # "idle" PROVE Busy(u)'
    BY DEF BusyThreads
  <2>1. CASE u = t
    BY <1>1, <1>2, <2>1 DEF Busy, Closing, Opening
  <2>2. CASE u # t
    <3>1. Busy(u) /\ loc[u].fd # fd
      BY <1>1, <1>3, <2>2 DEF FdInv, BusyThreads
    <3> QED
      BY <1>1, <2>2, <3>1 DEF Busy
  <2> QED
    BY <2>1, <2>2
<1>8. FdOwned'
  BY <1>1, <1>2, <1>3 DEF FdInv, FdOwned
<1>9. FdConsistent'
  <2> SUFFICES ASSUME NEW d \in Fds, fd_table'[d] # NULL
               PROVE  /\ kernel'[d] = fd_table'[d].ino
                      /\ d \in Usable' => ~fd_table'[d].freed
    BY DEF FdConsistent
  <2>1. CASE d = fd
    <3>1. pc'[t] = "clear"
      BY <1>1, <2>1 DEF Closing
    <3>2. fd_table[fd] # NULL
      BY <1>1, <3>1 DEF Busy
    <3> QED
      BY <1>1, <1>4, <2>1, <3>1, <3>2 DEF FdInv, FdConsistent
  <2>2. CASE d # fd
    BY <1>1, <1>4, <2>2 DEF FdInv, FdConsistent
  <2> QED
    BY <2>1, <2>2
<1> QED
  BY <1>4, <1>5, <1>6, <1>7, <1>8, <1>9 DEF FdInv

LEMMA FdInvInit == Init => FdInv
<1> SUFFICES ASSUME Init PROVE FdInv
  OBVIOUS
<1>1. Types
  BY FileTableAssumption, IdleLocals DEF Init, Types, FreeMmio, Mmio
<1>2. Fits /\ MmioOwned /\ BusyThreads /\ FdOwned /\ FdConsistent
  BY DEF Init, Fits, FreeMmio, MmioOwned, Private, BusyThreads, FdOwned, FdConsistent
<1> QED
  BY <1>1, <1>2 DEF FdInv

LEMMA FdInvNext == FdInv /\ [Next]_vars => FdInv'
<1> SUFFICES ASSUME FdInv, [Next]_vars PROVE FdInv'
  OBVIOUS
<1>1. CASE UNCHANGED vars
  BY <1>1, FdInvQuiet DEF vars
<1>2. ASSUME NEW t \in Threads, ThreadStep(t) PROVE FdInv'
  BY <1>2, FdInvLookup, FdInvMap, FdInvPut, FdInvInstall, FdInvClosing, FdInvQuiet
     DEF ThreadStep, MapFails, End
<1>3. ASSUME NEW t \in Threads, OpenFails(t) PROVE FdInv'
  BY <1>3, FdInvQuiet DEF OpenFails, End
<1>4. ASSUME NEW t \in Threads, NEW ino \in Inos, NEW flags \in Modes, Open(t, ino, flags)
      PROVE FdInv'
  BY <1>4, FdInvOpen
<1>5. ASSUME NEW t \in Threads, NEW fd \in Usable, Close(t, fd) PROVE FdInv'
  BY <1>5, FdInvClose
<1>6. ASSUME NEW fd \in Usable, NEW len \in 1 .. MaxSize,
             Read(fd, len) \/ Write(fd, len) \/ WriteFails(fd, len)
      PROVE  FdInv'
  BY <1>6, FdInvRead, FdInvWrite, FdInvQuiet DEF WriteFails, End
<1>7. ASSUME NEW fd \in Usable, NEW to \in 0 .. MaxSize, Seek(fd, to) PROVE FdInv'
  BY <1>7, FdInvSeek, FdInvQuiet DEF Seek, End
<1> QED
  BY <1>1, <1>2, <1>3, <1>4, <1>5, <1>6, <1>7 DEF Next

LEMMA FdInvAlways == Spec => []FdInv
BY FdInvInit, FdInvNext, PTL DEF Spec

\* Every variable has its type, an mmio's file fits its mapping, and no mmio
\* is free while the hash has it, however opens and closes overlap.
THEOREM TypeCorrect == Spec => []TypeOK
<1>1. FdInv => TypeOK
  BY DEF FdInv, Types, Fits, MmioOwned, TypeOK, Mmio
<1> QED
  BY <1>1, FdInvAlways, PTL

\* fd_table agrees with the kernel and has no freed file that could be used,
\* however opens and closes overlap: close frees and clears the file before
\* the kernel can give the descriptor to another open.
THEOREM DescriptorsAgree == Spec => []FdConsistent
<1>1. FdInv => FdConsistent
  BY DEF FdInv
<1> QED
  BY <1>1, FdInvAlways, PTL

-----------------------------------------------------------------------------
(* Second layer.                                                            *)

LEMMA Holder ==
    ASSUME NEW m, NEW h
    PROVE  h \in Holders(m) <=>
              \/ \E fd \in Usable : fd_table[fd].mmio = m /\ h = <<"file", fd>>
              \/ \E u \in Threads : pc[u] = "install" /\ loc[u].mmio = m /\ h = <<"open", u>>
BY DEF Holders

LEMMA HoldersFinite == \A m : IsFiniteSet(Holders(m)) /\ Cardinality(Holders(m)) \in Nat
<1> TAKE m
<1> DEFINE kinds == {"file", "open"}
           S == kinds \X (Fds \cup Threads)
<1>1. IsFiniteSet(kinds)
  <2>1. kinds = {"file"} \cup {"open"}
    OBVIOUS
  <2>2. IsFiniteSet({"file"}) /\ IsFiniteSet({"open"})
    BY FS_Singleton
  <2> QED
    BY <2>1, <2>2, FS_Union
<1>2. IsFiniteSet(Fds \cup Threads)
  BY FileTableAssumption, FS_Union
<1>3. IsFiniteSet(S)
  BY <1>1, <1>2, FS_Product
<1>4. Holders(m) \subseteq S
  <2> SUFFICES ASSUME NEW h \in Holders(m) PROVE h \in S
    OBVIOUS
  <2>1. \/ \E fd \in Usable : h = <<"file", fd>>
        \/ \E u \in Threads : h = <<"open", u>>
    BY Holder
  <2>2. Usable \subseteq Fds
    BY DEF Usable
  <2> QED
    BY <2>1, <2>2
<1> HIDE DEF S
<1>5. IsFiniteSet(Holders(m))
  BY <1>3, <1>4, FS_Subset
<1> QED
  BY <1>5, FS_CardinalityType

\* A mapping in use stays in use when an action concerns no user of it.
LEMMA UseInvSame ==
    ASSUME UseInv, Usable' = Usable, hash' = hash, mm' \in [Mmios -> Mmio], Types,
           \A m \in Mmios : mm'[m].ino = mm[m].ino /\ mm'[m].ref = mm[m].ref,
           \A u \in Threads :
              /\ pc'[u] \in Opening <=> pc[u] \in Opening
              /\ pc[u] \in Opening => pc'[u] = pc[u] /\ loc'[u] = loc[u],
           \A fd \in Usable : /\ fd_table'[fd].mmio = fd_table[fd].mmio
                              /\ fd_table'[fd].ino = fd_table[fd].ino,
           PosInFile',
           \A u \in Threads : pc[u] \in {"put", "install"} => loc[u].mmio \in Mmios
    PROVE  UseInv'
<1>0. {"map", "put", "install"} \subseteq Opening /\ hash \subseteq Mmios
  BY DEF Opening, Types
<1>1. \A ino : InHash(ino)' = InHash(ino)
  BY <1>0 DEF InHash
<1>2. \A m : Holders(m)' = Holders(m)
  <2> TAKE m
  <2>1. \A h : h \in Holders(m)' <=> h \in Holders(m)
    <3> TAKE h
    <3>1. h \in Holders(m)' <=>
              \/ \E fd \in Usable' : fd_table'[fd].mmio = m /\ h = <<"file", fd>>
              \/ \E u \in Threads : pc'[u] = "install" /\ loc'[u].mmio = m /\ h = <<"open", u>>
      BY DEF Holders
    <3> QED
      BY <1>0, <3>1, Holder
  <2> QED
    BY <2>1
<1>3. OneOpener' /\ HashUnique' /\ Absent'
  <2>1. OneOpener'
    BY DEF UseInv, OneOpener
  <2>2. HashUnique'
    BY <1>0 DEF UseInv, HashUnique
  <2>3. Absent'
    BY <1>0, <1>1 DEF UseInv, Absent
  <2> QED
    BY <2>1, <2>2, <2>3
<1>4. PutOwn' /\ OpenLive'
  BY <1>0 DEF UseInv, PutOwn, OpenLive
<1>5. FileLive'
  BY <1>0 DEF UseInv, FileLive
<1>6. Counts'
  BY <1>2 DEF UseInv, Counts
<1> QED
  BY <1>3, <1>4, <1>5, <1>6 DEF UseInv

\* Calls on a descriptor.
LEMMA UseInvQuiet ==
    ASSUME FdInv, UseInv, UNCHANGED <<kernel, fd_table, mm, hash, pool, pc, loc>>
    PROVE  UseInv'
BY DEF UseInv, OneOpener, HashUnique, Absent, InHash, PutOwn, OpenLive, FileLive, Counts,
       Holders, PosInFile, Usable

LEMMA PutsMmio ==
    ASSUME FdInv, NEW u \in Threads, pc[u] \in {"put", "install"}
    PROVE  loc[u].mmio \in Mmios
BY DEF FdInv, BusyThreads, Busy

LEMMA UseInvMove ==
    ASSUME FdInv, UseInv, NEW fd \in Usable, NEW pos \in Nat, SetPos(fd, pos),
           UNCHANGED <<kernel, hash, pc, loc>>, mm' \in [Mmios -> Mmio],
           \A m \in Mmios : /\ mm'[m].ino = mm[m].ino /\ mm'[m].ref = mm[m].ref
                            /\ mm'[m].fsize >= mm[m].fsize,
           pos <= mm'[fd_table[fd].mmio].fsize
    PROVE  UseInv'
<1>0. Types
  BY DEF FdInv
<1>1. /\ \A d \in Fds : d # fd => fd_table'[d] = fd_table[d]
      /\ fd_table[fd] \in File /\ fd_table'[fd] \in File
      /\ fd_table'[fd].mmio = fd_table[fd].mmio /\ fd_table'[fd].ino = fd_table[fd].ino
      /\ fd_table'[fd].pos = pos
      /\ \A d \in Fds : fd_table'[d] = NULL <=> fd_table[d] = NULL
  BY <1>0, Moved
<1>2. Usable' = Usable /\ Usable \subseteq Fds
  BY <1>1 DEF Usable
<1>3. PosInFile'
  <2> SUFFICES ASSUME NEW d \in Usable
               PROVE  fd_table'[d].pos <= mm'[fd_table'[d].mmio].fsize
    BY <1>2 DEF PosInFile
  <2>1. CASE d = fd
    BY <1>1, <2>1
  <2>2. CASE d # fd
    <3>1. fd_table'[d] = fd_table[d] /\ fd_table[d] \in File
      BY <1>0, <1>1, <1>2, <2>2 DEF Types, Usable
    <3>2. fd_table[d].mmio \in Mmios /\ fd_table[d].pos \in Nat
      BY <3>1 DEF File
    <3>3. /\ mm[fd_table[d].mmio].fsize \in Nat /\ mm'[fd_table[d].mmio].fsize \in Nat
      BY <1>0, <3>2 DEF Types, Mmio
    <3>4. fd_table[d].pos <= mm[fd_table[d].mmio].fsize
      BY DEF UseInv, PosInFile
    <3> QED
      BY <3>1, <3>2, <3>3, <3>4
  <2> QED
    BY <2>1, <2>2
<1>4. \A d \in Usable : /\ fd_table'[d].mmio = fd_table[d].mmio
                        /\ fd_table'[d].ino = fd_table[d].ino
  BY <1>1, <1>2
<1>5. \A u \in Threads : pc[u] \in {"put", "install"} => loc[u].mmio \in Mmios
  BY PutsMmio
<1> QED
  BY <1>0, <1>2, <1>3, <1>4, <1>5, UseInvSame

LEMMA UseInvRead ==
    ASSUME FdInv, UseInv, NEW fd \in Usable, NEW len \in 1 .. MaxSize, Read(fd, len)
    PROVE  UseInv'
<1> DEFINE m == fd_table[fd].mmio
           pos == Smaller(fd_table[fd].pos + len, mm[m].fsize)
<1>1. Types /\ fd_table[fd] \in File
  BY DEF FdInv, Types, Usable
<1>2. /\ pos \in Nat /\ SetPos(fd, pos) /\ pos <= mm[m].fsize
  BY <1>1, FileTableAssumption DEF Types, File, Mmio, Smaller, Read
<1>3. UNCHANGED <<kernel, hash, pool, pc, loc, disk, size, mm>>
  BY DEF Read
<1>4. \A n \in Mmios : mm[n].fsize \in Nat
  BY <1>1 DEF Types, Mmio
<1> HIDE DEF pos
<1> QED
  BY <1>1, <1>2, <1>3, <1>4, UseInvMove DEF Types

LEMMA UseInvSeek ==
    ASSUME FdInv, UseInv, NEW fd \in Usable, NEW to \in 0 .. MaxSize, ~Beyond(fd, to),
           SetPos(fd, to), UNCHANGED <<disk, kernel, mm, hash, pool, pc, loc, size>>
    PROVE  UseInv'
<1>1. Types /\ fd_table[fd] \in File
  BY DEF FdInv, Types, Usable
<1>2. to \in Nat
  BY FileTableAssumption
<1>3. \A n \in Mmios : mm[n].fsize \in Nat
  BY <1>1 DEF Types, Mmio
<1>4. fd_table[fd].mmio \in Mmios
  BY <1>1 DEF File
<1>5. to <= mm[fd_table[fd].mmio].fsize
  BY <1>2, <1>3, <1>4 DEF Beyond
<1> QED
  BY <1>1, <1>2, <1>3, <1>5, UseInvMove DEF Types

LEMMA UseInvWrite ==
    ASSUME FdInv, UseInv, NEW fd \in Usable, NEW len \in 1 .. MaxSize, Write(fd, len)
    PROVE  UseInv'
<1> DEFINE f == fd_table[fd]
           end == f.pos + len
           m == f.mmio
<1>0. Types
  BY DEF FdInv
<1>1. /\ m \in Mmios /\ end \in Nat /\ SetPos(fd, end) /\ mm' \in [Mmios -> Mmio]
      /\ \A n \in Mmios : n # m => mm'[n] = mm[n]
      /\ mm'[m].ref = mm[m].ref /\ mm'[m].ino = mm[m].ino
      /\ mm'[m].fsize = NewSize(mm[m].fsize, end)
  BY <1>0, Written
<1>2. UNCHANGED <<kernel, hash, pool, pc, loc>>
  BY DEF Write
<1> HIDE DEF end
<1>3. \A n \in Mmios : mm[n].fsize \in Nat
  BY <1>0 DEF Types, Mmio
<1>4. mm'[m].fsize >= end /\ mm'[m].fsize >= mm[m].fsize
  BY <1>1, <1>3 DEF NewSize
<1>5. \A n \in Mmios : /\ mm'[n].ino = mm[n].ino /\ mm'[n].ref = mm[n].ref
                       /\ mm'[n].fsize >= mm[n].fsize
  BY <1>1, <1>3, <1>4
<1>6. end <= mm'[m].fsize
  BY <1>1, <1>3 DEF NewSize
<1> QED
  BY <1>1, <1>2, <1>5, <1>6, UseInvMove

\* The end of a close, which concerns no mmio.
LEMMA UseInvClosing ==
    ASSUME FdInv, UseInv, NEW t \in Threads, FreeFile(t) \/ Clear(t) \/ KClose(t)
    PROVE  UseInv'
<1>1. /\ loc[t].fd \notin Usable /\ pc[t] \in Closing
      /\ pc'[t] \in Closing \cup {"idle"}
      /\ \A u \in Threads : u # t => pc'[u] = pc[u] /\ loc'[u] = loc[u]
      /\ \A d \in Fds : d # loc[t].fd => fd_table'[d] = fd_table[d]
      /\ UNCHANGED <<disk, mm, hash, pool, exited, size>>
  BY ClosingStep
<1>2. Usable' = Usable
  BY FdInvClosing
<1>3. Usable \subseteq Fds
  BY DEF Usable
<1>4. \A d \in Usable : fd_table'[d] = fd_table[d]
  BY <1>1, <1>3
<1>5. pc[t] \notin Opening /\ pc'[t] \notin Opening
  BY <1>1 DEF Opening, Closing
<1>6. PosInFile'
  BY <1>1, <1>2, <1>4 DEF UseInv, PosInFile
<1>7. \A u \in Threads : pc[u] \in {"put", "install"} => loc[u].mmio \in Mmios
  BY PutsMmio
<1>8. Types
  BY DEF FdInv
<1>9. mm' \in [Mmios -> Mmio]
  BY <1>1, <1>8 DEF Types
<1>10. \A u \in Threads : /\ pc'[u] \in Opening <=> pc[u] \in Opening
                          /\ pc[u] \in Opening => pc'[u] = pc[u] /\ loc'[u] = loc[u]
  BY <1>1, <1>5
<1> QED
  BY <1>1, <1>2, <1>4, <1>6, <1>7, <1>8, <1>9, <1>10, UseInvSame

\* An open that has not found its mmio yet holds none.
LEMMA HoldersSame ==
    ASSUME Usable' = Usable, fd_table' = fd_table,
           \A u \in Threads : /\ pc'[u] = "install" <=> pc[u] = "install"
                              /\ pc[u] = "install" => loc'[u].mmio = loc[u].mmio
    PROVE  \A m : Holders(m)' = Holders(m)
<1> TAKE m
<1>1. \A h : h \in Holders(m)' <=> h \in Holders(m)
  <2> TAKE h
  <2>1. h \in Holders(m)' <=>
            \/ \E fd \in Usable' : fd_table'[fd].mmio = m /\ h = <<"file", fd>>
            \/ \E u \in Threads : pc'[u] = "install" /\ loc'[u].mmio = m /\ h = <<"open", u>>
    BY DEF Holders
  <2> QED
    BY <2>1, Holder
<1> QED
  BY <1>1

\* A thread that has its mmio holds it.
LEMMA HoldersPlus ==
    ASSUME Usable' = Usable, fd_table' = fd_table, NEW t \in Threads, pc[t] # "install",
           pc'[t] = "install",
           \A u \in Threads : u # t => pc'[u] = pc[u] /\ loc'[u] = loc[u]
    PROVE  \A m : /\ m = loc'[t].mmio =>
                        Cardinality(Holders(m)') = Cardinality(Holders(m)) + 1
                  /\ m # loc'[t].mmio => Holders(m)' = Holders(m)
<1> TAKE m
<1>0. \A h : h \in Holders(m)' <=>
            \/ \E fd \in Usable' : fd_table'[fd].mmio = m /\ h = <<"file", fd>>
            \/ \E u \in Threads : pc'[u] = "install" /\ loc'[u].mmio = m /\ h = <<"open", u>>
  BY DEF Holders
<1>1. CASE m = loc'[t].mmio
  <2>1. \A h : h \in Holders(m)' <=> h \in Holders(m) \/ h = <<"open", t>>
    BY <1>0, <1>1, Holder
  <2>2. Holders(m)' = Holders(m) \cup {<<"open", t>>}
    BY <2>1
  <2>3. <<"open", t>> \notin Holders(m)
    BY Holder
  <2>4. IsFiniteSet(Holders(m))
    BY HoldersFinite
  <2>5. Cardinality(Holders(m) \cup {<<"open", t>>}) = Cardinality(Holders(m)) + 1
    BY <2>3, <2>4, FS_AddElement
  <2> QED
    BY <1>1, <2>2, <2>5
<1>2. CASE m # loc'[t].mmio
  <2>1. \A h : h \in Holders(m)' <=> h \in Holders(m)
    BY <1>0, <1>2, Holder
  <2> QED
    BY <1>2, <2>1
<1> QED
  BY <1>1, <1>2

LEMMA UseInvOpen ==
    ASSUME SerialOpens, FdInv, UseInv, NEW t \in Threads, NEW ino \in Inos, NEW flags \in Modes,
           Open(t, ino, flags)
    PROVE  UseInv'
<1>0. Types
  BY DEF FdInv
<1>1. PICK l \in Locals :
         /\ l.ino = ino
         /\ loc' = [loc EXCEPT ![t] = l] /\ pc' = [pc EXCEPT ![t] = "lookup"]
  BY <1>0, Opened
<1>2. /\ pc[t] = "idle" /\ UNCHANGED <<disk, fd_table, mm, hash, pool, exited, size>>
      /\ \A u \in Threads : ~(pc[u] \in Opening /\ loc[u].ino = ino)
  BY DEF Open
<1>3. /\ pc'[t] = "lookup" /\ loc'[t] = l
      /\ \A u \in Threads : u # t => pc'[u] = pc[u] /\ loc'[u] = loc[u]
  BY <1>0, <1>1, Stepped DEF Opening
<1>4. Usable' = Usable
  BY <1>2, <1>3 DEF Usable, Closing
<1>5. \A m : Holders(m)' = Holders(m)
  <2>1. \A u \in Threads : /\ pc'[u] = "install" <=> pc[u] = "install"
                           /\ pc[u] = "install" => loc'[u].mmio = loc[u].mmio
    BY <1>2, <1>3
  <2> QED
    BY <1>2, <1>4, <2>1, HoldersSame
<1>6. OneOpener'
  BY <1>1, <1>2, <1>3 DEF UseInv, OneOpener
<1>7. HashUnique' /\ PosInFile' /\ FileLive'
  BY <1>2, <1>4 DEF UseInv, HashUnique, PosInFile, FileLive
<1>8. Absent' /\ PutOwn' /\ OpenLive'
  <2>1. \A i : InHash(i)' = InHash(i)
    BY <1>2 DEF InHash
  <2> QED
    BY <1>2, <1>3, <2>1 DEF UseInv, Absent, PutOwn, OpenLive
<1>9. Counts'
  BY <1>2, <1>5 DEF UseInv, Counts
<1> QED
  BY <1>6, <1>7, <1>8, <1>9 DEF UseInv

LEMMA UseInvLookup ==
    ASSUME FdInv, UseInv, NEW t \in Threads, Lookup(t)
    PROVE  UseInv'
<1>0. Types /\ pc[t] = "lookup" /\ pc[t] \in Opening /\ loc[t] \in Locals
  BY DEF FdInv, Lookup, Opening, Types
<1>1. UNCHANGED <<disk, kernel, fd_table, hash, pool, exited, size>>
  BY DEF Lookup
<1>2. CASE InHash(loc[t].ino) # {}
  <2>1. PICK m \in InHash(loc[t].ino), x \in Mmio, l \in Locals :
              /\ mm' = [mm EXCEPT ![m] = x] /\ mm[m] \in Mmio
              /\ x.ref = mm[m].ref + 1 /\ x.ino = mm[m].ino
              /\ x.fsize = mm[m].fsize /\ x.mapped = mm[m].mapped
              /\ loc' = [loc EXCEPT ![t] = l] /\ pc' = [pc EXCEPT ![t] = "install"]
              /\ l.fd = loc[t].fd /\ l.ino = loc[t].ino /\ l.flags = loc[t].flags /\ l.mmio = m
    BY <1>0, <1>2, LookedUp
  <2>2. m \in Mmios /\ m \in hash /\ mm[m].ino = loc[t].ino
    BY <1>0, <2>1 DEF InHash, Types
  <2>3. /\ pc'[t] = "install" /\ loc'[t] = l /\ Usable' = Usable
        /\ \A u \in Threads : u # t => pc'[u] = pc[u] /\ loc'[u] = loc[u]
    <3>1. "install" \in Opening
      BY DEF Opening
    <3> QED
      BY <1>0, <1>1, <2>1, <2>2, <3>1, FdInvOpening
  <2>4. \A n \in Mmios : mm'[n] = IF n = m THEN x ELSE mm[n]
    BY <1>0, <2>1, <2>2, MmioUpdate
  <2>5. \A n \in Mmios : mm'[n].ino = mm[n].ino /\ mm'[n].fsize = mm[n].fsize
    BY <2>1, <2>4
  <2>6. hash \subseteq Mmios
    BY <1>0 DEF Types
  <2>7. \A i : InHash(i)' = InHash(i)
    BY <1>1, <2>5, <2>6 DEF InHash
  <2>8. OneOpener' /\ Absent'
    BY <1>0, <2>1, <2>3, <2>7 DEF UseInv, OneOpener, Absent
  <2>9. HashUnique'
    <3>1. mm[m].ref \in Int /\ mm[m].ref > 0
      BY <2>1, <2>2 DEF UseInv, HashUnique, Mmio
    <3>2. \A n \in hash : mm'[n].ref > 0
      BY <2>1, <2>4, <2>6, <3>1 DEF UseInv, HashUnique
    <3> QED
      BY <1>1, <2>5, <2>6, <3>2 DEF UseInv, HashUnique
  <2>10. PutOwn'
    <3>1. \A u \in Threads : pc'[u] = "put" => pc[u] = "put" /\ loc[u].mmio \in Mmios /\ u # t
      BY <2>3, PutsMmio
    <3> QED
      BY <2>3, <2>5, <3>1 DEF UseInv, PutOwn
  <2>11. OpenLive'
    BY <1>1, <2>1, <2>2, <2>3, <2>5, <2>6 DEF UseInv, OpenLive
  <2>12. FileLive'
    BY <1>1, <2>3, <2>5, <2>6 DEF UseInv, FileLive
  <2>13. PosInFile'
    BY <1>1, <2>3, <2>5, <2>6 DEF UseInv, PosInFile, FileLive
  <2>14. Counts'
    <3>1. \A n : /\ n = m => Cardinality(Holders(n)') = Cardinality(Holders(n)) + 1
                 /\ n # m => Holders(n)' = Holders(n)
      BY <1>0, <1>1, <2>1, <2>3, HoldersPlus
    <3>2. Cardinality(Holders(m)') = Cardinality(Holders(m)) + 1
      BY <3>1
    <3>3. mm'[m].ref = Cardinality(Holders(m)')
      BY <2>1, <2>2, <2>4, <3>2 DEF UseInv, Counts
    <3>4. \A n \in Mmios : mm'[n].ref = Cardinality(Holders(n)')
      BY <2>4, <3>1, <3>3 DEF UseInv, Counts
    <3> QED
      BY <3>4 DEF Counts
  <2> QED
    BY <2>8, <2>9, <2>10, <2>11, <2>12, <2>13, <2>14 DEF UseInv
<1>3. CASE InHash(loc[t].ino) = {}
  <2>1. /\ pc' = [pc EXCEPT ![t] = "map"] /\ UNCHANGED <<mm, loc>>
    BY <1>3 DEF Lookup, Goto
  <2>2. pc'[t] = "map" /\ \A u \in Threads : u # t => pc'[u] = pc[u]
    BY <1>0, <2>1 DEF Types
  <2>3. Usable' = Usable
    BY <1>0, <1>1, <2>1, <2>2 DEF Usable, Closing
  <2>4. \A m : Holders(m)' = Holders(m)
    BY <1>0, <1>1, <2>1, <2>2, <2>3, HoldersSame
  <2>5. \A i : InHash(i)' = InHash(i)
    BY <1>1, <2>1 DEF InHash
  <2>6. "map" \in Opening
    BY DEF Opening
  <2>7. OneOpener' /\ Absent' /\ PutOwn' /\ OpenLive'
    BY <1>0, <1>1, <1>3, <2>1, <2>2, <2>5, <2>6 DEF UseInv, OneOpener, Absent, PutOwn, OpenLive
  <2>8. HashUnique' /\ FileLive' /\ PosInFile' /\ Counts'
    BY <1>1, <2>1, <2>3, <2>4 DEF UseInv, HashUnique, FileLive, PosInFile, Counts
  <2> QED
    BY <2>7, <2>8 DEF UseInv
<1> QED
  BY <1>2, <1>3

\* Nobody holds an mmio outside the hash, so its count is 0.
LEMMA Unheld ==
    ASSUME UseInv, NEW m \in Mmios, m \notin hash
    PROVE  Holders(m) = {} /\ mm[m].ref = 0
<1>1. Holders(m) = {}
  <2> SUFFICES ASSUME NEW h \in Holders(m) PROVE FALSE
    OBVIOUS
  <2> QED
    BY Holder DEF UseInv, FileLive, OpenLive
<1> QED
  BY <1>1, FS_EmptySet DEF UseInv, Counts

LEMMA UseInvMap ==
    ASSUME FdInv, UseInv, NEW t \in Threads, Map(t)
    PROVE  UseInv'
<1>0. Types /\ pc[t] = "map" /\ pc[t] \in Opening /\ pc[t] # "idle"
  BY DEF FdInv, Map, Opening
<1>1. Busy(t)
  BY <1>0 DEF FdInv, BusyThreads
<1>2. PICK m \in pool, x \in Mmio, l \in Locals :
         /\ pool' = pool \ {m} /\ mm' = [mm EXCEPT ![m] = x]
         /\ x.ref = mm[m].ref /\ x.ino = loc[t].ino
         /\ loc' = [loc EXCEPT ![t] = l] /\ pc' = [pc EXCEPT ![t] = "put"]
         /\ l.fd = loc[t].fd /\ l.ino = loc[t].ino /\ l.flags = loc[t].flags /\ l.mmio = m
  BY <1>0, <1>1, Mapped DEF Busy
<1>3. m \in Mmios /\ m \notin hash /\ hash \subseteq Mmios
  BY <1>0 DEF Types, FdInv, MmioOwned
<1>4. UNCHANGED <<kernel, fd_table, hash, exited, size>>
  BY DEF Map
<1>5. "put" \in Opening
  BY DEF Opening
<1>6. /\ pc'[t] = "put" /\ loc'[t] = l /\ Usable' = Usable
      /\ \A u \in Threads : u # t => pc'[u] = pc[u] /\ loc'[u] = loc[u]
  BY <1>0, <1>2, <1>3, <1>4, <1>5, FdInvOpening
<1>7. \A n \in Mmios : mm'[n] = IF n = m THEN x ELSE mm[n]
  BY <1>0, <1>2, <1>3, MmioUpdate
<1>8. \A n \in hash : mm'[n] = mm[n]
  BY <1>3, <1>7
<1>9. \A i : InHash(i)' = InHash(i)
  BY <1>4, <1>8 DEF InHash
<1>10. \A n : Holders(n)' = Holders(n)
  BY <1>0, <1>4, <1>6, HoldersSame
<1>11. OneOpener' /\ Absent'
  <2>1. \A u \in Threads : /\ loc'[u].ino = loc[u].ino
                           /\ pc'[u] \in Opening <=> pc[u] \in Opening
                           /\ pc'[u] \in {"map", "put"} <=> pc[u] \in {"map", "put"}
    BY <1>0, <1>2, <1>5, <1>6
  <2> QED
    BY <1>9, <2>1 DEF UseInv, OneOpener, Absent
<1>12. HashUnique' /\ FileLive' /\ PosInFile'
  BY <1>4, <1>6, <1>8 DEF UseInv, HashUnique, FileLive, PosInFile
<1>13. OpenLive'
  BY <1>0, <1>4, <1>6, <1>8 DEF UseInv, OpenLive
<1>14. PutOwn'
  <2> SUFFICES ASSUME NEW u \in Threads, pc'[u] = "put"
               PROVE  mm'[loc'[u].mmio].ino = loc'[u].ino
    BY DEF PutOwn
  <2>1. CASE u = t
    BY <1>2, <1>3, <1>6, <1>7, <2>1
  <2>2. CASE u # t
    <3>1. pc[u] = "put" /\ loc'[u] = loc[u] /\ loc[u].mmio \in Mmios
      BY <1>6, <2>2, PutsMmio
    <3>2. Private(u, loc[u].mmio)
      BY <3>1 DEF Private
    <3>3. loc[u].mmio # m
      BY <3>1, <3>2 DEF FdInv, MmioOwned
    <3> QED
      BY <1>7, <3>1, <3>3 DEF UseInv, PutOwn
  <2> QED
    BY <2>1, <2>2
<1>15. Counts'
  BY <1>2, <1>7, <1>10 DEF UseInv, Counts
<1> QED
  BY <1>11, <1>12, <1>13, <1>14, <1>15 DEF UseInv

LEMMA UseInvPut ==
    ASSUME FdInv, UseInv, NEW t \in Threads, Put(t)
    PROVE  UseInv'
<1>m. PICK m : m = loc[t].mmio
  OBVIOUS
<1>0. /\ Types /\ pc[t] = "put" /\ pc[t] \in Opening /\ pc[t] # "idle"
      /\ loc[t] \in Locals /\ "install" \in Opening
  BY DEF FdInv, Put, Opening, Types
<1>1. m \in Mmios /\ Busy(t) /\ loc[t].ino \in Inos
  BY <1>m, <1>0 DEF FdInv, BusyThreads, Busy
<1>2. UNCHANGED <<disk, kernel, fd_table, pool, exited, size>>
  BY DEF Put
<1>3. InHash(loc[t].ino) = {} /\ mm[m].ino = loc[t].ino
  BY <1>m, <1>0 DEF UseInv, Absent, PutOwn
<1>4. m \notin hash
  BY <1>3 DEF InHash
<1>5. PICK x \in Mmio :
         /\ mm' = [mm EXCEPT ![m] = x]
         /\ x.ref = mm[m].ref + 1 /\ x.ino = mm[m].ino
         /\ x.fsize = mm[m].fsize /\ x.mapped = mm[m].mapped
         /\ hash' = hash \cup {m}
         /\ loc' = [loc EXCEPT ![t] = loc[t]] /\ pc' = [pc EXCEPT ![t] = "install"]
  BY <1>m, <1>0, <1>1, <1>3, PutFirst
<1>6. /\ pc'[t] = "install" /\ loc'[t] = loc[t] /\ Usable' = Usable
      /\ \A u \in Threads : u # t => pc'[u] = pc[u] /\ loc'[u] = loc[u]
  BY <1>m, <1>0, <1>1, <1>2, <1>5, FdInvOpening
<1>7. \A n \in Mmios : mm'[n] = IF n = m THEN x ELSE mm[n]
  BY <1>0, <1>1, <1>5, MmioUpdate
<1>8. \A n \in Mmios : mm'[n].ino = mm[n].ino /\ mm'[n].fsize = mm[n].fsize
  BY <1>5, <1>7
<1>9. hash \subseteq Mmios
  BY <1>0 DEF Types
<1>10. Holders(m) = {} /\ mm[m].ref = 0
  BY <1>1, <1>4, Unheld
<1>11. OneOpener'
  BY <1>0, <1>6 DEF UseInv, OneOpener
<1>12. HashUnique'
  <2>1. \A n \in hash : n # m /\ mm'[n] = mm[n] /\ mm[n].ino # loc[t].ino
    BY <1>3, <1>4, <1>7, <1>9 DEF InHash
  <2>2. mm'[m].ref > 0 /\ mm'[m].ino = loc[t].ino
    BY <1>1, <1>3, <1>5, <1>7, <1>10
  <2>3. \A n \in hash' : mm'[n].ino \in Inos /\ mm'[n].ref > 0
    BY <1>1, <1>5, <2>1, <2>2 DEF UseInv, HashUnique
  <2>4. \A n, k \in hash' : mm'[n].ino = mm'[k].ino => n = k
    BY <1>5, <2>1, <2>2 DEF UseInv, HashUnique
  <2> QED
    BY <2>3, <2>4 DEF HashUnique
<1>13. Absent'
  <2> SUFFICES ASSUME NEW u \in Threads, pc'[u] \in {"map", "put"},
                      NEW n \in hash', mm'[n].ino = loc'[u].ino
               PROVE  FALSE
    BY DEF Absent, InHash
  <2>1. u # t /\ pc[u] \in {"map", "put"} /\ loc'[u] = loc[u]
    BY <1>6
  <2>2. loc[u].ino # loc[t].ino
    BY <1>0, <2>1 DEF UseInv, OneOpener, Opening
  <2>3. n \in hash
    BY <1>1, <1>3, <1>5, <1>8, <2>1, <2>2
  <2>4. mm[n].ino = loc[u].ino
    BY <1>8, <1>9, <2>1, <2>3
  <2> QED
    BY <2>1, <2>3, <2>4 DEF UseInv, Absent, InHash
<1>14. PutOwn'
  <2>1. \A u \in Threads : pc'[u] = "put" => pc[u] = "put" /\ loc[u].mmio \in Mmios /\ u # t
    BY <1>6, PutsMmio
  <2> QED
    BY <1>6, <1>8, <2>1 DEF UseInv, PutOwn
<1>15. OpenLive'
  BY <1>m, <1>1, <1>3, <1>5, <1>6, <1>8, <1>9 DEF UseInv, OpenLive
<1>16. FileLive' /\ PosInFile'
  BY <1>2, <1>5, <1>6, <1>8, <1>9 DEF UseInv, PosInFile, FileLive
<1>17. Counts'
  <2>1. \A n : /\ n = m => Cardinality(Holders(n)') = Cardinality(Holders(n)) + 1
               /\ n # m => Holders(n)' = Holders(n)
    BY <1>m, <1>0, <1>2, <1>6, HoldersPlus
  <2>2. Cardinality(Holders(m)') = Cardinality(Holders(m)) + 1
    BY <2>1
  <2>3. mm'[m].ref = Cardinality(Holders(m)')
    BY <1>1, <1>5, <1>7, <2>2 DEF UseInv, Counts
  <2>4. \A n \in Mmios : mm'[n].ref = Cardinality(Holders(n)')
    BY <1>7, <2>1, <2>3 DEF UseInv, Counts
  <2> QED
    BY <2>4 DEF Counts
<1> QED
  BY <1>11, <1>12, <1>13, <1>14, <1>15, <1>16, <1>17 DEF UseInv

LEMMA UseInvInstall ==
    ASSUME FdInv, UseInv, NEW t \in Threads, Install(t)
    PROVE  UseInv'
<1>m. PICK fd, m : fd = loc[t].fd /\ m = loc[t].mmio
  OBVIOUS
<1> DEFINE o == <<"open", t>>
           f == <<"file", fd>>
<1>1. /\ fd \in Fds /\ fd_table[fd] = NULL /\ Busy(t)
      /\ fd_table'[fd].mmio = m /\ fd_table'[fd].ino = loc[t].ino /\ fd_table'[fd].pos = 0
      /\ \A d \in Fds : d # fd => fd_table'[d] = fd_table[d]
      /\ pc'[t] = "idle" /\ pc[t] = "install"
      /\ \A u \in Threads : u # t => pc'[u] = pc[u] /\ loc'[u] = loc[u]
      /\ UNCHANGED <<disk, kernel, mm, hash, pool, exited, size>>
  BY <1>m, Installed
<1>2. Usable' = Usable \cup {fd}
  BY <1>m, FdInvInstall
<1>3. m \in Mmios /\ m \in hash /\ mm[m].ino = loc[t].ino
  BY <1>m, <1>1, PutsMmio DEF UseInv, OpenLive
<1>4. fd \notin Usable /\ Usable \subseteq Fds
  BY <1>1 DEF Usable
<1>5. \A i : InHash(i)' = InHash(i)
  BY <1>1 DEF InHash
<1>6. OneOpener' /\ Absent' /\ PutOwn' /\ OpenLive'
  BY <1>1, <1>5 DEF UseInv, OneOpener, Absent, PutOwn, OpenLive, Opening
<1>7. HashUnique'
  BY <1>1 DEF UseInv, HashUnique
<1>8. FileLive'
  BY <1>1, <1>2, <1>3, <1>4 DEF UseInv, FileLive
<1>9. PosInFile'
  <2>1. mm[m].fsize \in Nat
    BY <1>3 DEF FdInv, Types, Mmio
  <2> QED
    BY <1>1, <1>2, <1>4, <2>1 DEF UseInv, PosInFile
<1>10. Counts'
  <2>0. \A n, h : h \in Holders(n)' <=>
            \/ \E d \in Usable' : fd_table'[d].mmio = n /\ h = <<"file", d>>
            \/ \E u \in Threads : pc'[u] = "install" /\ loc'[u].mmio = n /\ h = <<"open", u>>
    BY DEF Holders
  <2>1. ASSUME NEW n \in Mmios, n # m PROVE Holders(n)' = Holders(n)
    <3>1. \A h : h \in Holders(n)' <=> h \in Holders(n)
      BY <1>m, <1>1, <1>2, <1>4, <2>0, <2>1, Holder
    <3> QED
      BY <3>1
  <2>2. Cardinality(Holders(m)') = Cardinality(Holders(m))
    <3> DEFINE rest == Holders(m) \ {o}
    <3>1. \A h : h \in Holders(m)' <=> (h \in Holders(m) /\ h # o) \/ h = f
      BY <1>m, <1>1, <1>2, <1>4, <2>0, Holder
    <3>2. Holders(m)' = rest \cup {f}
      BY <3>1
    <3>3. o \in Holders(m)
      BY <1>m, <1>1, Holder
    <3>4. f \notin rest
      BY <1>4, Holder
    <3>5. IsFiniteSet(Holders(m)) /\ Cardinality(Holders(m)) \in Nat
      BY HoldersFinite
    <3>6. IsFiniteSet(rest) /\ Cardinality(rest) = Cardinality(Holders(m)) - 1
      BY <3>3, <3>5, FS_RemoveElement
    <3> HIDE DEF rest
    <3>7. Cardinality(rest \cup {f}) = Cardinality(rest) + 1
      BY <3>4, <3>6, FS_AddElement
    <3> QED
      BY <3>2, <3>5, <3>6, <3>7
  <2>3. \A n \in Mmios : Cardinality(Holders(n)') = Cardinality(Holders(n))
    BY <2>1, <2>2
  <2> QED
    BY <1>1, <2>3 DEF UseInv, Counts
<1> QED
  BY <1>6, <1>7, <1>8, <1>9, <1>10 DEF UseInv

\* The file that is closed stops holding its mmio, which is the one that
\* delete_mmio_hash finds.
LEMMA ClosedHolders ==
    ASSUME FdInv, UseInv, NEW t \in Threads, NEW fd \in Usable, Close(t, fd),
           NEW m, m = fd_table[fd].mmio
    PROVE  /\ InHash(fd_table[fd].ino) = {m} /\ m \in hash /\ m \in Mmios
           /\ mm[m].ino = fd_table[fd].ino
           /\ Cardinality(Holders(m)') = Cardinality(Holders(m)) - 1
           /\ LastReference(m) => Holders(m) = {<<"file", fd>>}
           /\ ~LastReference(m) => mm[m].ref > 1
           /\ mm[m].ref \in Nat
           /\ \A n : n # m => Holders(n)' = Holders(n)
<1> DEFINE f == <<"file", fd>>
<1>1. /\ fd \in Fds /\ pc[t] = "idle" /\ pc'[t] = "free"
      /\ \A u \in Threads : u # t => pc'[u] = pc[u] /\ loc'[u] = loc[u]
      /\ UNCHANGED <<kernel, fd_table, exited, size>>
  BY Closed
<1>2. Usable' = Usable \ {fd}
  BY FdInvClose
<1>3. m \in hash /\ mm[m].ino = fd_table[fd].ino /\ hash \subseteq Mmios
  BY DEF UseInv, FileLive, FdInv, Types
<1>4. InHash(fd_table[fd].ino) = {m}
  BY <1>3 DEF InHash, UseInv, HashUnique
<1>5. f \in Holders(m)
  BY Holder
<1>6. IsFiniteSet(Holders(m)) /\ Cardinality(Holders(m)) \in Nat
  BY HoldersFinite
<1>7. mm[m].ref = Cardinality(Holders(m))
  BY <1>3 DEF UseInv, Counts
<1>8. \A n, h : h \in Holders(n)' <=>
            \/ \E d \in Usable' : fd_table'[d].mmio = n /\ h = <<"file", d>>
            \/ \E u \in Threads : pc'[u] = "install" /\ loc'[u].mmio = n /\ h = <<"open", u>>
  BY DEF Holders
<1>9. Holders(m)' = Holders(m) \ {f}
  <2>1. \A h : h \in Holders(m)' <=> h \in Holders(m) /\ h # f
    BY <1>1, <1>2, <1>8, Holder
  <2> QED
    BY <2>1
<1>10. Cardinality(Holders(m) \ {f}) = Cardinality(Holders(m)) - 1
  BY <1>5, <1>6, FS_RemoveElement
<1>11. LastReference(m) => Holders(m) = {f}
  <2> SUFFICES ASSUME LastReference(m) PROVE Holders(m) = {f}
    OBVIOUS
  <2>1. Cardinality(Holders(m)) <= 1
    BY <1>6, <1>7 DEF LastReference
  <2>2. Cardinality(Holders(m)) # 0
    BY <1>5, <1>6, FS_EmptySet
  <2>3. Cardinality(Holders(m)) = 1
    BY <1>6, <2>1, <2>2
  <2>4. PICK x : Holders(m) = {x}
    BY <1>6, <2>3, FS_Singleton
  <2> QED
    BY <1>5, <2>4
<1>12. ~LastReference(m) => mm[m].ref > 1
  BY <1>6, <1>7 DEF LastReference
<1>13. ASSUME NEW n, n # m PROVE Holders(n)' = Holders(n)
  <2>1. \A h : h \in Holders(n)' <=> h \in Holders(n)
    BY <1>1, <1>2, <1>8, <1>13, Holder
  <2> QED
    BY <2>1
<1> QED
  BY <1>3, <1>4, <1>6, <1>7, <1>9, <1>10, <1>11, <1>12, <1>13

LEMMA UseInvClose ==
    ASSUME FdInv, UseInv, NEW t \in Threads, NEW fd \in Usable, Close(t, fd)
    PROVE  UseInv'
<1>m. PICK m : m = fd_table[fd].mmio
  OBVIOUS
<1>1. /\ InHash(fd_table[fd].ino) = {m} /\ m \in hash /\ m \in Mmios
      /\ mm[m].ino = fd_table[fd].ino
      /\ Cardinality(Holders(m)') = Cardinality(Holders(m)) - 1
      /\ LastReference(m) => Holders(m) = {<<"file", fd>>}
      /\ ~LastReference(m) => mm[m].ref > 1
      /\ mm[m].ref \in Nat
      /\ \A n : n # m => Holders(n)' = Holders(n)
  BY <1>m, ClosedHolders
<1>2. /\ hash' = hash \ {n \in {m} : LastReference(n)}
      /\ mm' \in [Mmios -> Mmio]
      /\ \A n \in Mmios : n # m => mm'[n] = mm[n]
      /\ mm'[m].ref = mm[m].ref - 1
      /\ ~LastReference(m) => mm'[m].ino = mm[m].ino /\ mm'[m].fsize = mm[m].fsize
      /\ pc[t] = "idle" /\ pc'[t] = "free"
      /\ \A u \in Threads : u # t => pc'[u] = pc[u] /\ loc'[u] = loc[u]
      /\ UNCHANGED <<kernel, fd_table, exited, size>>
  BY <1>1, Closed
<1>3. Usable' = Usable \ {fd}
  BY FdInvClose
<1>4. hash' = IF LastReference(m) THEN hash \ {m} ELSE hash
  BY <1>2
<1>5. hash \subseteq Mmios
  BY DEF FdInv, Types
<1>6. \A n \in hash' : n \in hash /\ n \in Mmios /\ mm'[n].ino = mm[n].ino
                       /\ mm'[n].fsize = mm[n].fsize
  BY <1>2, <1>4, <1>5
<1>7. OneOpener'
  BY <1>2 DEF UseInv, OneOpener, Opening
<1>8. HashUnique'
  <2>1. mm[m].ref \in Nat /\ mm'[m].ref = mm[m].ref - 1
    BY <1>1, <1>2
  <2>2. \A n \in hash' : mm'[n].ref > 0
    <3> SUFFICES ASSUME NEW n \in hash' PROVE mm'[n].ref > 0
      OBVIOUS
    <3>1. CASE n = m
      <4>1. mm[m].ref > 1
        BY <1>1, <1>4, <3>1
      <4> QED
        BY <2>1, <3>1, <4>1
    <3>2. CASE n # m
      BY <1>2, <1>6, <3>2 DEF UseInv, HashUnique
    <3> QED
      BY <3>1, <3>2
  <2> QED
    BY <1>6, <2>2 DEF UseInv, HashUnique
<1>9. Absent'
  BY <1>2, <1>6 DEF UseInv, Absent, InHash
<1>10. PutOwn'
  <2> SUFFICES ASSUME NEW u \in Threads, pc'[u] = "put"
               PROVE  mm'[loc'[u].mmio].ino = loc'[u].ino
    BY DEF PutOwn
  <2>1. u # t /\ pc[u] = "put" /\ loc'[u] = loc[u]
    BY <1>2
  <2>2. loc[u].mmio \in Mmios /\ Private(u, loc[u].mmio)
    BY <2>1, PutsMmio DEF Private
  <2>3. loc[u].mmio # m
    BY <1>1, <2>2 DEF FdInv, MmioOwned
  <2> QED
    BY <1>2, <2>1, <2>2, <2>3 DEF UseInv, PutOwn
<1>11. OpenLive'
  <2> SUFFICES ASSUME NEW u \in Threads, pc'[u] = "install"
               PROVE  loc'[u].mmio \in hash' /\ mm'[loc'[u].mmio].ino = loc'[u].ino
    BY DEF OpenLive
  <2>1. u # t /\ pc[u] = "install" /\ loc'[u] = loc[u]
    BY <1>2
  <2>2. loc[u].mmio \in hash /\ mm[loc[u].mmio].ino = loc[u].ino
    BY <2>1 DEF UseInv, OpenLive
  <2>3. <<"open", u>> \in Holders(loc[u].mmio)
    BY <2>1, Holder
  <2>4. loc[u].mmio \in hash'
    BY <1>1, <1>4, <2>2, <2>3
  <2> QED
    BY <1>6, <2>1, <2>2, <2>4
<1>12. ASSUME NEW d \in Usable'
       PROVE  fd_table[d].mmio \in hash' /\ d \in Usable
  <2>1. d \in Usable /\ d # fd
    BY <1>3
  <2>2. <<"file", d>> \in Holders(fd_table[d].mmio) /\ fd_table[d].mmio \in hash
    BY <2>1, Holder DEF UseInv, FileLive
  <2> QED
    BY <1>1, <1>4, <2>1, <2>2
<1>13. FileLive' /\ PosInFile'
  BY <1>2, <1>6, <1>12 DEF UseInv, FileLive, PosInFile
<1>14. Counts'
  <2>1. mm'[m].ref = Cardinality(Holders(m)')
    BY <1>1, <1>2 DEF UseInv, Counts
  <2>2. \A n \in Mmios : mm'[n].ref = Cardinality(Holders(n)')
    BY <1>1, <1>2, <2>1 DEF UseInv, Counts
  <2> QED
    BY <2>2 DEF Counts
<1> QED
  BY <1>7, <1>8, <1>9, <1>10, <1>11, <1>13, <1>14 DEF UseInv

LEMMA UseInvInit == Init => UseInv
<1> SUFFICES ASSUME Init PROVE UseInv
  OBVIOUS
<1>1. Usable = {}
  BY DEF Init, Usable
<1>2. OneOpener /\ HashUnique /\ Absent /\ PutOwn /\ OpenLive /\ FileLive /\ PosInFile
  BY <1>1 DEF Init, OneOpener, HashUnique, Absent, PutOwn, OpenLive, FileLive, PosInFile, Opening
<1>3. \A m \in Mmios : Holders(m) = {}
  BY <1>1 DEF Init, Holders
<1>4. Counts
  BY <1>3, FS_EmptySet DEF Init, Counts, FreeMmio
<1> QED
  BY <1>2, <1>4 DEF UseInv

LEMMA UseInvNext == SerialOpens /\ FdInv /\ UseInv /\ [Next]_vars => UseInv'
<1> SUFFICES ASSUME SerialOpens, FdInv, UseInv, [Next]_vars PROVE UseInv'
  OBVIOUS
<1>1. CASE UNCHANGED vars
  BY <1>1, UseInvQuiet DEF vars
<1>2. ASSUME NEW t \in Threads, ThreadStep(t) PROVE UseInv'
  BY <1>2, UseInvLookup, UseInvMap, UseInvPut, UseInvInstall, UseInvClosing, UseInvQuiet
     DEF ThreadStep, MapFails, End
<1>3. ASSUME NEW t \in Threads, OpenFails(t) PROVE UseInv'
  BY <1>3, UseInvQuiet DEF OpenFails, End
<1>4. ASSUME NEW t \in Threads, NEW ino \in Inos, NEW flags \in Modes, Open(t, ino, flags)
      PROVE UseInv'
  BY <1>4, UseInvOpen
<1>5. ASSUME NEW t \in Threads, NEW fd \in Usable, Close(t, fd) PROVE UseInv'
  BY <1>5, UseInvClose
<1>6. ASSUME NEW fd \in Usable, NEW len \in 1 .. MaxSize,
             Read(fd, len) \/ Write(fd, len) \/ WriteFails(fd, len)
      PROVE  UseInv'
  BY <1>6, UseInvRead, UseInvWrite, UseInvQuiet DEF WriteFails, End
<1>7. ASSUME NEW fd \in Usable, NEW to \in 0 .. MaxSize, Seek(fd, to) PROVE UseInv'
  BY <1>7, UseInvSeek, UseInvQuiet DEF Seek, End
<1> QED
  BY <1>1, <1>2, <1>3, <1>4, <1>5, <1>6, <1>7 DEF Next

LEMMA UseInvAlways ==
    ASSUME SerialOpens
    PROVE  Spec => []UseInv
<1>1. FdInv /\ UseInv /\ [Next]_vars => UseInv'
  BY UseInvNext
<1> QED
  BY <1>1, UseInvInit, FdInvAlways, PTL DEF Spec

\* As long as no two opens of one file overlap: an mmio counts exactly the
\* open files and the opens that use it, one in the hash is counted by
\* somebody, and the count of one that release_mmio gives back is 0, though
\* nothing resets it.
THEOREM ReferencesCount ==
    ASSUME SerialOpens
    PROVE  Spec => []RefCounts
<1>1. UseInv => RefCounts
  BY DEF UseInv, RefCounts, Counts, HashUnique
<1> QED
  BY <1>1, UseInvAlways, PTL

\* Then the mmio of a file is mapped, in the hash and of the file's inode for
\* as long as the file can be used.
THEOREM FilesLive ==
    ASSUME SerialOpens
    PROVE  Spec => []UseLive
<1>1. UseInv => UseLive
  <2> SUFFICES ASSUME UseInv, NEW m \in Mmios, NEW h \in Holders(m)
               PROVE  /\ m \in hash
                      /\ h[1] = "file" => fd_table[h[2]].ino = mm[m].ino
    BY DEF UseLive
  <2>1. CASE \E fd \in Usable : fd_table[fd].mmio = m /\ h = <<"file", fd>>
    BY <2>1 DEF UseInv, FileLive
  <2>2. CASE \E u \in Threads : pc[u] = "install" /\ loc[u].mmio = m /\ h = <<"open", u>>
    BY <2>2 DEF UseInv, OpenLive
  <2> QED
    BY <2>1, <2>2, Holder
<1> QED
  BY <1>1, UseInvAlways, PTL

\* Then no position is past the end of its file, whatever other descriptors
\* of the file do, so what read has left to copy is never negative.
THEOREM PositionsInFile ==
    ASSUME SerialOpens
    PROVE  Spec => []PosInFile
<1>1. UseInv => PosInFile
  BY DEF UseInv
<1> QED
  BY <1>1, UseInvAlways, PTL

-----------------------------------------------------------------------------
(* Third layer.                                                             *)

\* What an action keeps that changes no size and starts no open.
LEMMA SizeInvSame ==
    ASSUME FdInv, UseInv, SizeInv, UNCHANGED <<disk, mm, hash, size>>,
           \A u \in Threads : pc'[u] \in {"lookup", "map", "put"} =>
              pc'[u] = pc[u] /\ loc'[u] = loc[u]
    PROVE  SizeInv'
<1>1. \A i : InHash(i)' = InHash(i)
  BY DEF InHash
<1>2. DiskCovers' /\ HashCovers'
  BY DEF SizeInv, DiskCovers, HashCovers, Covers
<1>3. OpenCovers'
  BY <1>1 DEF SizeInv, OpenCovers, KnowsSize, Covers
<1> QED
  BY <1>2, <1>3 DEF SizeInv

LEMMA SizeInvOpen ==
    ASSUME FdInv, UseInv, SizeInv, NEW t \in Threads, NEW ino \in Inos, NEW flags \in Modes,
           Open(t, ino, flags)
    PROVE  SizeInv'
<1>0. Types
  BY DEF FdInv
<1>1. PICK l \in Locals :
         /\ l.ino = ino /\ l.fsize = disk[ino]
         /\ loc' = [loc EXCEPT ![t] = l] /\ pc' = [pc EXCEPT ![t] = "lookup"]
  BY <1>0, Opened
<1>2. UNCHANGED <<disk, fd_table, mm, hash, pool, exited, size>>
  BY DEF Open
<1>3. /\ pc'[t] = "lookup" /\ loc'[t] = l
      /\ \A u \in Threads : u # t => pc'[u] = pc[u] /\ loc'[u] = loc[u]
  BY <1>0, <1>1, Stepped DEF Opening
<1>4. \A i : InHash(i)' = InHash(i)
  BY <1>2 DEF InHash
<1>5. DiskCovers' /\ HashCovers'
  BY <1>2 DEF SizeInv, DiskCovers, HashCovers, Covers
<1>6. disk[ino] \in Nat /\ disk[ino] >= size[ino]
  BY <1>0 DEF Types, SizeInv, DiskCovers
<1>7. ASSUME NEW u \in Threads
      PROVE  KnowsSize(u)'
  <2>1. CASE u = t
    BY <1>1, <1>2, <1>3, <1>6, <2>1 DEF KnowsSize
  <2>2. CASE u # t
    BY <1>2, <1>3, <1>4, <2>2 DEF SizeInv, OpenCovers, KnowsSize, Covers
  <2> QED
    BY <2>1, <2>2
<1>8. OpenCovers'
  BY <1>7 DEF OpenCovers
<1> QED
  BY <1>5, <1>8 DEF SizeInv

LEMMA SizeInvLookup ==
    ASSUME FdInv, UseInv, SizeInv, NEW t \in Threads, Lookup(t)
    PROVE  SizeInv'
<1>0. Types /\ pc[t] = "lookup" /\ pc[t] \in Opening /\ loc[t] \in Locals
  BY DEF FdInv, Lookup, Opening, Types
<1>1. UNCHANGED <<disk, kernel, fd_table, hash, pool, exited, size>>
  BY DEF Lookup
<1>2. CASE InHash(loc[t].ino) # {}
  <2>1. PICK m \in InHash(loc[t].ino), x \in Mmio, l \in Locals :
              /\ mm' = [mm EXCEPT ![m] = x] /\ x.ino = mm[m].ino
              /\ x.fsize = mm[m].fsize /\ x.mapped = mm[m].mapped
              /\ loc' = [loc EXCEPT ![t] = l] /\ pc' = [pc EXCEPT ![t] = "install"]
    BY <1>0, <1>2, LookedUp
  <2>2. m \in Mmios /\ hash \subseteq Mmios
    BY <1>0, <2>1 DEF InHash, Types
  <2>3. /\ pc'[t] = "install"
        /\ \A u \in Threads : u # t => pc'[u] = pc[u] /\ loc'[u] = loc[u]
    BY <1>0, <2>1, Stepped DEF Opening
  <2>4. \A n \in Mmios : mm'[n] = IF n = m THEN x ELSE mm[n]
    BY <1>0, <2>1, <2>2, MmioUpdate
  <2>5. \A n \in Mmios : /\ mm'[n].ino = mm[n].ino /\ mm'[n].fsize = mm[n].fsize
                         /\ mm'[n].mapped = mm[n].mapped
    BY <2>1, <2>4
  <2>6. \A i : InHash(i)' = InHash(i)
    BY <1>1, <2>2, <2>5 DEF InHash
  <2>7. DiskCovers' /\ HashCovers'
    BY <1>1, <2>2, <2>5 DEF SizeInv, DiskCovers, HashCovers, Covers
  <2>8. \A u \in Threads : pc'[u] \in {"lookup", "map", "put"} =>
           /\ pc'[u] = pc[u] /\ loc'[u] = loc[u]
           /\ pc[u] = "put" => loc[u].mmio \in Mmios
    BY <2>3, PutsMmio
  <2>9. OpenCovers'
    BY <1>1, <2>5, <2>6, <2>8 DEF SizeInv, OpenCovers, KnowsSize, Covers
  <2> QED
    BY <2>7, <2>9 DEF SizeInv
<1>3. CASE InHash(loc[t].ino) = {}
  <2>1. /\ pc' = [pc EXCEPT ![t] = "map"] /\ UNCHANGED <<mm, loc>>
    BY <1>3 DEF Lookup, Goto
  <2>2. pc'[t] = "map" /\ \A u \in Threads : u # t => pc'[u] = pc[u]
    BY <1>0, <2>1 DEF Types
  <2>3. \A i : InHash(i)' = InHash(i)
    BY <1>1, <2>1 DEF InHash
  <2>4. DiskCovers' /\ HashCovers'
    BY <1>1, <2>1 DEF SizeInv, DiskCovers, HashCovers, Covers
  <2>5. OpenCovers'
    BY <1>0, <1>1, <2>1, <2>2, <2>3 DEF SizeInv, OpenCovers, KnowsSize, Covers
  <2> QED
    BY <2>4, <2>5 DEF SizeInv
<1> QED
  BY <1>2, <1>3

LEMMA SizeInvMap ==
    ASSUME FdInv, UseInv, SizeInv, NEW t \in Threads, Map(t)
    PROVE  SizeInv'
<1>0. Types /\ pc[t] = "map" /\ pc[t] \in Opening /\ pc[t] # "idle"
  BY DEF FdInv, Map, Opening
<1>1. Busy(t) /\ loc[t].ino \in Inos
  BY <1>0 DEF FdInv, BusyThreads, Busy
<1>2. PICK m \in pool, x \in Mmio, l \in Locals :
         /\ pool' = pool \ {m} /\ mm' = [mm EXCEPT ![m] = x]
         /\ x.ref = mm[m].ref /\ x.ino = loc[t].ino /\ x.fsize = loc[t].fsize
         /\ x.mapped = IF loc[t].fsize = 0 THEN DefaultMmap ELSE loc[t].fsize
         /\ loc' = [loc EXCEPT ![t] = l] /\ pc' = [pc EXCEPT ![t] = "put"]
         /\ l.ino = loc[t].ino /\ l.mmio = m
         /\ disk' \in [Inos -> Nat] /\ \A i \in Inos : disk'[i] >= disk[i]
         /\ x.fsize = 0 => disk'[loc[t].ino] >= x.mapped
  BY <1>0, <1>1, Mapped
<1>3. m \in Mmios /\ m \notin hash /\ hash \subseteq Mmios
  BY <1>0 DEF Types, FdInv, MmioOwned
<1>4. UNCHANGED <<kernel, fd_table, hash, exited, size>>
  BY DEF Map
<1>5. /\ pc'[t] = "put" /\ loc'[t] = l
      /\ \A u \in Threads : u # t => pc'[u] = pc[u] /\ loc'[u] = loc[u]
  BY <1>0, <1>2, Stepped DEF Opening
<1>6. \A n \in Mmios : mm'[n] = IF n = m THEN x ELSE mm[n]
  BY <1>0, <1>2, <1>3, MmioUpdate
<1>7. \A n \in hash : mm'[n] = mm[n] /\ mm[n].ino \in Inos /\ mm[n].mapped \in Nat
  BY <1>0, <1>3, <1>6 DEF Types, UseInv, HashUnique, Mmio
<1>8. \A i : InHash(i)' = InHash(i)
  BY <1>4, <1>7 DEF InHash
<1>9. disk \in [Inos -> Nat] /\ size \in [Inos -> Nat]
  BY <1>0 DEF Types
<1>10. DiskCovers'
  BY <1>2, <1>4, <1>9 DEF SizeInv, DiskCovers
<1>11. HashCovers'
  <2> SUFFICES ASSUME NEW n \in hash PROVE Covers(n, mm[n].ino)'
    BY <1>4 DEF HashCovers
  <2> DEFINE i == mm[n].ino
  <2>1. i \in Inos /\ mm[n].fsize >= size[i] /\ mm[n].mapped <= disk[i] /\ mm[n].mapped \in Nat
    BY <1>7 DEF SizeInv, HashCovers, Covers
  <2>2. mm[n].mapped <= disk'[i]
    <3> HIDE DEF i
    <3> QED
      BY <1>2, <1>9, <2>1
  <2> QED
    BY <1>4, <1>7, <2>1, <2>2 DEF Covers
<1>12. ASSUME NEW u \in Threads, u # t
       PROVE  KnowsSize(u)'
  <2>1. pc'[u] = pc[u] /\ loc'[u] = loc[u]
    BY <1>5, <1>12
  <2>2. pc[u] \in {"lookup", "map", "put"} =>
           loc[u].ino \in Inos /\ loc[u].fsize \in Nat /\ disk'[loc[u].ino] >= disk[loc[u].ino]
    BY <1>0, <1>2 DEF FdInv, BusyThreads, Busy, Types, Locals
  <2>3. pc[u] \in {"lookup", "map"} => loc[u].fsize <= disk'[loc[u].ino]
    BY <1>2, <1>9, <2>2 DEF SizeInv, OpenCovers, KnowsSize
  <2>4. pc[u] = "put" => Covers(loc[u].mmio, loc[u].ino)'
    <3> SUFFICES ASSUME pc[u] = "put" PROVE Covers(loc[u].mmio, loc[u].ino)'
      OBVIOUS
    <3>1. loc[u].mmio \in Mmios
      BY PutsMmio
    <3>2. Private(u, loc[u].mmio)
      BY DEF Private
    <3>3. loc[u].mmio # m
      BY <3>1, <3>2 DEF FdInv, MmioOwned
    <3>4. mm'[loc[u].mmio] = mm[loc[u].mmio] /\ mm[loc[u].mmio].mapped \in Nat
      BY <1>0, <1>6, <3>1, <3>3 DEF Types, Mmio
    <3>5. /\ mm[loc[u].mmio].fsize >= size[loc[u].ino]
          /\ mm[loc[u].mmio].mapped <= disk[loc[u].ino]
      BY DEF SizeInv, OpenCovers, KnowsSize, Covers
    <3>6. disk[loc[u].ino] \in Nat /\ disk'[loc[u].ino] \in Nat
      BY <1>2, <1>9, <2>2
    <3>7. mm[loc[u].mmio].mapped <= disk'[loc[u].ino]
      BY <2>2, <3>4, <3>5, <3>6
    <3> QED
      BY <1>4, <2>1, <3>4, <3>5, <3>7 DEF Covers
  <2> QED
    BY <1>4, <1>8, <2>1, <2>3, <2>4 DEF SizeInv, OpenCovers, KnowsSize
<1>13. Covers(loc[t].mmio, loc[t].ino)'
  <2>1. InHash(loc[t].ino) = {}
    BY <1>0 DEF UseInv, Absent
  <2>2. loc[t].fsize >= size[loc[t].ino] /\ loc[t].fsize <= disk[loc[t].ino]
    BY <1>0, <2>1 DEF SizeInv, OpenCovers, KnowsSize
  <2>3. /\ loc[t].fsize \in Nat /\ disk[loc[t].ino] \in Nat /\ disk'[loc[t].ino] \in Nat
        /\ disk'[loc[t].ino] >= disk[loc[t].ino]
    BY <1>0, <1>1, <1>2, <1>9 DEF Types, Locals
  <2>4. x.mapped <= disk'[loc[t].ino]
    BY <1>2, <2>2, <2>3, FileTableAssumption
  <2> QED
    BY <1>2, <1>3, <1>4, <1>5, <1>6, <2>2, <2>4 DEF Covers
<1>14. OpenCovers'
  <2>1. KnowsSize(t)'
    BY <1>5, <1>13 DEF KnowsSize
  <2> QED
    BY <1>12, <2>1 DEF OpenCovers
<1> QED
  BY <1>10, <1>11, <1>14 DEF SizeInv

LEMMA SizeInvPut ==
    ASSUME FdInv, UseInv, SizeInv, NEW t \in Threads, Put(t)
    PROVE  SizeInv'
<1>m. PICK m : m = loc[t].mmio
  OBVIOUS
<1>0. Types /\ pc[t] = "put" /\ loc[t] \in Locals
  BY DEF FdInv, Put, Types
<1>1. m \in Mmios
  BY <1>m, <1>0, PutsMmio
<1>2. UNCHANGED <<disk, kernel, fd_table, pool, exited, size>>
  BY DEF Put
<1>3. InHash(loc[t].ino) = {} /\ mm[m].ino = loc[t].ino
  BY <1>m, <1>0 DEF UseInv, Absent, PutOwn
<1>4. PICK x \in Mmio :
         /\ mm' = [mm EXCEPT ![m] = x] /\ x.ino = mm[m].ino
         /\ x.fsize = mm[m].fsize /\ x.mapped = mm[m].mapped
         /\ hash' = hash \cup {m}
         /\ loc' = [loc EXCEPT ![t] = loc[t]] /\ pc' = [pc EXCEPT ![t] = "install"]
  BY <1>m, <1>0, <1>1, <1>3, PutFirst
<1>5. /\ pc'[t] = "install"
      /\ \A u \in Threads : u # t => pc'[u] = pc[u] /\ loc'[u] = loc[u]
  BY <1>0, <1>4, Stepped DEF Opening
<1>6. \A n \in Mmios : mm'[n] = IF n = m THEN x ELSE mm[n]
  BY <1>0, <1>1, <1>4, MmioUpdate
<1>7. \A n \in Mmios : /\ mm'[n].ino = mm[n].ino /\ mm'[n].fsize = mm[n].fsize
                       /\ mm'[n].mapped = mm[n].mapped
  BY <1>4, <1>6
<1>8. hash \subseteq Mmios
  BY <1>0 DEF Types
<1>9. DiskCovers'
  BY <1>2 DEF SizeInv, DiskCovers
<1>10. Covers(m, mm[m].ino)
  BY <1>m, <1>0, <1>3 DEF SizeInv, OpenCovers, KnowsSize
<1>11. HashCovers'
  BY <1>1, <1>2, <1>4, <1>7, <1>8, <1>10 DEF SizeInv, HashCovers, Covers
<1>12. ASSUME NEW u \in Threads PROVE KnowsSize(u)'
  <2>1. CASE u = t
    BY <1>5, <2>1 DEF KnowsSize
  <2>2. CASE u # t
    <3>1. pc'[u] = pc[u] /\ loc'[u] = loc[u] /\ KnowsSize(u)
      BY <1>5, <2>2 DEF SizeInv, OpenCovers
    <3>2. InHash(loc[u].ino)' = {} => InHash(loc[u].ino) = {}
      BY <1>4, <1>7, <1>8, <3>1 DEF InHash
    <3>3. pc[u] = "put" => loc[u].mmio \in Mmios
      BY PutsMmio
    <3> QED
      BY <1>2, <1>7, <3>1, <3>2, <3>3 DEF KnowsSize, Covers
  <2> QED
    BY <2>1, <2>2
<1> QED
  BY <1>9, <1>11, <1>12 DEF SizeInv, OpenCovers

LEMMA SizeInvWrite ==
    ASSUME FdInv, UseInv, SizeInv, NEW fd \in Usable, NEW len \in 1 .. MaxSize, Write(fd, len)
    PROVE  SizeInv'
<1>m. PICK f, end, m, ino : /\ f = fd_table[fd] /\ end = f.pos + len
                            /\ m = f.mmio /\ ino = f.ino
  OBVIOUS
<1>0. Types
  BY DEF FdInv
<1>1. /\ f \in File /\ m \in Mmios /\ ino \in Inos /\ end \in Nat
      /\ mm' \in [Mmios -> Mmio]
      /\ \A n \in Mmios : n # m => mm'[n] = mm[n]
      /\ mm'[m].ino = mm[m].ino
      /\ mm'[m].fsize = NewSize(mm[m].fsize, end)
      /\ mm'[m].mapped >= end
      /\ disk' \in [Inos -> Nat]
      /\ \A i \in Inos : disk'[i] >= disk[i]
      /\ mm'[m].mapped = mm[m].mapped \/ disk'[ino] >= mm'[m].mapped
      /\ size' = [size EXCEPT ![ino] = Larger(@, end)]
      /\ size' \in [Inos -> Nat]
  BY <1>m, <1>0, Written
<1>2. UNCHANGED <<kernel, hash, pool, pc, loc, exited>>
  BY DEF Write
<1>3. m \in hash /\ mm[m].ino = ino /\ hash \subseteq Mmios
  BY <1>m, <1>0 DEF UseInv, FileLive, Types
<1>4. /\ mm[m].fsize \in Nat /\ mm[m].mapped \in Nat /\ mm'[m].mapped \in Nat
      /\ disk[ino] \in Nat /\ size[ino] \in Nat /\ disk'[ino] \in Nat
  BY <1>0, <1>1 DEF Types, Mmio
<1>5. /\ size'[ino] = Larger(size[ino], end)
      /\ \A i \in Inos : i # ino => size'[i] = size[i]
  BY <1>0, <1>1 DEF Types
<1>6. mm[m].fsize >= size[ino] /\ mm[m].mapped <= disk[ino]
  BY <1>3 DEF SizeInv, HashCovers, Covers
<1>7. mm'[m].fsize >= size'[ino]
  BY <1>1, <1>4, <1>5, <1>6 DEF NewSize, Larger
<1>8. mm'[m].mapped <= disk'[ino]
  BY <1>1, <1>4, <1>6
<1>9. DiskCovers'
  <2> SUFFICES ASSUME NEW i \in Inos PROVE disk'[i] >= size'[i]
    BY DEF DiskCovers
  <2>1. disk[i] \in Nat /\ size[i] \in Nat /\ disk'[i] \in Nat /\ disk[i] >= size[i]
    BY <1>0, <1>1 DEF Types, SizeInv, DiskCovers
  <2>2. CASE i = ino
    BY <1>1, <1>4, <1>5, <1>8, <2>1, <2>2 DEF Larger
  <2>3. CASE i # ino
    BY <1>1, <1>5, <2>1, <2>3
  <2> QED
    BY <2>2, <2>3
<1>10. HashCovers'
  <2> SUFFICES ASSUME NEW n \in hash PROVE Covers(n, mm[n].ino)'
    BY <1>2 DEF HashCovers
  <2>1. CASE n = m
    BY <1>1, <1>3, <1>7, <1>8, <2>1 DEF Covers
  <2>2. CASE n # m
    <3>1. PICK i : i = mm[n].ino
      OBVIOUS
    <3>2. i \in Inos /\ i # ino /\ mm'[n] = mm[n] /\ mm[n].mapped \in Nat
      BY <1>0, <1>1, <1>3, <2>2, <3>1 DEF UseInv, HashUnique, Types, Mmio
    <3>3. mm[n].fsize >= size[i] /\ mm[n].mapped <= disk[i]
      BY <3>1 DEF SizeInv, HashCovers, Covers
    <3>4. disk[i] \in Nat /\ disk'[i] \in Nat /\ disk'[i] >= disk[i] /\ size'[i] = size[i]
      BY <1>0, <1>1, <1>5, <3>2 DEF Types
    <3>5. mm[n].mapped <= disk'[i]
      BY <3>2, <3>3, <3>4
    <3> QED
      BY <3>1, <3>2, <3>3, <3>4, <3>5 DEF Covers
  <2> QED
    BY <2>1, <2>2
<1>11. ASSUME NEW u \in Threads PROVE KnowsSize(u)'
  <2>1. PICK i : i = loc[u].ino
    OBVIOUS
  <2> SUFFICES ASSUME pc[u] \in {"lookup", "map", "put"} PROVE KnowsSize(u)'
    BY <1>2 DEF KnowsSize
  <2>2. i \in Inos /\ loc[u].fsize \in Nat
    BY <1>0, <2>1 DEF FdInv, BusyThreads, Busy, Types, Locals
  <2>3. disk[i] \in Nat /\ disk'[i] \in Nat /\ disk'[i] >= disk[i]
    BY <1>0, <1>1, <2>2 DEF Types
  <2>4. KnowsSize(u)
    BY DEF SizeInv, OpenCovers
  <2>5. \A n \in Mmios : mm'[n].ino = mm[n].ino
    BY <1>1
  <2>6. InHash(i)' = InHash(i)
    BY <1>2, <1>3, <2>5 DEF InHash
  <2>7. i = ino => InHash(i) # {}
    BY <1>3 DEF InHash
  <2>8. CASE pc[u] \in {"lookup", "map"}
    <3>1. loc[u].fsize <= disk'[i]
      BY <2>1, <2>2, <2>3, <2>4, <2>8 DEF KnowsSize
    <3>2. InHash(i) = {} => loc[u].fsize >= size'[i]
      BY <1>5, <2>1, <2>2, <2>4, <2>7, <2>8 DEF KnowsSize
    <3> QED
      BY <1>2, <2>1, <2>6, <2>8, <3>1, <3>2 DEF KnowsSize
  <2>9. CASE pc[u] = "put"
    <3>1. PICK n : n = loc[u].mmio
      OBVIOUS
    <3>2. n \in Mmios /\ Private(u, n)
      BY <2>9, <3>1, PutsMmio DEF Private
    <3>3. n # m
      BY <1>3, <3>2 DEF FdInv, MmioOwned
    <3>4. InHash(i) = {}
      BY <2>1, <2>9 DEF UseInv, Absent
    <3>5. mm'[n] = mm[n] /\ size'[i] = size[i] /\ mm[n].mapped \in Nat
      BY <1>0, <1>1, <1>5, <2>2, <2>7, <3>2, <3>3, <3>4 DEF Types, Mmio
    <3>6. mm[n].fsize >= size[i] /\ mm[n].mapped <= disk[i]
      BY <2>1, <2>4, <2>9, <3>1 DEF KnowsSize, Covers
    <3>7. mm[n].mapped <= disk'[i]
      BY <2>3, <3>5, <3>6
    <3> QED
      BY <1>2, <2>1, <2>9, <3>1, <3>5, <3>6, <3>7 DEF KnowsSize, Covers
  <2> QED
    BY <2>8, <2>9
<1> QED
  BY <1>9, <1>10, <1>11 DEF SizeInv, OpenCovers

LEMMA SizeInvClose ==
    ASSUME FreshStat, FdInv, UseInv, SizeInv, NEW t \in Threads, NEW fd \in Usable, Close(t, fd)
    PROVE  SizeInv'
<1>m. PICK m, ino : m = fd_table[fd].mmio /\ ino = fd_table[fd].ino
  OBVIOUS
<1>0. Types
  BY DEF FdInv
<1>1. InHash(ino) = {m} /\ m \in hash /\ m \in Mmios /\ mm[m].ino = ino
  BY <1>m, ClosedHolders
<1>2. /\ hash' = hash \ {n \in {m} : LastReference(n)}
      /\ \A n \in Mmios : n # m => mm'[n] = mm[n]
      /\ ~LastReference(m) => /\ mm'[m].ino = mm[m].ino
                              /\ mm'[m].fsize = mm[m].fsize /\ mm'[m].mapped = mm[m].mapped
      /\ pc[t] = "idle" /\ pc'[t] = "free"
      /\ \A u \in Threads : u # t => pc'[u] = pc[u] /\ loc'[u] = loc[u]
      /\ UNCHANGED <<kernel, fd_table, exited, size>>
  BY <1>m, <1>1, Closed
<1>3. \/ disk' = disk
      \/ LastReference(m) /\ disk' = [disk EXCEPT ![ino] = mm[m].fsize]
  BY <1>m, <1>1, ClosedDisk
<1>4. LastReference(m) => Stating(ino) = {}
  <2> DEFINE last == {n \in InHash(fd_table[fd].ino) : LastReference(n)}
  <2>1. last # {} => Stating(fd_table[fd].ino) = {}
    BY DEF Close
  <2> QED
    BY <1>m, <1>1, <2>1
<1>5. hash' = IF LastReference(m) THEN hash \ {m} ELSE hash
  BY <1>2
<1>6. hash \subseteq Mmios /\ ino \in Inos
  BY <1>0, <1>1 DEF Types, UseInv, HashUnique
<1>7. mm[m].fsize >= size[ino]
  BY <1>1 DEF SizeInv, HashCovers, Covers
<1>8. \A i \in Inos : i # ino => disk'[i] = disk[i]
  BY <1>0, <1>3 DEF Types
<1>9. ~LastReference(m) => disk' = disk
  BY <1>3
<1>10. DiskCovers'
  <2>1. disk'[ino] >= size[ino]
    BY <1>0, <1>3, <1>6, <1>7 DEF Types, SizeInv, DiskCovers
  <2> QED
    BY <1>2, <1>8, <2>1 DEF SizeInv, DiskCovers
<1>11. HashCovers'
  <2> SUFFICES ASSUME NEW n \in hash' PROVE Covers(n, mm[n].ino)'
    BY DEF HashCovers
  <2>1. n \in hash /\ Covers(n, mm[n].ino)
    BY <1>5 DEF SizeInv, HashCovers
  <2>2. CASE n = m
    BY <1>2, <1>5, <1>9, <2>1, <2>2 DEF Covers
  <2>3. CASE n # m
    <3>1. mm[n].ino \in Inos /\ mm[n].ino # ino
      BY <1>1, <2>1, <2>3 DEF UseInv, HashUnique
    <3> QED
      BY <1>2, <1>6, <1>8, <2>1, <2>3, <3>1 DEF Covers
  <2> QED
    BY <2>2, <2>3
<1>12. ASSUME NEW u \in Threads PROVE KnowsSize(u)'
  <2>1. CASE u = t
    BY <1>2, <2>1 DEF KnowsSize
  <2>2. CASE u # t
    <3> SUFFICES ASSUME pc[u] \in {"lookup", "map", "put"} PROVE KnowsSize(u)'
      BY <1>2, <2>2 DEF KnowsSize
    <3>1. PICK i : i = loc[u].ino
      OBVIOUS
    <3>2. pc'[u] = pc[u] /\ loc'[u] = loc[u] /\ KnowsSize(u)
      BY <1>2, <2>2 DEF SizeInv, OpenCovers
    <3>3. i \in Inos
      BY <3>1 DEF FdInv, BusyThreads, Busy
    <3>4. ~LastReference(m) \/ i # ino
      <4>1. CASE pc[u] = "lookup"
        BY <1>4, <3>1, <4>1 DEF Stating
      <4>2. CASE pc[u] \in {"map", "put"}
        BY <1>1, <3>1, <4>2 DEF UseInv, Absent
      <4> QED
        BY <4>1, <4>2
    <3>5. disk'[i] = disk[i]
      BY <1>8, <1>9, <3>3, <3>4
    <3>6. InHash(i)' = {} => InHash(i) = {}
      <4>1. CASE ~LastReference(m)
        BY <1>2, <1>5, <1>6, <4>1 DEF InHash
      <4>2. CASE i # ino
        <5>1. \A n \in InHash(i) : n # m /\ n \in hash' /\ mm'[n] = mm[n] /\ mm[n].ino = i
          BY <1>1, <1>2, <1>5, <1>6, <4>2 DEF InHash
        <5> QED
          BY <5>1 DEF InHash
      <4> QED
        BY <3>4, <4>1, <4>2
    <3>7. CASE pc[u] \in {"lookup", "map"}
      BY <1>2, <3>1, <3>2, <3>5, <3>6, <3>7 DEF KnowsSize
    <3>8. CASE pc[u] = "put"
      <4>1. PICK n : n = loc[u].mmio
        OBVIOUS
      <4>2. n \in Mmios /\ Private(u, n)
        BY <3>8, <4>1, PutsMmio DEF Private
      <4>3. n # m
        BY <1>1, <4>2 DEF FdInv, MmioOwned
      <4> QED
        BY <1>2, <3>1, <3>2, <3>5, <3>8, <4>1, <4>2, <4>3 DEF KnowsSize, Covers
    <3> QED
      BY <3>7, <3>8
  <2> QED
    BY <2>1, <2>2
<1> QED
  BY <1>10, <1>11, <1>12 DEF SizeInv, OpenCovers

LEMMA SizeInvInit == Init => SizeInv
<1> SUFFICES ASSUME Init PROVE SizeInv
  OBVIOUS
<1>1. \A i \in Inos : disk[i] \in Nat /\ size[i] = disk[i]
  BY FileTableAssumption DEF Init
<1> QED
  BY <1>1 DEF Init, SizeInv, DiskCovers, HashCovers, OpenCovers, KnowsSize

LEMMA SizeInvNext ==
    SerialOpens /\ FreshStat /\ FdInv /\ UseInv /\ SizeInv /\ [Next]_vars => SizeInv'
<1> SUFFICES ASSUME SerialOpens, FreshStat, FdInv, UseInv, SizeInv, [Next]_vars PROVE SizeInv'
  OBVIOUS
<1>1. CASE UNCHANGED vars
  BY <1>1, SizeInvSame DEF vars
<1>2. ASSUME NEW t \in Threads, ThreadStep(t) PROVE SizeInv'
  <2>1. CASE Lookup(t) \/ Map(t) \/ Put(t)
    BY <2>1, SizeInvLookup, SizeInvMap, SizeInvPut
  <2>2. CASE MapFails(t)
    BY <2>2, SizeInvSame DEF MapFails, End
  <2>3. CASE Install(t)
    <3>1. /\ pc'[t] = "idle" /\ UNCHANGED <<disk, mm, hash, size>>
          /\ \A u \in Threads : u # t => pc'[u] = pc[u] /\ loc'[u] = loc[u]
      BY <2>3, Installed
    <3> QED
      BY <3>1, SizeInvSame
  <2>4. CASE FreeFile(t) \/ Clear(t) \/ KClose(t)
    <3>1. /\ pc'[t] \in Closing \cup {"idle"} /\ UNCHANGED <<disk, mm, hash, size>>
          /\ \A u \in Threads : u # t => pc'[u] = pc[u] /\ loc'[u] = loc[u]
      BY <2>4, ClosingStep
    <3> QED
      BY <3>1, SizeInvSame DEF Closing
  <2> QED
    BY <1>2, <2>1, <2>2, <2>3, <2>4 DEF ThreadStep
<1>3. ASSUME NEW t \in Threads, OpenFails(t) PROVE SizeInv'
  BY <1>3, SizeInvSame DEF OpenFails, End
<1>4. ASSUME NEW t \in Threads, NEW ino \in Inos, NEW flags \in Modes, Open(t, ino, flags)
      PROVE SizeInv'
  BY <1>4, SizeInvOpen
<1>5. ASSUME NEW t \in Threads, NEW fd \in Usable, Close(t, fd) PROVE SizeInv'
  BY <1>5, SizeInvClose
<1>6. ASSUME NEW fd \in Usable, NEW len \in 1 .. MaxSize,
             Read(fd, len) \/ Write(fd, len) \/ WriteFails(fd, len)
      PROVE  SizeInv'
  BY <1>6, SizeInvWrite, SizeInvSame DEF Read, WriteFails, End
<1>7. ASSUME NEW fd \in Usable, NEW to \in 0 .. MaxSize, Seek(fd, to) PROVE SizeInv'
  BY <1>7, SizeInvSame DEF Seek, End
<1> QED
  BY <1>1, <1>2, <1>3, <1>4, <1>5, <1>6, <1>7 DEF Next

\* As long as no two opens of one file overlap and no last close comes
\* between the fstat of an open and its lookup: a file is never cut off below
\* what was written to it, by no close of any of its descriptors.
THEOREM NeverCutOff ==
    ASSUME SerialOpens, FreshStat
    PROVE  Spec => []NothingCutOff
<1>1. FdInv /\ UseInv /\ SizeInv /\ [Next]_vars => SizeInv'
  BY SizeInvNext
<1>2. SizeInv => NothingCutOff
  BY DEF SizeInv, DiskCovers, NothingCutOff
<1> QED
  BY <1>1, <1>2, SizeInvInit, FdInvAlways, UseInvAlways, PTL DEF Spec

=============================================================================
