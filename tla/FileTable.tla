----------------------------- MODULE FileTable ------------------------------
(***************************************************************************)
(* Open files: fd_table of src/src/file.c, the inode hash of file_hash.c   *)
(* and the mmios that get_new_mmio and release_mmio of allocator.c map and *)
(* unmap.  Threads open, read, write, seek and close.                      *)
(*                                                                         *)
(* A call on a descriptor holds the mutex of its file, so a read, a write  *)
(* or a seek is one step; what concurrent calls do to the data is the      *)
(* subject of Mmio, and of the data only sizes are kept here, in cells.  A *)
(* bucket of the hash is used under its mutex.  An application makes no    *)
(* call on a descriptor that it is closing.                                *)
(***************************************************************************)
EXTENDS Integers, FiniteSets

CONSTANTS Threads, NULL,
          Inos,          \* inode numbers
          Fds,           \* descriptors, numbers
          Mmios,         \* the mmios of the allocator
          Modes,         \* flags & O_ACCMODE: "rd", "wr", "rw"
          DefaultMmap,   \* DEFAULT_MMAP_SIZE
          BasicMmap,     \* BASIC_MMAP_SIZE
          MaxSize,       \* bound on file sizes
          SerialOpens,   \* TRUE: two opens of one file do not overlap
          FreshStat      \* TRUE: the last close of a file does not come
                         \* between the fstat and the lookup of an open

\* file_t, and whether it has been freed
File == [mmio : Mmios, flags : Modes, ino : Inos, pos : Nat, freed : BOOLEAN]

ASSUME FileTableAssumption ==
    /\ IsFiniteSet(Threads) /\ IsFiniteSet(Fds) /\ Fds \subseteq Nat
    /\ NULL \notin Inos \cup File
    /\ Modes \subseteq {"rd", "wr", "rw"}
    /\ {DefaultMmap, BasicMmap, MaxSize} \subseteq Nat \ {0}
    /\ {SerialOpens, FreshStat} \subseteq BOOLEAN

VARIABLES
    disk,       \* ino -> st_size
    kernel,     \* fd -> the inode the kernel has it open for, or NULL
    fd_table,   \* fd -> file_t, or NULL
    mm,         \* mmio -> [ino, ref, fsize, mapped, writable]
    hash,       \* the mmios in file_hash
    pool,       \* free mmios
    pc, loc,    \* thread -> where it is, its local variables
    exited,     \* the process has ended
    size        \* history: ino -> the size its writes give the file

vars == <<disk, kernel, fd_table, mm, hash, pool, pc, loc, exited, size>>

NoLocals == [fd |-> NULL, ino |-> NULL, flags |-> NULL, fsize |-> 0, mmio |-> NULL]
FreeMmio == [ino |-> NULL, ref |-> 0, fsize |-> 0, mapped |-> 0, writable |-> FALSE]

\* Before the first open.  A file may have any content.
Init ==
    /\ disk \in [Inos -> {0, DefaultMmap}]
    /\ kernel = [fd \in Fds |-> NULL]
    /\ fd_table = [fd \in Fds |-> NULL]
    /\ mm = [m \in Mmios |-> FreeMmio]
    /\ hash = {}
    /\ pool = Mmios
    /\ pc = [t \in Threads |-> "idle"]
    /\ loc = [t \in Threads |-> NoLocals]
    /\ exited = FALSE
    /\ size = disk

-----------------------------------------------------------------------------
Larger(m, n) == IF m < n THEN n ELSE m
Smaller(m, n) == IF m < n THEN m ELSE n
Goto(t, to) == pc' = [pc EXCEPT ![t] = to]

\* HANDLE_ERROR, or a signal.
End == /\ exited' = TRUE
       /\ UNCHANGED <<disk, kernel, fd_table, mm, hash, pool, pc, loc, size>>

\* The mmios that a walk of ino's bucket finds.
InHash(ino) == {m \in hash : mm[m].ino = ino}

Opening == {"lookup", "map", "put", "install"}
Closing == {"free", "clear", "kclose"}
Stating(ino) == {t \in Threads : pc[t] = "lookup" /\ loc[t].ino = ino}

-----------------------------------------------------------------------------
(* open: libnvmmio_open for a file opened with O_ATOMIC.                    *)

\* posix.open, which returns the least free descriptor, and fstat.
Open(t, ino, flags) ==
    LET free == {fd \in Fds : kernel[fd] = NULL}
        fd == CHOOSE n \in free : \A m \in free : n <= m
    IN  /\ pc[t] = "idle"
        /\ SerialOpens =>
              \A u \in Threads : ~(pc[u] \in Opening /\ loc[u].ino = ino)
        /\ free # {}
        /\ kernel' = [kernel EXCEPT ![fd] = ino]
        /\ loc' = [loc EXCEPT ![t] = [NoLocals EXCEPT !.fd = fd, !.ino = ino,
                                         !.flags = flags, !.fsize = disk[ino]]]
        /\ Goto(t, "lookup")
        /\ UNCHANGED <<disk, fd_table, mm, hash, pool, exited, size>>

\* No descriptor is left: libnvmmio_open gets -1 and its fstat fails.
OpenFails(t) ==
    /\ pc[t] = "idle"
    /\ \A fd \in Fds : kernel[fd] # NULL
    /\ End

Found(ino) == CHOOSE m \in InHash(ino) : TRUE

RefForgotten(m) == mm
Referenced(m) == [mm EXCEPT ![m].ref = @ + 1]

\* get_mmio_hash
Lookup(t) ==
    LET ino == loc[t].ino
    IN  /\ pc[t] = "lookup"
        /\ \/ /\ InHash(ino) # {}
              /\ mm' = Referenced(Found(ino))
              /\ loc' = [loc EXCEPT ![t].mmio = Found(ino)]
              /\ Goto(t, "install")
           \/ /\ InHash(ino) = {}
              /\ Goto(t, "map")
              /\ UNCHANGED <<mm, loc>>
        /\ UNCHANGED <<disk, kernel, fd_table, hash, pool, exited, size>>

\* posix_fallocate needs a descriptor open for writing, a shared mapping one
\* that is open for reading.
Mappable(flags, fsize) == flags = "rw" \/ (flags = "rd" /\ fsize > 0)

\* get_new_mmio, which leaves ref as it is.
Map(t) ==
    LET l == loc[t]
        len == IF l.fsize = 0 THEN DefaultMmap ELSE l.fsize
    IN  /\ pc[t] = "map"
        /\ Mappable(l.flags, l.fsize)
        /\ \E m \in pool :
              /\ pool' = pool \ {m}
              /\ mm' = [mm EXCEPT ![m] = [ino |-> l.ino, ref |-> @.ref, fsize |-> l.fsize,
                                          mapped |-> len, writable |-> l.flags = "rw"]]
              /\ loc' = [loc EXCEPT ![t].mmio = m]
        /\ disk' = [disk EXCEPT ![l.ino] = IF l.fsize = 0 THEN Larger(@, len) ELSE @]
        /\ Goto(t, "put")
        /\ UNCHANGED <<kernel, fd_table, hash, exited, size>>

MapFails(t) ==
    /\ pc[t] = "map"
    /\ ~Mappable(loc[t].flags, loc[t].fsize)
    /\ End

\* put_mmio_hash.  A thread that finds another mmio for the inode goes on
\* with that one, does not count itself and drops its own.
Put(t) ==
    LET l == loc[t]
        lost == InHash(l.ino) # {}
    IN  /\ pc[t] = "put"
        /\ mm' = IF lost THEN mm ELSE Referenced(l.mmio)
        /\ hash' = IF lost THEN hash ELSE hash \cup {l.mmio}
        /\ loc' = [loc EXCEPT ![t].mmio = IF lost THEN Found(l.ino) ELSE @]
        /\ Goto(t, "install")
        /\ UNCHANGED <<disk, kernel, fd_table, pool, exited, size>>

\* The rest of libnvmmio_open.
Install(t) ==
    LET l == loc[t]
    IN  /\ pc[t] = "install"
        /\ fd_table' = [fd_table EXCEPT ![l.fd] = [mmio |-> l.mmio, flags |-> l.flags,
                                          ino |-> l.ino, pos |-> 0, freed |-> FALSE]]
        /\ loc' = [loc EXCEPT ![t] = NoLocals]
        /\ Goto(t, "idle")
        /\ UNCHANGED <<disk, kernel, mm, hash, pool, exited, size>>

-----------------------------------------------------------------------------
(* close.                                                                   *)

CloseOrderKernelFirst == [idle |-> "kclose", kclose |-> "free",
                          free |-> "clear", clear |-> "idle"]
CloseOrder == [idle |-> "free", free |-> "clear", clear |-> "kclose", kclose |-> "idle"]

\* The descriptors an application may use.
Usable == {fd \in Fds : /\ fd_table[fd] # NULL
                        /\ \A t \in Threads : pc[t] \in Closing => loc[t].fd # fd}

Step(t, l) ==
    LET to == CloseOrder[pc[t]]
    IN  /\ Goto(t, to)
        /\ loc' = [loc EXCEPT ![t] = IF to = "idle" THEN NoLocals ELSE l]

Truncated(m, flags) ==
    IF flags # "rd" THEN [disk EXCEPT ![mm[m].ino] = mm[m].fsize] ELSE disk

LastButOne(m) == mm[m].ref - 1 <= 1
LastReference(m) == mm[m].ref - 1 <= 0

\* release_mmio, with init_mmio, which does not reset ref.
Released(m) == [FreeMmio EXCEPT !.ref = mm[m].ref - 1]

\* The start of close: delete_mmio_hash, with release_mmio for the last
\* reference.
Close(t, fd) ==
    LET file == fd_table[fd]
        found == InHash(file.ino)
        last == {m \in found : LastReference(m)}
    IN  /\ pc[t] = "idle"
        /\ fd \in Usable
        /\ FreshStat /\ last # {} => Stating(file.ino) = {}
        /\ mm' = [m \in Mmios |->
                     IF m \in last THEN Released(m)
                     ELSE IF m \in found THEN [mm[m] EXCEPT !.ref = @ - 1]
                     ELSE mm[m]]
        /\ hash' = hash \ last
        /\ pool' = pool \cup last
        /\ disk' = IF last # {} THEN Truncated(CHOOSE m \in last : TRUE, file.flags) ELSE disk
        /\ Step(t, [NoLocals EXCEPT !.fd = fd, !.ino = file.ino])
        /\ UNCHANGED <<kernel, fd_table, exited, size>>

FreeFile(t) ==
    /\ pc[t] = "free"
    /\ fd_table' = [fd_table EXCEPT ![loc[t].fd].freed = TRUE]
    /\ Step(t, loc[t])
    /\ UNCHANGED <<disk, kernel, mm, hash, pool, exited, size>>

Clear(t) ==
    /\ pc[t] = "clear"
    /\ fd_table' = [fd_table EXCEPT ![loc[t].fd] = NULL]
    /\ Step(t, loc[t])
    /\ UNCHANGED <<disk, kernel, mm, hash, pool, exited, size>>

\* posix.close
KClose(t) ==
    /\ pc[t] = "kclose"
    /\ kernel' = [kernel EXCEPT ![loc[t].fd] = NULL]
    /\ Step(t, loc[t])
    /\ UNCHANGED <<disk, fd_table, mm, hash, pool, exited, size>>

-----------------------------------------------------------------------------
(* Calls on a descriptor.                                                   *)

SetPos(fd, pos) == fd_table' = [fd_table EXCEPT ![fd].pos = pos]

\* read and check_fsize
Read(fd, len) ==
    LET f == fd_table[fd]
    IN  /\ SetPos(fd, Smaller(f.pos + len, mm[f.mmio].fsize))
        /\ UNCHANGED <<disk, kernel, mm, hash, pool, pc, loc, exited, size>>

NotExpended(mapped, end) == {mapped}

\* expend_mmio: the length of the mapping once it takes end cells.  The loop
\* goes to BASIC_MMAP_SIZE, or doubles, until it is there: the first such
\* length that is no less than end, as a set with one element.
Expended(mapped, end) ==
    LET first == IF mapped >= BasicMmap THEN 2 * mapped ELSE BasicMmap
    IN  IF mapped >= end THEN {mapped}
        ELSE IF first >= end THEN {first}
        ELSE {n \in end .. 2 * end - 1 : \E k \in 1 .. end : n = first * 2^k}

\* mmio_write looks at the mapping, never at the flags of the descriptor.
Writes(f, end) ==
    /\ mm[f.mmio].writable
    /\ mm[f.mmio].mapped >= end \/ f.flags # "rd"

EndIsSize(fsize, end) == end
NewSize(fsize, end) == IF fsize < end THEN end ELSE fsize

\* write, with expend_mmio
Write(fd, len) ==
    LET f == fd_table[fd]
        end == f.pos + len
    IN  /\ end <= MaxSize
        /\ Writes(f, end)
        /\ \E new \in Expended(mm[f.mmio].mapped, end) :
              /\ mm' = [mm EXCEPT ![f.mmio].mapped = new,
                                  ![f.mmio].fsize = NewSize(@, end)]
              /\ disk' = [disk EXCEPT ![f.ino] =
                             IF new > mm[f.mmio].mapped THEN Larger(@, new) ELSE @]
        /\ SetPos(fd, end)
        /\ size' = [size EXCEPT ![f.ino] = Larger(@, end)]
        /\ UNCHANGED <<kernel, hash, pool, pc, loc, exited>>

WriteFails(fd, len) ==
    /\ ~Writes(fd_table[fd], fd_table[fd].pos + len)
    /\ End

PastEnd(fd, to) == to > mm[fd_table[fd].mmio].fsize + 1
Beyond(fd, to) == to > mm[fd_table[fd].mmio].fsize

\* lseek, to a position however it is given; it ends the process beyond the
\* end of the file.
Seek(fd, to) ==
    \/ /\ ~Beyond(fd, to)
       /\ SetPos(fd, to)
       /\ UNCHANGED <<disk, kernel, mm, hash, pool, pc, loc, exited, size>>
    \/ /\ Beyond(fd, to)
       /\ End

ThreadStep(t) ==
    \/ Lookup(t) \/ Map(t) \/ MapFails(t) \/ Put(t) \/ Install(t)
    \/ FreeFile(t) \/ Clear(t) \/ KClose(t)

Next ==
    /\ ~exited
    /\ \/ \E t \in Threads :
             \/ ThreadStep(t) \/ OpenFails(t)
             \/ \E ino \in Inos, flags \in Modes : Open(t, ino, flags)
             \/ \E fd \in Usable : Close(t, fd)
       \/ \E fd \in Usable :
             \/ \E len \in 1 .. MaxSize : Read(fd, len) \/ Write(fd, len) \/ WriteFails(fd, len)
             \/ \E to \in 0 .. MaxSize : Seek(fd, to)

Spec == Init /\ [][Next]_vars

-----------------------------------------------------------------------------
\* Every variable has its type.
TypeOK ==
    /\ disk \in [Inos -> Nat] /\ size \in [Inos -> Nat]
    /\ kernel \in [Fds -> Inos \cup {NULL}]
    /\ fd_table \in [Fds -> File \cup {NULL}]
    /\ \A m \in Mmios : /\ mm[m].ino \in Inos \cup {NULL}
                        /\ mm[m].ref \in Int
                        /\ mm[m].fsize \in Nat /\ mm[m].fsize <= mm[m].mapped
    /\ hash \cup pool \subseteq Mmios /\ hash \cap pool = {}

\* Who counts on mmio m: open files, and threads on their way to one.
Holders(m) ==
    {<<"file", fd>> : fd \in {d \in Usable : fd_table[d].mmio = m}} \cup
    {<<"open", t>> : t \in {u \in Threads : pc[u] = "install" /\ loc[u].mmio = m}}

\* A file uses an mmio that is in the hash and belongs to its inode, from its
\* lookup in open to its release in close, whatever other opens and closes
\* of the file do: it is never unmapped, or another file's, under a call.
UseLive == \A m \in Mmios : \A h \in Holders(m) :
              /\ m \in hash
              /\ h[1] = "file" => fd_table[h[2]].ino = mm[m].ino

\* The references of an mmio are its users, and one without users is out of
\* the hash.  release_mmio and init_mmio do not reset the count, so it has to
\* be 0 on its own when the mmio is reused.
RefCounts == \A m \in Mmios : /\ mm[m].ref = Cardinality(Holders(m))
                              /\ mm[m].ref = 0 => m \notin hash

\* fd_table agrees with the kernel: a file in it is for an open descriptor
\* and its inode, and is not freed memory unless it is just being closed.
FdConsistent == \A fd \in Fds : fd_table[fd] # NULL =>
                   /\ kernel[fd] = fd_table[fd].ino
                   /\ fd \in Usable => ~fd_table[fd].freed

\* A position never passes the end of the file, so the length that read has
\* left after check_fsize is not negative.
PosInFile == \A fd \in Usable :
                fd_table[fd].pos <= mm[fd_table[fd].mmio].fsize

\* A file that nobody has open is at least as long as its writes made it: no
\* ftruncate of a last close cuts off what was written through another file.
NothingCutOff == \A ino \in Inos :
                    (\A fd \in Fds : kernel[fd] # ino) => disk[ino] >= size[ino]

\* It has exactly that length.
SizeExact == \A ino \in Inos :
                (\A fd \in Fds : kernel[fd] # ino) => disk[ino] = size[ino]

\* A descriptor open for writing writes into a writable mapping.
MappedForWriting == \A fd \in Usable :
                       fd_table[fd].flags = "rw" => mm[fd_table[fd].mmio].writable
=============================================================================
