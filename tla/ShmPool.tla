------------------------------- MODULE ShmPool -------------------------------
(***************************************************************************)
(* Shared memory pools: the chain of system calls that creates a pool, the *)
(* buffers cut from it, the descriptor that goes to the compositor, and    *)
(* Close.  Each pool is used by one goroutine at a time (ShmPool has no    *)
(* lock), but the process has one descriptor table: the kernel hands out   *)
(* the lowest free number, so a number closed once too often may by then   *)
(* belong to somebody else.  Every system call is an action and may fail.  *)
(*                                                                         *)
(* Dimensions are non-negative int32 values, as wl_shm_pool.create_buffer  *)
(* takes them, so their product does not overflow Go's 64-bit int.  Close   *)
(* of a file in memory does not fail; a munmap that fails changes nothing.  *)
(***************************************************************************)
EXTENDS Integers, Sequences, FiniteSets

CONSTANTS
  Pool,        \* the pools a program creates
  Sizes, Dims, \* the sizes it asks for, and the heights and strides of its buffers
  Align,       \* the alignment of buffers (64)
  MaxFD,       \* the descriptor table's last entry
  MaxBuffers,  \* how many buffers are cut from a pool
  NoFile, Other \* a free table entry; a descriptor of another part of the program

ASSUME ShmAssumption ==
  /\ Sizes \subseteq Nat /\ Dims \subseteq Nat
  /\ Align \in Nat \ {0} /\ MaxFD \in Nat /\ MaxBuffers \in Nat
  /\ {NoFile, Other} \cap Pool = {} /\ NoFile # Other

VARIABLES
  pool,      \* the ShmPool structs, and how far their creation has come
  buffers,   \* the buffers cut from each pool, oldest first
  dup,       \* a duplicate of the pool's descriptor that is being sent, or NoFD
  fdTable,   \* the kernel's descriptor table: the file behind each number
  file,      \* the kernel's files: size, sealed, and mapped into the client
  theirs,    \* the numbers that another part of the program has open
  nameTaken, \* /dev/shm/wlclient-<pid> exists
  shared     \* the pools whose file the compositor has got

kernelVars == <<file, theirs, nameTaken>>
vars == <<pool, buffers, dup, fdTable, file, theirs, nameTaken, shared>>

NoFD == -1
FD == 0 .. MaxFD
Steps == {"none", "memfd", "tmpfile", "named", "unlink", "truncate", "seal", "map",
          "ready", "unmapped", "closed", "failed"}
PoolRecord == [step : Steps, fd : FD \cup {NoFD}, size : Nat, offset : Nat, memfd : BOOLEAN]
Buffer == [offset : Nat, size : Nat]

Init ==
  /\ pool = [p \in Pool |-> [step |-> "none", fd |-> NoFD, size |-> 0, offset |-> 0, memfd |-> FALSE]]
  /\ buffers = [p \in Pool |-> <<>>]
  /\ dup = [p \in Pool |-> NoFD]
  /\ fdTable = [d \in FD |-> NoFile]
  /\ file = [p \in Pool |-> [size |-> 0, sealed |-> FALSE, mapped |-> FALSE]]
  /\ nameTaken = FALSE /\ theirs = {} /\ shared = {}

-----------------------------------------------------------------------------
(* The kernel (external) *)

\* Opening a file yields the lowest free number; with none left it fails.
Opens(d, f) ==
  /\ fdTable[d] = NoFile
  /\ \A e \in FD : fdTable[e] = NoFile => d <= e
  /\ fdTable' = [fdTable EXCEPT ![d] = f]

\* close(2); of a number that is not open it does nothing but return EBADF.
CloseFD(d) == fdTable' = IF d \in FD THEN [fdTable EXCEPT ![d] = NoFile] ELSE fdTable

-----------------------------------------------------------------------------
(* CreateShmPool, and in it CreateAnonymousFile *)

At(p, step) == pool[p].step = step
Goto(p, step) == pool' = [pool EXCEPT ![p].step = step]

\* An open call of the chain: with the new descriptor go on at `next`.
Opened(p, next, memfd) ==
  /\ \E d \in FD :
       /\ Opens(d, p)
       /\ pool' = [pool EXCEPT ![p].step = next, ![p].fd = d, ![p].memfd = memfd]
  /\ UNCHANGED <<buffers, dup, file, theirs, shared>>

Fallback(p, next) == Goto(p, next) /\ UNCHANGED <<buffers, dup, fdTable, kernelVars, shared>>

\* Mutant: an error of the chain is returned without closing the file.
GiveUpLeaks(p) ==
  /\ pool' = [pool EXCEPT ![p].step = "failed", ![p].fd = NoFD]
  /\ UNCHANGED <<buffers, dup, fdTable, kernelVars, shared>>

\* An error after the file was opened: close it and return the error.
GiveUp(p) ==
  /\ CloseFD(pool[p].fd)
  /\ pool' = [pool EXCEPT ![p].step = "failed", ![p].fd = NoFD]
  /\ UNCHANGED <<buffers, dup, kernelVars, shared>>

CreateShmPool(p, size) ==
  /\ At(p, "none")
  /\ pool' = [pool EXCEPT ![p].step = "memfd", ![p].size = size]
  /\ UNCHANGED <<buffers, dup, fdTable, kernelVars, shared>>

MemfdCreate(p) ==
  /\ At(p, "memfd")
  /\ (Opened(p, "truncate", TRUE) /\ UNCHANGED nameTaken) \/ Fallback(p, "tmpfile")

OpenTmpfile(p) ==
  /\ At(p, "tmpfile")
  /\ (Opened(p, "truncate", FALSE) /\ UNCHANGED nameTaken) \/ Fallback(p, "named")

\* The last resort: a name that is the same for all pools of a process, so
\* O_EXCL fails while another goroutine is between Open and Unlink.
OpenNamed(p) ==
  /\ At(p, "named")
  /\ \/ ~nameTaken /\ Opened(p, "unlink", FALSE) /\ nameTaken' = TRUE
     \/ Fallback(p, "failed")

Unlink(p) ==
  /\ At(p, "unlink")
  /\ nameTaken' = FALSE
  /\ Goto(p, "truncate")
  /\ UNCHANGED <<buffers, dup, fdTable, file, theirs, shared>>

Ftruncate(p) ==
  /\ At(p, "truncate")
  /\ \/ /\ file' = [file EXCEPT ![p].size = pool[p].size]
        /\ Goto(p, IF pool[p].memfd THEN "seal" ELSE "map")
        /\ UNCHANGED <<buffers, dup, fdTable, theirs, nameTaken, shared>>
     \/ GiveUp(p)

\* Mutant: the file is used without its seals.
AddSealsSkipped(p) == At(p, "seal") /\ Fallback(p, "map")

AddSeals(p) ==
  /\ At(p, "seal")
  /\ \/ /\ file' = [file EXCEPT ![p].sealed = TRUE]
        /\ Goto(p, "map")
        /\ UNCHANGED <<buffers, dup, fdTable, theirs, nameTaken, shared>>
     \/ GiveUp(p)

\* Mmap refuses an empty mapping.
MapMemory(p) ==
  /\ At(p, "map")
  /\ \/ /\ pool[p].size > 0
        /\ file' = [file EXCEPT ![p].mapped = TRUE]
        /\ Goto(p, "ready")
        /\ UNCHANGED <<buffers, dup, fdTable, theirs, nameTaken, shared>>
     \/ GiveUp(p)

-----------------------------------------------------------------------------
(* Using a pool.  Nothing stops a program from allocating in a closed one.   *)

Created(p) == pool[p].step \in {"ready", "unmapped", "closed"}

\* Mutant: the padding is taken from the offset.
PaddedBack(n) == n - ((Align - (n % Align)) % Align)

\* The offset of the next buffer: n rounded up to the alignment.
Padded(n) == n + ((Align - (n % Align)) % Align)

\* Mutant: only the start of the buffer has to be inside the pool.
RoomAtStart(p, size) == pool[p].offset <= pool[p].size

Room(p, size) == pool[p].offset + size <= pool[p].size

\* A buffer that does not fit changes nothing.
AllocateBuffer(p, height, stride) ==
  LET size == height * stride IN
  /\ Created(p) /\ Len(buffers[p]) < MaxBuffers
  /\ Room(p, size)
  /\ buffers' = [buffers EXCEPT ![p] = Append(@, [offset |-> pool[p].offset, size |-> size])]
  /\ pool' = [pool EXCEPT ![p].offset = Padded(@ + size)]
  /\ UNCHANGED <<dup, fdTable, kernelVars, shared>>

\* A program that keeps the pool sends a duplicate of FD() to the compositor
\* (wl_shm.create_pool) ...
DupFD(p) ==
  /\ Created(p) /\ pool[p].fd \in FD /\ dup[p] = NoFD
  /\ \E d \in FD : Opens(d, fdTable[pool[p].fd]) /\ dup' = [dup EXCEPT ![p] = d]
  /\ UNCHANGED <<pool, buffers, kernelVars, shared>>

\* ... which Context.request closes once it is sent (CloseSentFD); after an
\* error the caller does.
SendFD(p) ==
  /\ dup[p] # NoFD
  /\ CloseFD(dup[p])
  /\ dup' = [dup EXCEPT ![p] = NoFD]
  /\ shared' \in {shared, shared \cup {p}}
  /\ UNCHANGED <<pool, buffers, kernelVars>>

\* Close, first half: munmap.
Unmap(p) ==
  /\ At(p, "ready")
  /\ file' = [file EXCEPT ![p].mapped = FALSE]
  /\ Goto(p, "unmapped")
  /\ UNCHANGED <<buffers, dup, fdTable, theirs, nameTaken, shared>>

\* Mutant: p.fd keeps its value.
CloseKeepsFD(p) ==
  /\ pool[p].step \in {"unmapped", "closed"}
  /\ CloseFD(pool[p].fd)
  /\ Goto(p, "closed")
  /\ UNCHANGED <<buffers, dup, kernelVars, shared>>

\* Close, second half; for a pool that is closed already, the whole of it.
Close(p) ==
  /\ pool[p].step \in {"unmapped", "closed"}
  /\ CloseFD(pool[p].fd)
  /\ pool' = [pool EXCEPT ![p].step = "closed", ![p].fd = NoFD]
  /\ UNCHANGED <<buffers, dup, kernelVars, shared>>

-----------------------------------------------------------------------------
(* The rest of the program, and the compositor (external) *)

OtherOpens ==
  /\ \E d \in FD : Opens(d, Other) /\ theirs' = theirs \cup {d}
  /\ UNCHANGED <<pool, buffers, dup, file, nameTaken, shared>>

OtherCloses ==
  /\ \E d \in theirs : CloseFD(d) /\ theirs' = theirs \ {d}
  /\ UNCHANGED <<pool, buffers, dup, file, nameTaken, shared>>

\* Who has the file may resize it, unless it is sealed.
CompositorResizes(p, size) ==
  /\ p \in shared /\ ~file[p].sealed /\ file[p].size # size
  /\ file' = [file EXCEPT ![p].size = size]
  /\ UNCHANGED <<pool, buffers, dup, fdTable, theirs, nameTaken, shared>>

-----------------------------------------------------------------------------

PoolStep(p) ==
  \/ \E size \in Sizes : CreateShmPool(p, size) \/ CompositorResizes(p, size)
  \/ MemfdCreate(p) \/ OpenTmpfile(p) \/ OpenNamed(p) \/ Unlink(p)
  \/ Ftruncate(p) \/ AddSeals(p) \/ MapMemory(p)
  \/ \E h, s \in Dims : AllocateBuffer(p, h, s)
  \/ DupFD(p) \/ SendFD(p) \/ Unmap(p) \/ Close(p)

Next == (\E p \in Pool : PoolStep(p)) \/ OtherOpens \/ OtherCloses

Spec == Init /\ [][Next]_vars

-----------------------------------------------------------------------------
(* Properties *)

TypeOK ==
  /\ pool \in [Pool -> PoolRecord]
  /\ buffers \in [Pool -> Seq(Buffer)]
  /\ dup \in [Pool -> FD \cup {NoFD}]
  /\ fdTable \in [FD -> Pool \cup {NoFile, Other}]
  /\ file \in [Pool -> [size : Nat, sealed : BOOLEAN, mapped : BOOLEAN]]
  /\ theirs \subseteq FD /\ nameTaken \in BOOLEAN /\ shared \subseteq Pool

\* AllocateBuffer: the buffers of a pool lie inside it, start at an aligned
\* offset and do not overlap, so that Data() of one never reaches into
\* another or past the mapping.
BuffersDisjoint ==
  \A p \in Pool : \A i \in 1 .. Len(buffers[p]) :
    LET b == buffers[p][i] IN
    /\ b.offset + b.size <= pool[p].size
    /\ b.offset % Align = 0
    /\ \A j \in 1 .. i - 1 : buffers[p][j].offset + buffers[p][j].size <= b.offset

\* The descriptors the program knows are the ones it means: p.fd and a
\* duplicate on its way denote the pool's own file, and no close of this
\* code ever hits a number that another part of the program was given.
DescriptorsOwned ==
  /\ \A p \in Pool :
       /\ pool[p].fd # NoFD => fdTable[pool[p].fd] = p
       /\ dup[p] # NoFD => fdTable[dup[p]] = p
  /\ \A d \in theirs : fdTable[d] = Other

\* CreateShmPool, Close: a pool whose creation failed or that was closed has
\* no descriptor, no mapping and no name left, whichever call of the chain
\* failed; until then it has exactly one besides a duplicate on its way.
NothingLeaked ==
  /\ \A d \in FD : fdTable[d] \in Pool => d \in {pool[fdTable[d]].fd, dup[fdTable[d]]}
  /\ \A p \in Pool : file[p].mapped <=> At(p, "ready")
  /\ nameTaken => \E p \in Pool : At(p, "unlink")

\* CreateAnonymousFile's "Add seals to prevent resizing": the memory a program
\* has mapped from a memfd is backed to its full size, even when the
\* compositor has the file.
MappedMemoryBacked ==
  \A p \in Pool : file[p].mapped /\ pool[p].memfd => file[p].size = pool[p].size
=============================================================================
