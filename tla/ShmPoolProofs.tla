---------------------------- MODULE ShmPoolProofs ----------------------------
(***************************************************************************)
(* Theorems about ShmPool, for pools and buffers of any size, any number   *)
(* of calls, and a failure of any step: buffers are disjoint, mapped       *)
(* memory is backed, and descriptors are closed by their owner and not     *)
(* leaked.                                                                 *)
(***************************************************************************)
EXTENDS ShmPool, TLAPS

USE ShmAssumption DEF ShmAssumption

-----------------------------------------------------------------------------
(* Alignment *)

\* Rounding up: Padded(n) is the next multiple of Align, and never less than n,
\* so the padding of AllocateBuffer cannot move the offset back.
LEMMA PaddedAligned ==
  ASSUME NEW n \in Nat
  PROVE  Padded(n) \in Nat /\ Padded(n) >= n /\ Padded(n) % Align = 0
<1> DEFINE q == n \div Align
           r == n % Align
<1>1. q \in Nat /\ r \in 0 .. Align - 1 /\ n = (Align * q) + r
  BY Z3
<1>2. Align * q \in Nat /\ Align * (q + 1) = (Align * q) + Align /\ Align * (q + 1) \in Nat
  BY <1>1, Z3
<1>3. CASE r = 0
  <2>1. (Align - r) % Align = 0
    BY <1>3, Z3
  <2> QED BY <1>1, <1>3, <2>1 DEF Padded
<1>4. CASE r # 0
  <2>1. (Align - r) % Align = Align - r
    BY <1>1, <1>4, Z3
  <2>2. Padded(n) = Align * (q + 1)
    BY <1>1, <1>2, <2>1 DEF Padded
  <2>3. (Align * (q + 1)) % Align = 0
    BY <1>1, Z3
  <2> QED BY <1>1, <1>2, <2>2, <2>3
<1> QED BY <1>3, <1>4

-----------------------------------------------------------------------------
(* Steps that leave the buffers alone *)

PoolTypes == pool \in [Pool -> PoolRecord] /\ buffers \in [Pool -> Seq(Buffer)]

\* No buffer is added, no offset moves, and only a pool that has not been
\* created yet gets a size.
Kept ==
  /\ buffers' = buffers
  /\ \A q \in Pool :
       /\ pool'[q].offset = pool[q].offset
       /\ pool'[q].size = pool[q].size \/ pool[q].step = "none"
       /\ pool'[q].step = "none" => pool[q].step = "none"

\* Updating one entry of a function with a value of its range keeps its type.
LEMMA UpdateType ==
  ASSUME NEW S, NEW T, NEW f \in [S -> T], NEW x, NEW v \in T
  PROVE  [f EXCEPT ![x] = v] \in [S -> T]
OBVIOUS

\* A ShmPool struct whose fields are assigned values of their types is one.
LEMMA RecordUpdate ==
  ASSUME NEW r \in PoolRecord, NEW s \in Steps, NEW d \in FD \cup {NoFD}, NEW n \in Nat, NEW m \in BOOLEAN
  PROVE  /\ [r EXCEPT !.step = s] \in PoolRecord
         /\ [r EXCEPT !.step = s, !.fd = d] \in PoolRecord
         /\ [r EXCEPT !.step = s, !.fd = d, !.memfd = m] \in PoolRecord
         /\ [r EXCEPT !.step = s, !.size = n] \in PoolRecord
         /\ [r EXCEPT !.offset = n] \in PoolRecord
BY DEF PoolRecord

\* One pool's record is replaced by one with the same offset.
LEMMA Replaced ==
  ASSUME PoolTypes, NEW p \in Pool, NEW r \in PoolRecord, pool' = [pool EXCEPT ![p] = r],
         buffers' = buffers, r.step # "none", r.offset = pool[p].offset,
         r.size = pool[p].size \/ pool[p].step = "none"
  PROVE  PoolTypes' /\ Kept
<1>1. pool' \in [Pool -> PoolRecord]
  BY UpdateType DEF PoolTypes
<1>2. ASSUME NEW q \in Pool
      PROVE  pool'[q] = IF q = p THEN r ELSE pool[q]
  BY Zenon DEF PoolTypes
<1> QED BY <1>1, <1>2 DEF PoolTypes, Kept

\* The steps of CreateShmPool and Close: a new step, and perhaps a descriptor.
LEMMA Moved ==
  ASSUME PoolTypes, NEW p \in Pool, NEW s \in Steps \ {"none"}, buffers' = buffers,
         NEW d \in FD \cup {NoFD}, NEW m \in BOOLEAN,
         \/ pool' = [pool EXCEPT ![p].step = s]
         \/ pool' = [pool EXCEPT ![p].step = s, ![p].fd = d]
         \/ pool' = [pool EXCEPT ![p].step = s, ![p].fd = d, ![p].memfd = m]
  PROVE  PoolTypes' /\ Kept
<1>1. pool[p] \in PoolRecord /\ pool \in [Pool -> PoolRecord]
  BY DEF PoolTypes
<1>2. CASE pool' = [pool EXCEPT ![p].step = s]
  <2> DEFINE r == [pool[p] EXCEPT !.step = s]
  <2>1. r \in PoolRecord /\ r.step = s /\ r.offset = pool[p].offset /\ r.size = pool[p].size
    BY <1>1, RecordUpdate DEF PoolRecord
  <2>2. pool' = [pool EXCEPT ![p] = r]
    BY <1>1, <1>2
  <2>3. s # "none"
    BY Zenon
  <2> HIDE DEF r
  <2> QED BY <2>1, <2>2, <2>3, Replaced, Zenon
<1>3. CASE pool' = [pool EXCEPT ![p].step = s, ![p].fd = d]
  <2> DEFINE r == [pool[p] EXCEPT !.step = s, !.fd = d]
  <2>1. r \in PoolRecord /\ r.step = s /\ r.offset = pool[p].offset /\ r.size = pool[p].size
    BY <1>1, RecordUpdate DEF PoolRecord
  <2>2. pool' = [pool EXCEPT ![p] = r]
    BY <1>1, <1>3
  <2>3. s # "none"
    BY Zenon
  <2> HIDE DEF r
  <2> QED BY <2>1, <2>2, <2>3, Replaced, Zenon
<1>4. CASE pool' = [pool EXCEPT ![p].step = s, ![p].fd = d, ![p].memfd = m]
  <2> DEFINE r == [pool[p] EXCEPT !.step = s, !.fd = d, !.memfd = m]
  <2>1. r \in PoolRecord /\ r.step = s /\ r.offset = pool[p].offset /\ r.size = pool[p].size
    BY <1>1, RecordUpdate DEF PoolRecord
  <2>2. pool' = [pool EXCEPT ![p] = r]
    BY <1>1, <1>4
  <2>3. s # "none"
    BY Zenon
  <2> HIDE DEF r
  <2> QED BY <2>1, <2>2, <2>3, Replaced, Zenon
<1> QED BY <1>2, <1>3, <1>4

\* Every step but AllocateBuffer leaves buffers, offsets and sizes alone.
LEMMA OthersKeep ==
  ASSUME PoolTypes, [Next]_vars,
         ~ \E p \in Pool, h, s \in Dims : AllocateBuffer(p, h, s)
  PROVE  PoolTypes' /\ Kept
<1>1. ASSUME UNCHANGED <<pool, buffers>> PROVE PoolTypes' /\ Kept
  BY <1>1, Zenon DEF PoolTypes, Kept
<1>2. ASSUME NEW p \in Pool, NEW size \in Sizes, CreateShmPool(p, size) PROVE PoolTypes' /\ Kept
  <2> DEFINE r == [pool[p] EXCEPT !.step = "memfd", !.size = size]
  <2>1. pool[p] \in PoolRecord /\ pool \in [Pool -> PoolRecord] /\ "memfd" \in Steps
    BY DEF PoolTypes, Steps
  <2>2. r \in PoolRecord /\ r.step = "memfd" /\ r.offset = pool[p].offset
    BY <2>1, RecordUpdate DEF PoolRecord
  <2>3. pool' = [pool EXCEPT ![p] = r]
    BY <1>2, <2>1 DEF CreateShmPool
  <2>4. pool[p].step = "none" /\ buffers' = buffers
    BY <1>2 DEF CreateShmPool, At
  <2> HIDE DEF r
  <2> QED BY <2>2, <2>3, <2>4, Replaced
<1>3. Steps \ {"none"} = {"memfd", "tmpfile", "named", "unlink", "truncate", "seal", "map",
                          "ready", "unmapped", "closed", "failed"} /\ NoFD \in FD \cup {NoFD}
  BY DEF Steps
<1>4. ASSUME NEW p \in Pool, NEW s \in Steps \ {"none"}, Goto(p, s), buffers' = buffers
      PROVE  PoolTypes' /\ Kept
  BY <1>3, <1>4, Moved DEF Goto
<1>5. ASSUME NEW p \in Pool, NEW s \in Steps \ {"none"}, NEW m \in BOOLEAN, Opened(p, s, m)
      PROVE  PoolTypes' /\ Kept
  BY <1>5, Moved, Zenon DEF Opened
<1>6. ASSUME NEW p \in Pool, NEW s \in Steps \ {"none"}, Fallback(p, s) PROVE PoolTypes' /\ Kept
  BY <1>4, <1>6, Zenon DEF Fallback
<1>7. ASSUME NEW p \in Pool, GiveUp(p) \/ Close(p) PROVE PoolTypes' /\ Kept
  BY <1>3, <1>7, Moved DEF GiveUp, Close
<1>8. ASSUME NEW p \in Pool, MemfdCreate(p) \/ OpenTmpfile(p) \/ OpenNamed(p) PROVE PoolTypes' /\ Kept
  BY <1>3, <1>5, <1>6, <1>8 DEF MemfdCreate, OpenTmpfile, OpenNamed
<1>9. ASSUME NEW p \in Pool, Unlink(p) \/ Unmap(p) PROVE PoolTypes' /\ Kept
  BY <1>3, <1>4, <1>9 DEF Unlink, Unmap
<1>10. ASSUME NEW p \in Pool, Ftruncate(p) \/ AddSeals(p) \/ MapMemory(p) PROVE PoolTypes' /\ Kept
  BY <1>3, <1>4, <1>7, <1>10 DEF Ftruncate, AddSeals, MapMemory
<1>11. ASSUME NEW p \in Pool, NEW size \in Sizes,
              CompositorResizes(p, size) \/ DupFD(p) \/ SendFD(p)
       PROVE  PoolTypes' /\ Kept
  BY <1>1, <1>11, Zenon DEF CompositorResizes, DupFD, SendFD
<1>12. ASSUME NEW p \in Pool, DupFD(p) \/ SendFD(p) PROVE PoolTypes' /\ Kept
  BY <1>1, <1>12, Zenon DEF DupFD, SendFD
<1>13. CASE OtherOpens \/ OtherCloses \/ UNCHANGED vars
  BY <1>1, <1>13, Zenon DEF OtherOpens, OtherCloses, vars
<1> QED BY <1>2, <1>7, <1>8, <1>9, <1>10, <1>11, <1>12, <1>13, Zenon DEF Next, PoolStep

-----------------------------------------------------------------------------
(* The invariant *)

\* What AllocateBuffer relies on: p.offset is aligned and past every buffer,
\* and a pool has no buffers before its size is known.
OffsetInv ==
  \A p \in Pool :
    /\ pool[p].offset % Align = 0
    /\ At(p, "none") => buffers[p] = <<>>
    /\ \A i \in 1 .. Len(buffers[p]) : buffers[p][i].offset + buffers[p][i].size <= pool[p].offset

BufferInv == PoolTypes /\ OffsetInv /\ BuffersDisjoint

\* Before any buffer is cut there is nothing to overlap.
LEMMA BufferInit == Init => BufferInv
<1> SUFFICES ASSUME Init PROVE BufferInv
  OBVIOUS
<1>1. PoolTypes
  BY DEF Init, PoolTypes, PoolRecord, Steps
<1>2. 0 % Align = 0
  BY Z3
<1>3. \A p \in Pool : pool[p].offset = 0 /\ buffers[p] = <<>>
  BY DEF Init
<1> QED BY <1>1, <1>2, <1>3 DEF BufferInv, OffsetInv, BuffersDisjoint

\* A step that leaves buffers, offsets and sizes alone keeps the invariant.
LEMMA KeptInv ==
  ASSUME BufferInv, PoolTypes', Kept
  PROVE  BufferInv'
<1>1. OffsetInv'
  BY DEF BufferInv, OffsetInv, Kept, At
<1>2. BuffersDisjoint'
  <2> SUFFICES ASSUME NEW p \in Pool, NEW i \in 1 .. Len(buffers[p])
               PROVE  /\ buffers[p][i].offset + buffers[p][i].size <= pool'[p].size
                      /\ buffers[p][i].offset % Align = 0
                      /\ \A j \in 1 .. i - 1 :
                           buffers[p][j].offset + buffers[p][j].size <= buffers[p][i].offset
    BY DEF BuffersDisjoint, Kept
  <2>1. pool[p].step # "none"
    BY DEF BufferInv, OffsetInv, At
  <2> QED BY <2>1 DEF BufferInv, BuffersDisjoint, Kept
<1> QED BY <1>1, <1>2 DEF BufferInv

\* AllocateBuffer puts the new buffer after all others and inside the pool.
LEMMA AllocateInv ==
  ASSUME BufferInv, NEW p \in Pool, NEW h \in Dims, NEW s \in Dims, AllocateBuffer(p, h, s)
  PROVE  BufferInv'
<1> DEFINE size == h * s
           off == pool[p].offset
           next == Padded(off + size)
           b == [offset |-> off, size |-> size]
           r == [pool[p] EXCEPT !.offset = next]
<1>1. size \in Nat
  BY Z3
<1>2. /\ pool[p] \in PoolRecord /\ pool \in [Pool -> PoolRecord] /\ off \in Nat
      /\ buffers \in [Pool -> Seq(Buffer)] /\ buffers[p] \in Seq(Buffer)
  BY DEF BufferInv, PoolTypes, PoolRecord
<1>3. next \in Nat /\ next >= off + size /\ next % Align = 0
  <2>1. off + size \in Nat
    BY <1>1, <1>2
  <2> HIDE DEF size, off
  <2> QED BY <2>1, PaddedAligned, Zenon
<1>4. r \in PoolRecord /\ r.offset = next /\ r.size = pool[p].size /\ r.step = pool[p].step
  BY <1>2, <1>3 DEF PoolRecord
<1>5. b \in Buffer /\ b.offset = off /\ b.size = size
  BY <1>1, <1>2 DEF Buffer
<1>6. /\ pool' = [pool EXCEPT ![p] = r] /\ buffers' = [buffers EXCEPT ![p] = Append(buffers[p], b)]
      /\ off + size <= pool[p].size /\ pool[p].step # "none"
  BY <1>2 DEF AllocateBuffer, Room, Created
<1> HIDE DEF size, next, b, r
<1>7. /\ Append(buffers[p], b) \in Seq(Buffer) /\ Len(Append(buffers[p], b)) = Len(buffers[p]) + 1
      /\ \A i \in 1 .. Len(buffers[p]) : Append(buffers[p], b)[i] = buffers[p][i]
      /\ Append(buffers[p], b)[Len(buffers[p]) + 1] = b
  BY <1>2, <1>5
<1>8. \A q \in Pool : /\ pool'[q] = IF q = p THEN r ELSE pool[q]
                      /\ buffers'[q] = IF q = p THEN Append(buffers[p], b) ELSE buffers[q]
  BY <1>2, <1>6, Zenon
<1>9. PoolTypes'
  BY <1>2, <1>4, <1>6, <1>7, UpdateType DEF PoolTypes
<1>10. \A i \in 1 .. Len(buffers[p]) :
         /\ buffers[p][i] \in Buffer
         /\ buffers[p][i].offset + buffers[p][i].size <= off
  BY <1>2 DEF BufferInv, OffsetInv
<1>11. off % Align = 0
  BY DEF BufferInv, OffsetInv
<1>12. ASSUME NEW q \in Pool
       PROVE  /\ pool'[q].offset % Align = 0
              /\ pool'[q].step # "none" \/ buffers'[q] = <<>>
              /\ \A i \in 1 .. Len(buffers'[q]) : buffers'[q][i].offset + buffers'[q][i].size <= pool'[q].offset
  <2>1. CASE q # p
    BY <1>8, <2>1 DEF BufferInv, OffsetInv, At
  <2>2. CASE q = p
    <3>1. pool'[q] = r /\ buffers'[q] = Append(buffers[p], b)
      BY <1>8, <2>2
    <3>2. ASSUME NEW i \in 1 .. Len(buffers[p]) + 1
          PROVE  Append(buffers[p], b)[i].offset + Append(buffers[p], b)[i].size <= next
      <4>1. CASE i = Len(buffers[p]) + 1
        BY <1>3, <1>5, <1>7, <4>1
      <4>2. CASE i \in 1 .. Len(buffers[p])
        <5>1. Append(buffers[p], b)[i] = buffers[p][i]
          BY <1>7, <4>2
        <5>2. buffers[p][i].offset + buffers[p][i].size \in Nat /\ buffers[p][i].offset + buffers[p][i].size <= off
          BY <1>10, <4>2 DEF Buffer
        <5>3. off <= next
          BY <1>1, <1>2, <1>3
        <5> QED BY <1>2, <1>3, <5>1, <5>2, <5>3
      <4> QED BY <1>2, <4>1, <4>2
    <3> QED BY <1>3, <1>4, <1>6, <1>7, <3>1, <3>2
  <2> QED BY <2>1, <2>2
<1>13. ASSUME NEW q \in Pool, NEW i \in 1 .. Len(buffers'[q])
       PROVE  /\ buffers'[q][i].offset + buffers'[q][i].size <= pool'[q].size
              /\ buffers'[q][i].offset % Align = 0
              /\ \A j \in 1 .. i - 1 :
                   buffers'[q][j].offset + buffers'[q][j].size <= buffers'[q][i].offset
  <2>1. CASE q # p
    BY <1>8, <2>1 DEF BufferInv, BuffersDisjoint
  <2>2. CASE q = p
    <3>1. pool'[q] = r /\ buffers'[q] = Append(buffers[p], b) /\ i \in 1 .. Len(buffers[p]) + 1
      BY <1>7, <1>8, <2>2
    <3>2. CASE i = Len(buffers[p]) + 1
      <4>1. buffers'[q][i] = b
        BY <1>7, <3>1, <3>2
      <4>2. ASSUME NEW j \in 1 .. i - 1
            PROVE  buffers'[q][j].offset + buffers'[q][j].size <= off
        <5>1. j \in 1 .. Len(buffers[p])
          BY <1>2, <3>2
        <5> QED BY <1>7, <1>10, <3>1, <5>1
      <4> QED BY <1>4, <1>5, <1>6, <1>11, <3>1, <4>1, <4>2
    <3>3. CASE i \in 1 .. Len(buffers[p])
      BY <1>2, <1>4, <1>7, <3>1, <3>3 DEF BufferInv, BuffersDisjoint
    <3> QED BY <1>2, <3>1, <3>2, <3>3
  <2> QED BY <2>1, <2>2
<1> QED BY <1>9, <1>12, <1>13 DEF BufferInv, OffsetInv, BuffersDisjoint, At

\* Every step keeps the invariant.
LEMMA BufferStep ==
  ASSUME BufferInv, [Next]_vars
  PROVE  BufferInv'
<1>1. CASE \E p \in Pool, h, s \in Dims : AllocateBuffer(p, h, s)
  BY <1>1, AllocateInv, Zenon
<1>2. CASE ~ \E p \in Pool, h, s \in Dims : AllocateBuffer(p, h, s)
  <2>1. PoolTypes
    BY Zenon DEF BufferInv
  <2> QED BY <1>2, <2>1, OthersKeep, KeptInv, Zenon
<1> QED BY <1>1, <1>2, Zenon

\* AllocateBuffer never hands out memory twice: for every pool size, every
\* sequence of buffers and any number of pools, and after failures and Close,
\* buffers are aligned, inside their pool and disjoint.
THEOREM BuffersNeverOverlap == Spec => []BuffersDisjoint
<1>1. BufferInv /\ [Next]_vars => BufferInv'
  BY BufferStep
<1>2. BufferInv => BuffersDisjoint
  BY Zenon DEF BufferInv
<1> QED BY <1>1, <1>2, BufferInit, PTL DEF Spec

-----------------------------------------------------------------------------
(* Descriptors, mappings and seals *)

HasFD == {"unlink", "truncate", "seal", "map", "ready", "unmapped"}
Sized == {"seal", "map", "ready", "unmapped", "closed"}
Sealed == {"map", "ready", "unmapped", "closed"}

\* What is true of one pool: it has a descriptor, its own file's, from open to
\* Close; a duplicate is another one, and exists, like the compositor's copy,
\* only once the pool was created; a memfd has its size from ftruncate on and
\* its seals before it is mapped.
PoolInv(p) ==
  /\ pool[p].fd # NoFD <=> pool[p].step \in HasFD
  /\ pool[p].fd # NoFD => fdTable[pool[p].fd] = p
  /\ dup[p] # NoFD => fdTable[dup[p]] = p /\ dup[p] # pool[p].fd
  /\ dup[p] # NoFD \/ p \in shared => Created(p)
  /\ file[p].mapped <=> pool[p].step = "ready"
  /\ pool[p].memfd /\ pool[p].step \in Sized => file[p].size = pool[p].size
  /\ pool[p].memfd /\ pool[p].step \in Sealed => file[p].sealed

NoStrays ==
  /\ \A d \in theirs : fdTable[d] = Other
  /\ \A d \in FD : fdTable[d] \in Pool => d \in {pool[fdTable[d]].fd, dup[fdTable[d]]}

NameInv == nameTaken => \E p \in Pool : pool[p].step = "unlink"

FileRecord == [size : Nat, sealed : BOOLEAN, mapped : BOOLEAN]

TableTypes ==
  /\ dup \in [Pool -> FD \cup {NoFD}]
  /\ fdTable \in [FD -> Pool \cup {NoFile, Other}]
  /\ file \in [Pool -> FileRecord]
  /\ theirs \subseteq FD /\ nameTaken \in BOOLEAN /\ shared \subseteq Pool

TableInv == PoolTypes /\ TableTypes /\ (\A p \in Pool : PoolInv(p)) /\ NoStrays /\ NameInv

\* At the start there is no pool.
LEMMA TableInit == Init => TableInv
<1> SUFFICES ASSUME Init PROVE TableInv
  OBVIOUS
<1>1. PoolTypes
  BY BufferInit DEF BufferInv
<1>2. nameTaken = FALSE /\ theirs = {} /\ shared = {} /\ fdTable = [d \in FD |-> NoFile]
      /\ dup = [p \in Pool |-> NoFD]
  BY Zenon DEF Init
<1>3. file \in [Pool -> FileRecord]
  BY DEF Init, FileRecord
<1>4. TableTypes
  BY <1>2, <1>3 DEF TableTypes
<1>5. ASSUME NEW p \in Pool PROVE PoolInv(p)
  <2>1. /\ pool[p].fd = NoFD /\ pool[p].step = "none" /\ dup[p] = NoFD /\ p \notin shared
        /\ file[p].mapped = FALSE
    BY <1>2 DEF Init
  <2> QED BY <2>1 DEF PoolInv, HasFD, Sized, Sealed
<1>6. NoStrays /\ NameInv
  BY <1>2 DEF NoStrays, NameInv
<1> QED BY <1>1, <1>4, <1>5, <1>6 DEF TableInv

\* A step of one pool that opens and closes no descriptor.
LEMMA TableMoves ==
  ASSUME TableInv, NEW p \in Pool, PoolTypes', file' \in [Pool -> FileRecord], shared' \subseteq Pool,
         nameTaken' \in BOOLEAN, UNCHANGED <<dup, fdTable, theirs>>, pool'[p].fd = pool[p].fd,
         \A q \in Pool \ {p} : pool'[q] = pool[q] /\ file'[q] = file[q] /\ (q \in shared' <=> q \in shared),
         PoolInv(p)', NameInv'
  PROVE  TableInv'
<1>1. TableTypes'
  BY DEF TableInv, TableTypes
<1>2. \A q \in Pool : PoolInv(q)'
  BY DEF TableInv, PoolInv, Created
<1>3. NoStrays'
  <2>1. \A q \in Pool : pool'[q].fd = pool[q].fd
    OBVIOUS
  <2> QED BY <2>1 DEF TableInv, NoStrays
<1> QED BY <1>1, <1>2, <1>3 DEF TableInv

\* Nobody knows a number that is free.
LEMMA FreeIsUnknown ==
  ASSUME TableInv, NEW d \in FD, fdTable[d] = NoFile
  PROVE  d # NoFD /\ d \notin theirs /\ \A q \in Pool : pool[q].fd # d /\ dup[q] # d
<1>1. d # NoFD
  BY DEF FD, NoFD
<1> QED BY <1>1 DEF TableInv, PoolInv, NoStrays

\* Everybody knows different numbers.
LEMMA NobodyShares ==
  ASSUME TableInv, NEW p \in Pool
  PROVE  \A q \in Pool \ {p} :
           /\ pool[p].fd # NoFD => pool[p].fd # pool[q].fd /\ pool[p].fd # dup[q]
           /\ dup[p] # NoFD => dup[p] # pool[q].fd /\ dup[p] # dup[q]
BY DEF TableInv, PoolInv

\* The fields of a pool that was moved on, and those of the others.
LEMMA MovedFields ==
  ASSUME PoolTypes, NEW p \in Pool, NEW s, NEW d, NEW m
  PROVE  /\ pool' = [pool EXCEPT ![p].step = s] =>
              /\ \A q \in Pool \ {p} : pool'[q] = pool[q]
              /\ pool'[p].step = s /\ pool'[p].fd = pool[p].fd
              /\ pool'[p].memfd = pool[p].memfd /\ pool'[p].size = pool[p].size
         /\ pool' = [pool EXCEPT ![p].step = s, ![p].fd = d] =>
              /\ \A q \in Pool \ {p} : pool'[q] = pool[q]
              /\ pool'[p].step = s /\ pool'[p].fd = d
              /\ pool'[p].memfd = pool[p].memfd /\ pool'[p].size = pool[p].size
         /\ pool' = [pool EXCEPT ![p].step = s, ![p].fd = d, ![p].memfd = m] =>
              /\ \A q \in Pool \ {p} : pool'[q] = pool[q]
              /\ pool'[p].step = s /\ pool'[p].fd = d
              /\ pool'[p].memfd = m /\ pool'[p].size = pool[p].size
<1>1. pool \in [Pool -> PoolRecord] /\ pool[p] \in PoolRecord
  BY DEF PoolTypes
<1> QED BY <1>1 DEF PoolRecord

\* The fields of a file that was truncated, sealed, mapped or unmapped.
LEMMA FileFields ==
  ASSUME file \in [Pool -> FileRecord], NEW p \in Pool, NEW n \in Nat, NEW b \in BOOLEAN
  PROVE  /\ file' = [file EXCEPT ![p].size = n] =>
              /\ file' \in [Pool -> FileRecord] /\ \A q \in Pool \ {p} : file'[q] = file[q]
              /\ file'[p].size = n /\ file'[p].sealed = file[p].sealed /\ file'[p].mapped = file[p].mapped
         /\ file' = [file EXCEPT ![p].sealed = b] =>
              /\ file' \in [Pool -> FileRecord] /\ \A q \in Pool \ {p} : file'[q] = file[q]
              /\ file'[p].size = file[p].size /\ file'[p].sealed = b /\ file'[p].mapped = file[p].mapped
         /\ file' = [file EXCEPT ![p].mapped = b] =>
              /\ file' \in [Pool -> FileRecord] /\ \A q \in Pool \ {p} : file'[q] = file[q]
              /\ file'[p].size = file[p].size /\ file'[p].sealed = file[p].sealed /\ file'[p].mapped = b
<1>1. file[p] \in FileRecord
  OBVIOUS
<1>2. CASE file' = [file EXCEPT ![p].size = n]
  BY <1>1, <1>2 DEF FileRecord
<1>3. CASE file' = [file EXCEPT ![p].sealed = b]
  BY <1>1, <1>3 DEF FileRecord
<1>4. CASE file' = [file EXCEPT ![p].mapped = b]
  BY <1>1, <1>4 DEF FileRecord
<1> QED BY <1>2, <1>3, <1>4

\* A pool at "unlink" is what keeps the name, whatever the other pools do.
LEMMA NameKept ==
  ASSUME NameInv, NEW p \in Pool, nameTaken' = nameTaken, pool[p].step # "unlink",
         \A q \in Pool \ {p} : pool'[q] = pool[q]
  PROVE  NameInv'
BY DEF NameInv

\* CreateShmPool, Unlink and Unmap, and the steps that fall back.
LEMMA MovesKeepTable ==
  ASSUME TableInv, PoolTypes', NEW p \in Pool,
         \/ \E size \in Sizes : CreateShmPool(p, size) \/ CompositorResizes(p, size)
         \/ \E h, s \in Dims : AllocateBuffer(p, h, s)
         \/ At(p, "memfd") /\ Fallback(p, "tmpfile")
         \/ At(p, "tmpfile") /\ Fallback(p, "named")
         \/ At(p, "named") /\ Fallback(p, "failed")
         \/ Unlink(p) \/ Unmap(p)
  PROVE  TableInv'
<1>1. /\ PoolTypes /\ TableTypes /\ NameInv /\ PoolInv(p) /\ file \in [Pool -> FileRecord]
      /\ shared \subseteq Pool /\ nameTaken \in BOOLEAN
  BY DEF TableInv, TableTypes
<1>2. pool \in [Pool -> PoolRecord] /\ pool[p] \in PoolRecord
  BY <1>1 DEF PoolTypes
<1>3. ASSUME NEW size \in Sizes, CreateShmPool(p, size) PROVE TableInv'
  <2>1. /\ \A q \in Pool \ {p} : pool'[q] = pool[q]
        /\ pool'[p].step = "memfd" /\ pool'[p].fd = pool[p].fd
        /\ pool[p].step = "none"
    BY <1>2, <1>3 DEF CreateShmPool, PoolRecord, At
  <2>2. UNCHANGED <<dup, fdTable, file, theirs, nameTaken, shared>>
    BY <1>3 DEF CreateShmPool, kernelVars
  <2>3. PoolInv(p)'
    BY <1>1, <2>1, <2>2 DEF PoolInv, HasFD, Sized, Sealed, Created
  <2>4. NameInv'
    BY <1>1, <2>1, <2>2, NameKept
  <2> QED BY <1>1, <2>1, <2>2, <2>3, <2>4, TableMoves
<1>4. ASSUME NEW size \in Sizes, CompositorResizes(p, size) PROVE TableInv'
  <2>1. UNCHANGED <<pool, dup, fdTable, theirs, nameTaken, shared>> /\ p \in shared /\ file[p].sealed = FALSE
    BY <1>1, <1>4 DEF CompositorResizes, FileRecord
  <2>2. /\ file' \in [Pool -> FileRecord] /\ \A q \in Pool \ {p} : file'[q] = file[q]
        /\ file'[p].sealed = file[p].sealed /\ file'[p].mapped = file[p].mapped
    BY <1>1, <1>4, FileFields DEF CompositorResizes
  <2>3. pool[p].memfd # TRUE
    BY <1>1, <1>2, <2>1 DEF PoolInv, Sealed, Created, PoolRecord
  <2>4. PoolInv(p)' /\ NameInv'
    BY <1>1, <1>2, <2>1, <2>2, <2>3 DEF PoolInv, NameInv, Created, PoolRecord
  <2> QED BY <1>1, <2>1, <2>2, <2>4, TableMoves
<1>5. ASSUME NEW h \in Dims, NEW s \in Dims, AllocateBuffer(p, h, s) PROVE TableInv'
  <2>1. /\ \A q \in Pool \ {p} : pool'[q] = pool[q]
        /\ pool'[p].step = pool[p].step /\ pool'[p].fd = pool[p].fd
        /\ pool'[p].memfd = pool[p].memfd /\ pool'[p].size = pool[p].size
        /\ pool[p].step # "unlink"
    BY <1>2, <1>5 DEF AllocateBuffer, PoolRecord, Created
  <2>2. UNCHANGED <<dup, fdTable, file, theirs, nameTaken, shared>>
    BY <1>5 DEF AllocateBuffer, kernelVars
  <2>3. PoolInv(p)'
    BY <1>1, <2>1, <2>2 DEF PoolInv, Created
  <2>4. NameInv'
    BY <1>1, <2>1, <2>2, NameKept
  <2> QED BY <1>1, <2>1, <2>2, <2>3, <2>4, TableMoves
<1>6. ASSUME \/ At(p, "memfd") /\ Fallback(p, "tmpfile")
             \/ At(p, "tmpfile") /\ Fallback(p, "named")
             \/ At(p, "named") /\ Fallback(p, "failed")
      PROVE  TableInv'
  <2>1. /\ \A q \in Pool \ {p} : pool'[q] = pool[q]
        /\ pool[p].step \in {"memfd", "tmpfile", "named"}
        /\ pool'[p].step \in {"tmpfile", "named", "failed"} /\ pool'[p].fd = pool[p].fd
    BY <1>1, <1>6, MovedFields DEF Fallback, Goto, At
  <2>2. UNCHANGED <<dup, fdTable, file, theirs, nameTaken, shared>>
    BY <1>6 DEF Fallback, kernelVars
  <2>3. PoolInv(p)'
    BY <1>1, <2>1, <2>2 DEF PoolInv, HasFD, Sized, Sealed, Created
  <2>4. NameInv'
    BY <1>1, <2>1, <2>2, NameKept
  <2> QED BY <1>1, <2>1, <2>2, <2>3, <2>4, TableMoves
<1>7. ASSUME Unlink(p) PROVE TableInv'
  <2>1. /\ \A q \in Pool \ {p} : pool'[q] = pool[q]
        /\ pool[p].step = "unlink"
        /\ pool'[p].step = "truncate" /\ pool'[p].fd = pool[p].fd
    BY <1>1, <1>7, MovedFields DEF Unlink, Goto, At
  <2>2. UNCHANGED <<dup, fdTable, file, theirs, shared>> /\ nameTaken' = FALSE
    BY <1>7 DEF Unlink
  <2>3. PoolInv(p)'
    BY <1>1, <2>1, <2>2 DEF PoolInv, HasFD, Sized, Sealed, Created
  <2>4. NameInv' /\ nameTaken' \in BOOLEAN
    BY <2>2 DEF NameInv
  <2> QED BY <1>1, <2>1, <2>2, <2>3, <2>4, TableMoves
<1>8. ASSUME Unmap(p) PROVE TableInv'
  <2>1. /\ \A q \in Pool \ {p} : pool'[q] = pool[q]
        /\ pool[p].step = "ready"
        /\ pool'[p].step = "unmapped" /\ pool'[p].fd = pool[p].fd
        /\ pool'[p].memfd = pool[p].memfd /\ pool'[p].size = pool[p].size
    BY <1>1, <1>8, MovedFields DEF Unmap, Goto, At
  <2>2. UNCHANGED <<dup, fdTable, theirs, shared, nameTaken>>
    BY <1>8 DEF Unmap
  <2>3. /\ file' \in [Pool -> FileRecord] /\ \A q \in Pool \ {p} : file'[q] = file[q]
        /\ file'[p].size = file[p].size /\ file'[p].sealed = file[p].sealed /\ file'[p].mapped = FALSE
    BY <1>1, <1>8, FileFields DEF Unmap
  <2>4. PoolInv(p)'
    BY <1>1, <2>1, <2>2, <2>3 DEF PoolInv, HasFD, Sized, Sealed, Created
  <2>5. NameInv'
    BY <1>1, <2>1, <2>2, NameKept
  <2> QED BY <1>1, <2>1, <2>2, <2>3, <2>4, <2>5, TableMoves
<1> QED BY <1>3, <1>4, <1>5, <1>6, <1>7, <1>8, Zenon

\* The calls on the open file that succeed: the size before the seals, the
\* seals before the mapping.
LEMMA PreparesKeepTable ==
  ASSUME TableInv, PoolTypes', NEW p \in Pool, UNCHANGED <<dup, fdTable, theirs, nameTaken, shared>>,
         \/ /\ At(p, "truncate") /\ file' = [file EXCEPT ![p].size = pool[p].size]
            /\ Goto(p, IF pool[p].memfd THEN "seal" ELSE "map")
         \/ At(p, "seal") /\ file' = [file EXCEPT ![p].sealed = TRUE] /\ Goto(p, "map")
         \/ At(p, "map") /\ file' = [file EXCEPT ![p].mapped = TRUE] /\ Goto(p, "ready")
  PROVE  TableInv'
<1>1. /\ PoolTypes /\ TableTypes /\ NameInv /\ PoolInv(p) /\ file \in [Pool -> FileRecord]
      /\ shared \subseteq Pool /\ nameTaken \in BOOLEAN
  BY DEF TableInv, TableTypes
<1>2. pool \in [Pool -> PoolRecord] /\ pool[p] \in PoolRecord /\ pool[p].size \in Nat /\ pool[p].memfd \in BOOLEAN
  BY <1>1 DEF PoolTypes, PoolRecord
<1>3. /\ \A q \in Pool \ {p} : pool'[q] = pool[q]
      /\ pool'[p].fd = pool[p].fd /\ pool'[p].memfd = pool[p].memfd /\ pool'[p].size = pool[p].size
      /\ pool[p].step \in {"truncate", "seal", "map"}
  <2>1. pool[p].step \in {"truncate", "seal", "map"} /\ \E s : pool' = [pool EXCEPT ![p].step = s]
    BY Zenon DEF Goto, At
  <2> QED BY <1>1, <2>1, MovedFields, Zenon
<1>4. NameInv'
  BY <1>1, <1>3, NameKept
<1>5. CASE /\ At(p, "truncate") /\ file' = [file EXCEPT ![p].size = pool[p].size]
           /\ Goto(p, IF pool[p].memfd THEN "seal" ELSE "map")
  <2>1. /\ file' \in [Pool -> FileRecord] /\ \A q \in Pool \ {p} : file'[q] = file[q]
        /\ file'[p].size = pool[p].size /\ file'[p].sealed = file[p].sealed /\ file'[p].mapped = file[p].mapped
    BY <1>1, <1>2, <1>5, FileFields
  <2>2. pool[p].step = "truncate" /\ pool'[p].step = IF pool[p].memfd THEN "seal" ELSE "map"
    <3> DEFINE s == IF pool[p].memfd THEN "seal" ELSE "map"
    <3>1. pool[p].step = "truncate" /\ pool' = [pool EXCEPT ![p].step = s]
      BY <1>5 DEF Goto, At
    <3> HIDE DEF s
    <3>2. pool'[p].step = s
      BY <1>1, <3>1, MovedFields
    <3> QED BY <3>1, <3>2 DEF s
  <2>3. PoolInv(p)'
    BY <1>1, <1>2, <1>3, <2>1, <2>2 DEF PoolInv, HasFD, Sized, Sealed, Created
  <2> QED BY <1>1, <1>3, <1>4, <2>1, <2>3, TableMoves
<1>6. CASE At(p, "seal") /\ file' = [file EXCEPT ![p].sealed = TRUE] /\ Goto(p, "map")
  <2>1. /\ file' \in [Pool -> FileRecord] /\ \A q \in Pool \ {p} : file'[q] = file[q]
        /\ file'[p].size = file[p].size /\ file'[p].sealed = TRUE /\ file'[p].mapped = file[p].mapped
    BY <1>1, <1>6, FileFields
  <2>2. pool[p].step = "seal" /\ pool'[p].step = "map"
    BY <1>1, <1>6, MovedFields DEF Goto, At
  <2>3. PoolInv(p)'
    BY <1>1, <1>2, <1>3, <2>1, <2>2 DEF PoolInv, HasFD, Sized, Sealed, Created
  <2> QED BY <1>1, <1>3, <1>4, <2>1, <2>3, TableMoves
<1>7. CASE At(p, "map") /\ file' = [file EXCEPT ![p].mapped = TRUE] /\ Goto(p, "ready")
  <2>1. /\ file' \in [Pool -> FileRecord] /\ \A q \in Pool \ {p} : file'[q] = file[q]
        /\ file'[p].size = file[p].size /\ file'[p].sealed = file[p].sealed /\ file'[p].mapped = TRUE
    BY <1>1, <1>7, FileFields
  <2>2. pool[p].step = "map" /\ pool'[p].step = "ready"
    BY <1>1, <1>7, MovedFields DEF Goto, At
  <2>3. PoolInv(p)'
    BY <1>1, <1>2, <1>3, <2>1, <2>2 DEF PoolInv, HasFD, Sized, Sealed, Created
  <2> QED BY <1>1, <1>3, <1>4, <2>1, <2>3, TableMoves
<1> QED BY <1>5, <1>6, <1>7

\* The table after an open, and after a close.
LEMMA TableUpdates ==
  ASSUME TableTypes, NEW d \in FD, NEW f \in Pool \cup {NoFile, Other}, fdTable' = [fdTable EXCEPT ![d] = f]
  PROVE  /\ fdTable' \in [FD -> Pool \cup {NoFile, Other}] /\ fdTable'[d] = f
         /\ \A e \in FD \ {d} : fdTable'[e] = fdTable[e]
BY DEF TableTypes

\* Each open call of the chain: the new number is nobody else's.
LEMMA OpensKeepTable ==
  ASSUME TableInv, PoolTypes', NEW p \in Pool, NEW next, NEW m \in BOOLEAN, Opened(p, next, m),
         \/ next = "truncate" /\ nameTaken' = nameTaken
         \/ next = "unlink" /\ nameTaken' = TRUE,
         pool[p].step \in {"memfd", "tmpfile", "named"}
  PROVE  TableInv'
<1>1. /\ PoolTypes /\ TableTypes /\ NameInv /\ NoStrays /\ \A q \in Pool : PoolInv(q)
  BY DEF TableInv
<1>2. PICK d \in FD : Opens(d, p) /\ pool' = [pool EXCEPT ![p].step = next, ![p].fd = d, ![p].memfd = m]
  BY Zenon DEF Opened
<1>3. UNCHANGED <<dup, file, theirs, shared>>
  BY DEF Opened
<1>4. /\ fdTable' \in [FD -> Pool \cup {NoFile, Other}] /\ fdTable'[d] = p
      /\ \A e \in FD \ {d} : fdTable'[e] = fdTable[e]
  BY <1>1, <1>2, TableUpdates DEF Opens
<1>5. d # NoFD /\ d \notin theirs /\ \A q \in Pool : pool[q].fd # d /\ dup[q] # d
  BY <1>2, FreeIsUnknown DEF Opens
<1>6. /\ \A q \in Pool \ {p} : pool'[q] = pool[q]
      /\ pool'[p].step = next /\ pool'[p].fd = d
  <2>1. pool \in [Pool -> PoolRecord] /\ pool[p] \in PoolRecord
    BY <1>1 DEF PoolTypes
  <2>2. pool' = [pool EXCEPT ![p].step = next, ![p].fd = d, ![p].memfd = m]
    BY <1>2
  <2> QED BY <2>1, <2>2 DEF PoolRecord
<1>7. /\ pool[p].fd = NoFD /\ dup[p] = NoFD /\ p \notin shared /\ file[p].mapped # TRUE
      /\ \A q \in Pool : pool[q].fd \in FD \cup {NoFD} /\ dup[q] \in FD \cup {NoFD} /\ file[q].mapped \in BOOLEAN
  <2>1. PoolInv(p) /\ file \in [Pool -> FileRecord] /\ dup \in [Pool -> FD \cup {NoFD}]
    BY <1>1 DEF TableTypes
  <2>2. pool[p].fd = NoFD /\ dup[p] = NoFD /\ p \notin shared /\ file[p].mapped # TRUE
    BY <2>1 DEF PoolInv, HasFD, Created
  <2>3. \A q \in Pool : pool[q].fd \in FD \cup {NoFD}
    BY <1>1 DEF PoolTypes, PoolRecord
  <2>4. \A q \in Pool : dup[q] \in FD \cup {NoFD} /\ file[q].mapped \in BOOLEAN
    BY <2>1 DEF FileRecord
  <2> QED BY <2>2, <2>3, <2>4
<1>8. TableTypes'
  BY <1>1, <1>3, <1>4 DEF TableTypes
<1>9. ASSUME NEW q \in Pool PROVE PoolInv(q)'
  <2>1. CASE q = p
    BY <1>3, <1>4, <1>5, <1>6, <1>7, <2>1 DEF PoolInv, HasFD, Sized, Sealed, Created
  <2>2. CASE q # p
    <3>1. pool'[q] = pool[q] /\ PoolInv(q)
      BY <1>1, <1>6, <2>2
    <3>2. /\ pool[q].fd # NoFD => fdTable'[pool[q].fd] = fdTable[pool[q].fd]
          /\ dup[q] # NoFD => fdTable'[dup[q]] = fdTable[dup[q]]
      BY <1>4, <1>5, <1>7
    <3> QED BY <1>3, <3>1, <3>2 DEF PoolInv, Created
  <2> QED BY <2>1, <2>2
<1>10. NoStrays'
  <2>1. \A e \in theirs' : fdTable'[e] = Other
    BY <1>1, <1>3, <1>4, <1>5 DEF NoStrays, TableTypes
  <2>2. ASSUME NEW e \in FD, fdTable'[e] \in Pool
        PROVE  e \in {pool'[fdTable'[e]].fd, dup'[fdTable'[e]]}
    <3>1. CASE e = d
      BY <1>4, <1>6, <3>1
    <3>2. CASE e # d
      <4>1. fdTable'[e] = fdTable[e] /\ e \in {pool[fdTable[e]].fd, dup[fdTable[e]]} /\ fdTable[e] \in Pool
        BY <1>1, <1>4, <2>2, <3>2 DEF NoStrays
      <4>2. e # NoFD
        BY DEF FD, NoFD
      <4>3. fdTable[e] # p
        BY <1>7, <4>1, <4>2
      <4> QED BY <1>3, <1>6, <4>1, <4>3
    <3> QED BY <3>1, <3>2
  <2> QED BY <2>1, <2>2 DEF NoStrays
<1>11. NameInv'
  <2>1. CASE next = "truncate"
    <3>1. nameTaken' = nameTaken /\ pool[p].step # "unlink"
      BY <2>1
    <3> QED BY <1>1, <1>6, <3>1, NameKept
  <2>2. CASE next = "unlink"
    BY <1>6, <2>2 DEF NameInv
  <2> QED BY <2>1, <2>2
<1> QED BY <1>8, <1>9, <1>10, <1>11 DEF TableInv

\* GiveUp and Close give back the pool's own number, once.
LEMMA ClosesKeepTable ==
  ASSUME TableInv, PoolTypes', NEW p \in Pool, NEW next, CloseFD(pool[p].fd),
         pool' = [pool EXCEPT ![p].step = next, ![p].fd = NoFD],
         UNCHANGED <<dup, file, theirs, nameTaken, shared>>,
         \/ next = "failed" /\ pool[p].step \in {"truncate", "seal", "map"}
         \/ next = "closed" /\ pool[p].step \in {"unmapped", "closed"}
  PROVE  TableInv'
<1> DEFINE d == pool[p].fd
<1>1. PoolTypes /\ TableTypes /\ NameInv /\ NoStrays /\ \A q \in Pool : PoolInv(q)
  BY DEF TableInv
<1>2. pool \in [Pool -> PoolRecord] /\ pool[p] \in PoolRecord /\ \A q \in Pool : pool[q].fd \in FD \cup {NoFD}
  BY <1>1 DEF PoolTypes, PoolRecord
<1>3. /\ \A q \in Pool \ {p} : pool'[q] = pool[q]
      /\ pool'[p].step = next /\ pool'[p].fd = NoFD
      /\ pool'[p].memfd = pool[p].memfd /\ pool'[p].size = pool[p].size
  BY <1>2 DEF PoolRecord
<1>4. /\ fdTable' \in [FD -> Pool \cup {NoFile, Other}]
      /\ d # NoFD => fdTable'[d] = NoFile
      /\ \A e \in FD \ {d} : fdTable'[e] = fdTable[e]
  <2>1. CASE d \in FD
    <3>1. fdTable' = [fdTable EXCEPT ![d] = NoFile]
      BY <2>1 DEF CloseFD
    <3> QED BY <1>1, <2>1, <3>1, TableUpdates
  <2>2. CASE d \notin FD
    <3>1. fdTable' = fdTable /\ d = NoFD
      BY <1>2, <2>2 DEF CloseFD
    <3> QED BY <1>1, <3>1 DEF TableTypes
  <2> QED BY <2>1, <2>2
<1>5. /\ d # NoFD => /\ fdTable[d] = p /\ d \notin theirs /\ dup[p] # d
                     /\ \A q \in Pool \ {p} : pool[q].fd # d /\ dup[q] # d
      /\ \A q \in Pool : dup[q] \in FD \cup {NoFD}
  <2>1. d # NoFD => fdTable[d] = p /\ dup[p] # d
    BY <1>1 DEF PoolInv
  <2>2. d # NoFD => d \notin theirs
    BY <1>1, <2>1 DEF NoStrays
  <2>3. d # NoFD => \A q \in Pool \ {p} : pool[q].fd # d /\ dup[q] # d
    BY NobodyShares
  <2>4. \A q \in Pool : dup[q] \in FD \cup {NoFD}
    BY <1>1 DEF TableTypes
  <2> QED BY <2>1, <2>2, <2>3, <2>4
<1> HIDE DEF d
<1>6. TableTypes'
  BY <1>1, <1>4 DEF TableTypes
<1>7. ASSUME NEW q \in Pool PROVE PoolInv(q)'
  <2>1. dup[q] # NoFD => fdTable'[dup[q]] = fdTable[dup[q]]
    BY <1>4, <1>5
  <2>2. CASE q = p
    <3>1. PoolInv(p)
      BY <1>1
    <3> QED BY <1>3, <2>1, <2>2, <3>1 DEF PoolInv, HasFD, Sized, Sealed, Created
  <2>3. CASE q # p
    <3>1. pool'[q] = pool[q] /\ PoolInv(q)
      BY <1>1, <1>3, <2>3
    <3>2. pool[q].fd # NoFD => fdTable'[pool[q].fd] = fdTable[pool[q].fd]
      BY <1>2, <1>4, <1>5, <2>3
    <3> QED BY <2>1, <3>1, <3>2 DEF PoolInv, Created
  <2> QED BY <2>2, <2>3
<1>8. NoStrays'
  <2>1. \A e \in theirs' : fdTable'[e] = Other
    <3>1. ASSUME NEW e \in theirs PROVE fdTable'[e] = Other
      <4>1. fdTable[e] = Other /\ e \in FD
        BY <1>1 DEF NoStrays, TableTypes
      <4>2. e # d
        BY <1>5, <4>1 DEF FD, NoFD
      <4> QED BY <1>4, <4>1, <4>2
    <3> QED BY <3>1
  <2>2. ASSUME NEW e \in FD, fdTable'[e] \in Pool
        PROVE  e \in {pool'[fdTable'[e]].fd, dup'[fdTable'[e]]}
    <3>1. e # NoFD
      BY DEF FD, NoFD
    <3>2. e # d
      BY <1>4, <2>2, <3>1
    <3>3. fdTable'[e] = fdTable[e]
      BY <1>4, <3>2
    <3>4. e \in {pool[fdTable[e]].fd, dup[fdTable[e]]} /\ fdTable[e] \in Pool
      BY <1>1, <2>2, <3>3 DEF NoStrays
    <3> QED BY <1>3, <3>2, <3>3, <3>4 DEF d
  <2> QED BY <2>1, <2>2 DEF NoStrays
<1>9. NameInv'
  <2>1. pool[p].step # "unlink"
    OBVIOUS
  <2> QED BY <1>1, <1>3, <2>1, NameKept
<1> QED BY <1>6, <1>7, <1>8, <1>9 DEF TableInv

\* A duplicate for the compositor is a new number for the same file.
LEMMA DupKeepsTable ==
  ASSUME TableInv, PoolTypes', NEW p \in Pool, DupFD(p)
  PROVE  TableInv'
<1>1. PoolTypes /\ TableTypes /\ NameInv /\ NoStrays /\ \A q \in Pool : PoolInv(q)
  BY DEF TableInv
<1>2. fdTable[pool[p].fd] = p
  <2>1. pool[p].fd # NoFD
    BY DEF DupFD, FD, NoFD
  <2> QED BY <1>1, <2>1 DEF PoolInv
<1>3. PICK d \in FD : Opens(d, p) /\ dup' = [dup EXCEPT ![p] = d]
  BY <1>2, Zenon DEF DupFD
<1>4. UNCHANGED <<pool, file, theirs, nameTaken, shared>> /\ Created(p) /\ dup[p] = NoFD
  BY DEF DupFD, kernelVars
<1>5. /\ fdTable' \in [FD -> Pool \cup {NoFile, Other}] /\ fdTable'[d] = p
      /\ \A e \in FD \ {d} : fdTable'[e] = fdTable[e]
  BY <1>1, <1>3, TableUpdates DEF Opens
<1>6. d # NoFD /\ d \notin theirs /\ \A q \in Pool : pool[q].fd # d /\ dup[q] # d
  BY <1>3, FreeIsUnknown DEF Opens
<1>7. dup' \in [Pool -> FD \cup {NoFD}] /\ dup'[p] = d /\ \A q \in Pool \ {p} : dup'[q] = dup[q]
  BY <1>1, <1>3 DEF TableTypes
<1>8. \A q \in Pool : pool[q].fd \in FD \cup {NoFD} /\ dup[q] \in FD \cup {NoFD}
  BY <1>1 DEF PoolTypes, PoolRecord, TableTypes
<1>9. TableTypes'
  BY <1>1, <1>4, <1>5, <1>7 DEF TableTypes
<1>10. ASSUME NEW q \in Pool PROVE PoolInv(q)'
  <2>1. /\ pool[q].fd # NoFD => fdTable'[pool[q].fd] = fdTable[pool[q].fd]
        /\ dup[q] # NoFD => fdTable'[dup[q]] = fdTable[dup[q]]
    BY <1>5, <1>6, <1>8
  <2>2. PoolInv(q)
    BY <1>1
  <2>3. CASE q = p
    BY <1>4, <1>5, <1>6, <1>7, <2>1, <2>2, <2>3 DEF PoolInv, Created
  <2>4. CASE q # p
    <3>1. dup'[q] = dup[q]
      BY <1>7, <2>4
    <3> QED BY <1>4, <2>1, <2>2, <3>1 DEF PoolInv, Created
  <2> QED BY <2>3, <2>4
<1>11. NoStrays'
  <2>1. \A e \in theirs' : fdTable'[e] = Other
    BY <1>1, <1>4, <1>5, <1>6 DEF NoStrays, TableTypes
  <2>2. ASSUME NEW e \in FD, fdTable'[e] \in Pool
        PROVE  e \in {pool'[fdTable'[e]].fd, dup'[fdTable'[e]]}
    <3>1. CASE e = d
      BY <1>5, <1>7, <3>1
    <3>2. CASE e # d
      <4>1. fdTable'[e] = fdTable[e] /\ e \in {pool[fdTable[e]].fd, dup[fdTable[e]]} /\ fdTable[e] \in Pool
        BY <1>1, <1>5, <2>2, <3>2 DEF NoStrays
      <4>2. e # NoFD
        BY DEF FD, NoFD
      <4>3. e = dup[fdTable[e]] => fdTable[e] # p
        BY <1>4, <4>2
      <4> QED BY <1>4, <1>7, <4>1, <4>3
    <3> QED BY <3>1, <3>2
  <2> QED BY <2>1, <2>2 DEF NoStrays
<1>12. NameInv'
  BY <1>1, <1>4 DEF NameInv
<1> QED BY <1>9, <1>10, <1>11, <1>12 DEF TableInv

\* Context.request closes the duplicate that it sent, and no other number.
LEMMA SendKeepsTable ==
  ASSUME TableInv, PoolTypes', NEW p \in Pool, SendFD(p)
  PROVE  TableInv'
<1> DEFINE d == dup[p]
<1>1. PoolTypes /\ TableTypes /\ NameInv /\ NoStrays /\ \A q \in Pool : PoolInv(q)
  BY DEF TableInv
<1>2. \A q \in Pool : pool[q].fd \in FD \cup {NoFD} /\ dup[q] \in FD \cup {NoFD}
  BY <1>1 DEF PoolTypes, PoolRecord, TableTypes
<1>3. /\ d \in FD /\ d # NoFD /\ fdTable' = [fdTable EXCEPT ![d] = NoFile] /\ dup' = [dup EXCEPT ![p] = NoFD]
      /\ UNCHANGED <<pool, file, theirs, nameTaken>> /\ shared' \in {shared, shared \cup {p}}
  BY <1>2 DEF SendFD, CloseFD, kernelVars
<1>4. /\ fdTable' \in [FD -> Pool \cup {NoFile, Other}] /\ fdTable'[d] = NoFile
      /\ \A e \in FD \ {d} : fdTable'[e] = fdTable[e]
  BY <1>1, <1>3, TableUpdates
<1>5. /\ fdTable[d] = p /\ d \notin theirs /\ pool[p].fd # d /\ Created(p)
      /\ \A q \in Pool \ {p} : pool[q].fd # d /\ dup[q] # d
  <2>1. fdTable[d] = p /\ pool[p].fd # d /\ Created(p)
    BY <1>1, <1>3 DEF PoolInv
  <2>2. d \notin theirs
    BY <1>1, <2>1 DEF NoStrays
  <2> QED BY <1>3, <2>1, <2>2, NobodyShares
<1>6. dup' \in [Pool -> FD \cup {NoFD}] /\ dup'[p] = NoFD /\ \A q \in Pool \ {p} : dup'[q] = dup[q]
  BY <1>1, <1>3 DEF TableTypes
<1>7. shared' \subseteq Pool /\ \A q \in Pool \ {p} : q \in shared' <=> q \in shared
  BY <1>1, <1>3 DEF TableTypes
<1>8. TableTypes'
  BY <1>1, <1>3, <1>4, <1>6, <1>7 DEF TableTypes
<1>9. ASSUME NEW q \in Pool PROVE PoolInv(q)'
  <2>1. pool[q].fd # NoFD => fdTable'[pool[q].fd] = fdTable[pool[q].fd]
    BY <1>2, <1>4, <1>5
  <2>2. PoolInv(q)
    BY <1>1
  <2>3. CASE q = p
    BY <1>3, <1>5, <1>6, <2>1, <2>2, <2>3 DEF PoolInv, Created
  <2>4. CASE q # p
    <3>1. dup'[q] = dup[q] /\ (dup[q] # NoFD => fdTable'[dup[q]] = fdTable[dup[q]]) /\ (q \in shared' <=> q \in shared)
      BY <1>2, <1>4, <1>5, <1>6, <1>7, <2>4
    <3> QED BY <1>3, <2>1, <2>2, <3>1 DEF PoolInv, Created
  <2> QED BY <2>3, <2>4
<1>10. NoStrays'
  <2>1. \A e \in theirs' : fdTable'[e] = Other
    BY <1>1, <1>3, <1>4, <1>5 DEF NoStrays, TableTypes
  <2>2. ASSUME NEW e \in FD, fdTable'[e] \in Pool
        PROVE  e \in {pool'[fdTable'[e]].fd, dup'[fdTable'[e]]}
    <3>1. e # d
      BY <1>4, <2>2
    <3>2. fdTable'[e] = fdTable[e] /\ e \in {pool[fdTable[e]].fd, dup[fdTable[e]]} /\ fdTable[e] \in Pool
      BY <1>1, <1>4, <2>2, <3>1 DEF NoStrays
    <3>3. e = dup[fdTable[e]] => fdTable[e] # p
      BY <3>1
    <3> QED BY <1>3, <1>6, <3>2, <3>3
  <2> QED BY <2>1, <2>2 DEF NoStrays
<1>11. NameInv'
  BY <1>1, <1>3 DEF NameInv
<1> QED BY <1>8, <1>9, <1>10, <1>11 DEF TableInv

\* The rest of the program opens and closes numbers of its own.
LEMMA OthersKeepTable ==
  ASSUME TableInv, OtherOpens \/ OtherCloses
  PROVE  TableInv'
<1>1. PoolTypes /\ TableTypes /\ NameInv /\ NoStrays /\ \A q \in Pool : PoolInv(q)
  BY DEF TableInv
<1>2. \A q \in Pool : pool[q].fd \in FD \cup {NoFD} /\ dup[q] \in FD \cup {NoFD}
  BY <1>1 DEF PoolTypes, PoolRecord, TableTypes
<1>3. UNCHANGED <<pool, buffers, dup, file, nameTaken, shared>>
  BY Zenon DEF OtherOpens, OtherCloses
<1>4. PICK d \in FD :
        /\ d # NoFD /\ \A q \in Pool : pool[q].fd # d /\ dup[q] # d
        /\ fdTable' \in [FD -> Pool \cup {NoFile, Other}] /\ fdTable'[d] \notin Pool
        /\ \A e \in FD \ {d} : fdTable'[e] = fdTable[e]
        /\ theirs' \subseteq FD
        /\ \A e \in theirs' : e = d => fdTable'[d] = Other
        /\ \A e \in theirs' : e # d => e \in theirs
  <2>1. CASE OtherOpens
    <3>1. PICK d \in FD : Opens(d, Other) /\ theirs' = theirs \cup {d}
      BY <2>1, Zenon DEF OtherOpens
    <3>2. /\ fdTable' \in [FD -> Pool \cup {NoFile, Other}] /\ fdTable'[d] = Other
          /\ \A e \in FD \ {d} : fdTable'[e] = fdTable[e]
      BY <1>1, <3>1, TableUpdates DEF Opens
    <3>3. d # NoFD /\ \A q \in Pool : pool[q].fd # d /\ dup[q] # d
      BY <3>1, FreeIsUnknown DEF Opens
    <3>4. theirs' \subseteq FD /\ \A e \in theirs' : e # d => e \in theirs
      BY <1>1, <3>1 DEF TableTypes
    <3> QED BY <3>2, <3>3, <3>4
  <2>2. CASE OtherCloses
    <3>1. PICK d \in theirs : CloseFD(d) /\ theirs' = theirs \ {d}
      BY <2>2, Zenon DEF OtherCloses
    <3>2. d \in FD /\ d # NoFD /\ fdTable[d] = Other
      BY <1>1 DEF TableTypes, NoStrays, FD, NoFD
    <3>3. /\ fdTable' \in [FD -> Pool \cup {NoFile, Other}] /\ fdTable'[d] = NoFile
          /\ \A e \in FD \ {d} : fdTable'[e] = fdTable[e]
      BY <1>1, <3>1, <3>2, TableUpdates DEF CloseFD
    <3>4. \A q \in Pool : pool[q].fd # d /\ dup[q] # d
      BY <1>1, <3>2 DEF PoolInv
    <3>5. theirs' \subseteq FD /\ d \notin theirs' /\ \A e \in theirs' : e # d => e \in theirs
      BY <1>1, <3>1 DEF TableTypes
    <3> QED BY <3>2, <3>3, <3>4, <3>5
  <2> QED BY <2>1, <2>2
<1>5. PoolTypes' /\ TableTypes' /\ NameInv'
  BY <1>1, <1>3, <1>4 DEF PoolTypes, TableTypes, NameInv
<1>6. ASSUME NEW q \in Pool PROVE PoolInv(q)'
  <2>1. /\ pool[q].fd # NoFD => fdTable'[pool[q].fd] = fdTable[pool[q].fd]
        /\ dup[q] # NoFD => fdTable'[dup[q]] = fdTable[dup[q]]
    BY <1>2, <1>4
  <2>2. PoolInv(q)
    BY <1>1
  <2> QED BY <1>3, <2>1, <2>2 DEF PoolInv, Created
<1>7. NoStrays'
  <2>1. ASSUME NEW e \in theirs' PROVE fdTable'[e] = Other
    <3>1. CASE e = d
      BY <1>4, <3>1
    <3>2. CASE e # d
      <4>1. e \in theirs /\ e \in FD
        BY <1>4, <3>2
      <4> QED BY <1>1, <1>4, <3>2, <4>1 DEF NoStrays
    <3> QED BY <3>1, <3>2
  <2>2. ASSUME NEW e \in FD, fdTable'[e] \in Pool
        PROVE  e \in {pool'[fdTable'[e]].fd, dup'[fdTable'[e]]}
    <3>1. fdTable'[e] = fdTable[e]
      BY <1>4, <2>2
    <3> QED BY <1>1, <1>3, <2>2, <3>1 DEF NoStrays
  <2> QED BY <2>1, <2>2 DEF NoStrays
<1> QED BY <1>5, <1>6, <1>7 DEF TableInv

\* Every step keeps the table in order.
LEMMA TableStep ==
  ASSUME TableInv, PoolTypes', [Next]_vars
  PROVE  TableInv'
<1>1. ASSUME NEW p \in Pool, GiveUp(p), pool[p].step \in {"truncate", "seal", "map"} PROVE TableInv'
  <2>1. /\ CloseFD(pool[p].fd) /\ UNCHANGED <<dup, file, theirs, nameTaken, shared>>
        /\ pool' = [pool EXCEPT ![p].step = "failed", ![p].fd = NoFD]
    BY <1>1 DEF GiveUp, kernelVars
  <2> QED BY <1>1, <2>1, ClosesKeepTable
<1>2. ASSUME NEW p \in Pool, Close(p) PROVE TableInv'
  <2>1. /\ CloseFD(pool[p].fd) /\ UNCHANGED <<dup, file, theirs, nameTaken, shared>>
        /\ pool' = [pool EXCEPT ![p].step = "closed", ![p].fd = NoFD]
        /\ pool[p].step \in {"unmapped", "closed"}
    BY <1>2 DEF Close, kernelVars
  <2> QED BY <2>1, ClosesKeepTable
<1>3. ASSUME NEW p \in Pool, MemfdCreate(p) \/ OpenTmpfile(p) \/ OpenNamed(p) PROVE TableInv'
  <2>1. CASE \/ At(p, "memfd") /\ Fallback(p, "tmpfile")
             \/ At(p, "tmpfile") /\ Fallback(p, "named")
             \/ At(p, "named") /\ Fallback(p, "failed")
    BY <2>1, MovesKeepTable, Zenon
  <2>2. CASE /\ pool[p].step \in {"memfd", "tmpfile", "named"}
             /\ \/ Opened(p, "truncate", TRUE) /\ nameTaken' = nameTaken
                \/ Opened(p, "truncate", FALSE) /\ nameTaken' = nameTaken
                \/ Opened(p, "unlink", FALSE) /\ nameTaken' = TRUE
    <3>1. TRUE \in BOOLEAN /\ FALSE \in BOOLEAN
      OBVIOUS
    <3> QED BY <2>2, <3>1, OpensKeepTable, Zenon
  <2> QED BY <1>3, <2>1, <2>2, Zenon DEF MemfdCreate, OpenTmpfile, OpenNamed, At
<1>4. ASSUME NEW p \in Pool, Ftruncate(p) \/ AddSeals(p) \/ MapMemory(p) PROVE TableInv'
  <2>1. CASE GiveUp(p)
    <3>1. pool[p].step \in {"truncate", "seal", "map"}
      BY <1>4, Zenon DEF Ftruncate, AddSeals, MapMemory, At
    <3> QED BY <1>1, <2>1, <3>1, Zenon
  <2>2. CASE ~ GiveUp(p)
    <3>1. /\ UNCHANGED <<dup, fdTable, theirs, nameTaken, shared>>
          /\ \/ /\ At(p, "truncate") /\ file' = [file EXCEPT ![p].size = pool[p].size]
                /\ Goto(p, IF pool[p].memfd THEN "seal" ELSE "map")
             \/ At(p, "seal") /\ file' = [file EXCEPT ![p].sealed = TRUE] /\ Goto(p, "map")
             \/ At(p, "map") /\ file' = [file EXCEPT ![p].mapped = TRUE] /\ Goto(p, "ready")
      BY <1>4, <2>2, Zenon DEF Ftruncate, AddSeals, MapMemory
    <3> QED BY <3>1, PreparesKeepTable, Zenon
  <2> QED BY <2>1, <2>2
<1>5. CASE UNCHANGED vars
  BY <1>5, Zenon DEF vars, TableInv, TableTypes, NoStrays, NameInv, PoolInv, Created
<1> QED BY <1>2, <1>3, <1>4, <1>5, MovesKeepTable, DupKeepsTable, SendKeepsTable, OthersKeepTable, Zenon
        DEF Next, PoolStep

\* The descriptor table and the pools' own view of it, for any number of
\* pools, any table size and any order of failures.
LEMMA TableInvariant == Spec => [](BufferInv /\ TableInv)
<1>1. Init => BufferInv /\ TableInv
  BY BufferInit, TableInit
<1>2. BufferInv /\ TableInv /\ [Next]_vars => (BufferInv /\ TableInv)'
  <2> SUFFICES ASSUME BufferInv, TableInv, [Next]_vars PROVE BufferInv' /\ TableInv'
    OBVIOUS
  <2>1. BufferInv'
    BY BufferStep
  <2>2. PoolTypes'
    BY <2>1 DEF BufferInv
  <2> QED BY <2>1, <2>2, TableStep
<1> QED BY <1>1, <1>2, PTL DEF Spec

\* Every variable keeps its type: the steps of CreateShmPool and Close only
\* ever store table entries and NoFD in fd.
THEOREM ShmPoolTypeCorrect == Spec => []TypeOK
<1>1. TableInv => TypeOK
  BY Zenon DEF TableInv, PoolTypes, TableTypes, FileRecord, TypeOK
<1> QED BY <1>1, TableInvariant, PTL

\* p.fd and a duplicate on its way denote the pool's own file, so that no
\* close of GiveUp, Close (also a second one) or CloseSentFD hits a number
\* the kernel has handed to somebody else since.
THEOREM ClosesOnlyItsOwn == Spec => []DescriptorsOwned
<1>1. TableInv => DescriptorsOwned
  BY Zenon DEF TableInv, PoolInv, NoStrays, DescriptorsOwned
<1> QED BY <1>1, TableInvariant, PTL

\* Whichever call of the chain fails, and after Close, no descriptor, no
\* mapping and no name is left behind.
THEOREM ChainLeaksNothing == Spec => []NothingLeaked
<1>1. TableInv => NothingLeaked
  BY Zenon DEF TableInv, PoolInv, NoStrays, NameInv, NothingLeaked, At
<1> QED BY <1>1, TableInvariant, PTL

\* A memfd is sealed before it is mapped, and mapped before anybody can be
\* sent it: mapped memory keeps its backing.
THEOREM MemoryStaysBacked == Spec => []MappedMemoryBacked
<1>1. TableInv => MappedMemoryBacked
  BY DEF TableInv, PoolInv, Sized, MappedMemoryBacked
<1> QED BY <1>1, TableInvariant, PTL
=============================================================================
