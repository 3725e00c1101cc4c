--------------------------- MODULE FileHandleProofs ---------------------------
(***************************************************************************)
(* Proofs about FileHandle.  Part 1 holds however the reads of a handle    *)
(* interleave; parts 2 and 3 assume what the kernel guarantees without     *)
(* FUSE_CAP_ASYNC_READ, that they do not, and that every file leaves an    *)
(* index entry for the block after its last (Readable).                    *)
(***************************************************************************)
EXTENDS FileHandle, SequenceTheorems, TLAPS

-----------------------------------------------------------------------------
(* Positions, blocks and remainders *)

\* Quotient and remainder of a position by a block size.
LEMMA DivMod ==
  ASSUME NEW p \in Nat, NEW b \in Nat \ {0}
  PROVE  /\ p \div b \in Nat
         /\ p % b \in 0 .. b - 1
         /\ p = b * (p \div b) + (p % b)
<1>1. p \div b \in Int /\ p % b \in 0 .. b - 1
  OBVIOUS
<1>2. p = b * (p \div b) + (p % b)
  OBVIOUS
<1>3. p \div b >= 0
  <2> DEFINE q == p \div b
             r == p % b
  <2>1. q \in Int /\ r \in 0 .. b - 1 /\ p = b * q + r
    BY <1>1, <1>2
  <2> HIDE DEF q, r
  <2>2. ASSUME q <= -1 PROVE b * q <= -b
    BY <2>1, <2>2
  <2>3. QED
    BY <2>1, <2>2 DEF q
<1>4. QED
  BY <1>1, <1>2, <1>3

\* They are determined by p = b * q + r.
LEMMA DivModUnique ==
  ASSUME NEW p \in Nat, NEW b \in Nat \ {0}, NEW q \in Nat, NEW r \in 0 .. b - 1,
         p = b * q + r
  PROVE  p \div b = q /\ p % b = r
OBVIOUS

\* A position below b * n lies in one of the first n blocks.
LEMMA DivBelow ==
  ASSUME NEW p \in Nat, NEW b \in Nat \ {0}, NEW n \in Nat, p < b * n
  PROVE  p \div b < n
OBVIOUS

\* Positions that differ by less than what is left of the block share the block.
LEMMA SameBlock ==
  ASSUME NEW p \in Nat, NEW b \in Nat \ {0}, NEW j \in Nat, (p % b) + j < b
  PROVE  (p + j) \div b = p \div b /\ (p + j) % b = (p % b) + j
OBVIOUS

\* The entry of the index block and the entry of the master index block that lead
\* to a position: b bytes to a block and n blocks to an index block.
LEMMA NestedDiv ==
  ASSUME NEW p \in Nat, NEW b \in Nat \ {0}, NEW n \in Nat \ {0}
  PROVE  /\ p \div (b * n) = (p \div b) \div n
         /\ (p % (b * n)) \div b = (p \div b) % n
         /\ (p % (b * n)) % b = p % b
<1> DEFINE m == b * n
<1>1. m \in Nat \ {0}
  OBVIOUS
<1> HIDE DEF m
<1> DEFINE q1 == p \div m
           r1 == p % m
<1>2. q1 \in Nat /\ r1 \in 0 .. m - 1 /\ p = m * q1 + r1
  BY <1>1, DivMod
<1> HIDE DEF q1, r1
<1> DEFINE q2 == r1 \div b
           r2 == r1 % b
<1>3. r1 \in Nat /\ r1 < b * n
  BY <1>1, <1>2 DEF m
<1>4. q2 \in Nat /\ r2 \in 0 .. b - 1 /\ r1 = b * q2 + r2
  BY <1>3, DivMod
<1>5. q2 < n
  BY <1>3, DivBelow
<1> HIDE DEF q2, r2
<1>6. n * q1 + q2 \in Nat /\ p = b * (n * q1 + q2) + r2
  <2>1. p = (b * n) * q1 + (b * q2 + r2)
    BY <1>2, <1>4 DEF m
  <2>2. (b * n) * q1 + b * q2 = b * (n * q1 + q2)
    BY <1>2, <1>4
  <2>3. b * q2 \in Nat /\ (b * n) * q1 \in Nat /\ n * q1 + q2 \in Nat
    BY <1>2, <1>4
  <2>4. QED
    BY <1>4, <2>1, <2>2, <2>3
<1>7. p \div b = n * q1 + q2 /\ p % b = r2
  BY <1>4, <1>6, DivModUnique
<1>8. (n * q1 + q2) \div n = q1 /\ (n * q1 + q2) % n = q2
  <2>1. q1 \in Nat /\ q2 \in 0 .. n - 1
    BY <1>2, <1>4, <1>5
  <2>2. QED
    BY <1>6, <2>1, DivModUnique
<1>9. /\ q1 = (p \div b) \div n
      /\ q2 = (p \div b) % n
      /\ r2 = p % b
  BY <1>7, <1>8
<1>10. QED
  BY <1>9 DEF q1, r1, q2, r2, m

-----------------------------------------------------------------------------
(* Part 1: types and bounds, for any interleaving *)

\* An open handle always has a data block.
HandleBound == \A h \in Handles : file[h] # NULL => data[h] \in Blocks

\* A request names an open handle; Read copies within a block and within size.
RequestBound(t) ==
  /\ pc[t] # "idle" => call[t] \in Calls /\ file[call[t].handle] # NULL
  /\ pc[t] = "offset" => left[t] > 0
  /\ pc[t] = "copy" => /\ skip[t] + chunk[t] <= BLOCK_SIZE
                       /\ chunk[t] \in 1 .. left[t]

\* The inductive invariant behind TypeOK and CopyInBounds: a copy yields bytes, and
\* leaves a natural number to copy, because its block and bounds are right.
Bounds == TypeOK /\ HandleBound /\ \A t \in Threads : RequestBound(t)

LEMMA InitBounds == Init => Bounds
<1> SUFFICES ASSUME Init PROVE Bounds
  OBVIOUS
<1>1. TypeOK
  <2>1. /\ file \in [Handles -> Files \cup {NULL}]
        /\ position \in [Handles -> Nat]
        /\ master \in [Handles -> Blocks \cup {NULL}]
        /\ index \in [Handles -> Blocks \cup {NULL}]
        /\ data \in [Handles -> Blocks \cup {NULL}]
    BY DEF Init
  <2>2. /\ pc \in [Threads -> Labels]
        /\ call \in [Threads -> Calls \cup {NULL}]
        /\ target \in [Threads -> Nat]
        /\ left \in [Threads -> Nat]
        /\ terminated \in BOOLEAN
    BY DEF Init, Labels
  <2>3. 0 \in 0 .. BLOCK_SIZE - 1 /\ 0 \in 0 .. BLOCK_SIZE
    BY SizeAssumption DEF SizeAssumption
  <2>4. /\ skip \in [Threads -> 0 .. BLOCK_SIZE - 1]
        /\ chunk \in [Threads -> 0 .. BLOCK_SIZE]
    BY <2>3 DEF Init
  <2>5. buf \in [Threads -> Seq(0 .. 255)]
    BY DEF Init
  <2>6. QED
    BY <2>1, <2>2, <2>4, <2>5 DEF TypeOK
<1>2. HandleBound /\ \A t \in Threads : RequestBound(t)
  BY DEF Init, HandleBound, RequestBound
<1>3. QED
  BY <1>1, <1>2 DEF Bounds

LEMMA PointersOnDisk ==
  ASSUME NEW b \in Blocks \cup {NULL}, NEW i \in Int
  PROVE  GetBlock(At(b, i)) \in Blocks \cup {Thrown}
BY DiskAssumption DEF DiskAssumption, GetBlock, At, Thrown

\* A handle is opened with a data block, or an exception ends the process.
LEMMA OpenBounds ==
  ASSUME Bounds, NEW h \in Handles, NEW f \in Files, Open(h, f)
  PROVE  Bounds'
<1> USE DEF Bounds
<1> USE RequestAssumption, SizeAssumption DEF RequestAssumption, SizeAssumption
<1>1. CASE Thrown \in {OpenMaster(f), OpenIndex(f), OpenData(f)}
  BY <1>1 DEF Open, Terminate, TypeOK, HandleBound, RequestBound, handleVars, threadVars
<1>2. CASE Thrown \notin {OpenMaster(f), OpenIndex(f), OpenData(f)}
  <2>1. f \in FileType
    OBVIOUS
  <2>2. /\ OpenMaster(f) \in Blocks \cup {NULL}
        /\ OpenIndex(f) \in Blocks \cup {NULL}
        /\ OpenData(f) \in Blocks
    <3>1. OpenMaster(f) \in Blocks \cup {NULL}
      BY <2>1 DEF OpenMaster, FileType, GetBlock
    <3>2. OpenIndex(f) \in Blocks \cup {NULL}
      BY <1>2, <2>1, <3>1, PointersOnDisk DEF OpenIndex, FileType, StorageTypes, GetBlock
    <3>3. OpenData(f) \in Blocks
      BY <1>2, <2>1, <3>2, PointersOnDisk DEF OpenData, FileType, StorageTypes, GetBlock
    <3>4. QED
      BY <3>1, <3>2, <3>3
  <2>a. /\ file' = [file EXCEPT ![h] = f]
        /\ position' = [position EXCEPT ![h] = 0]
        /\ master' = [master EXCEPT ![h] = OpenMaster(f)]
        /\ index' = [index EXCEPT ![h] = OpenIndex(f)]
        /\ data' = [data EXCEPT ![h] = OpenData(f)]
        /\ UNCHANGED <<threadVars, terminated>>
    BY <1>2 DEF Open
  <2>3. TypeOK'
    BY <2>a, <2>2 DEF TypeOK, threadVars
  <2>4. HandleBound'
    BY <2>a, <2>2 DEF TypeOK, HandleBound
  <2>5. ASSUME NEW t \in Threads PROVE RequestBound(t)'
    BY <2>a, <2>1 DEF TypeOK, RequestBound, threadVars
  <2>6. QED
    BY <2>3, <2>4, <2>5
<1>3. QED
  BY <1>1, <1>2

\* No request is outstanding on a handle that is closed.
LEMMA CloseBounds ==
  ASSUME Bounds, NEW h \in Handles, Close(h)
  PROVE  Bounds'
<1>1. /\ file' = [file EXCEPT ![h] = NULL]
      /\ position' = [position EXCEPT ![h] = 0]
      /\ master' = [master EXCEPT ![h] = NULL]
      /\ index' = [index EXCEPT ![h] = NULL]
      /\ data' = [data EXCEPT ![h] = NULL]
      /\ UNCHANGED <<threadVars, terminated>>
      /\ ~Busy(h)
  BY DEF Close
<1>2. TypeOK'
  BY <1>1 DEF Bounds, TypeOK, threadVars
<1>3. HandleBound'
  BY <1>1 DEF Bounds, TypeOK, HandleBound
<1>4. ASSUME NEW t \in Threads PROVE RequestBound(t)'
  BY <1>1 DEF Bounds, TypeOK, RequestBound, threadVars, Busy
<1>5. QED
  BY <1>2, <1>3, <1>4 DEF Bounds

LEMMA DispatchBounds ==
  ASSUME Bounds, NEW t \in Threads, NEW h \in Handles, NEW off \in Offsets,
         NEW size \in Sizes, Dispatch(t, h, off, size)
  PROVE  Bounds'
<1>1. /\ call' = [call EXCEPT ![t] = [handle |-> h, off |-> off, size |-> size]]
      /\ target' = [target EXCEPT ![t] = off]
      /\ left' = [left EXCEPT ![t] = size]
      /\ pc' = [pc EXCEPT ![t] = "seek"]
      /\ UNCHANGED <<handleVars, skip, chunk, buf, terminated>>
      /\ file[h] # NULL
  BY DEF Dispatch
<1>2. /\ [handle |-> h, off |-> off, size |-> size] \in Calls
      /\ off \in Nat
      /\ size \in Nat
  BY RequestAssumption DEF RequestAssumption, Calls
<1>3. TypeOK'
  BY <1>1, <1>2 DEF Bounds, TypeOK, handleVars, Labels
<1>4. HandleBound'
  BY <1>1 DEF Bounds, HandleBound, handleVars
<1>5. ASSUME NEW s \in Threads PROVE RequestBound(s)'
  BY <1>1, <1>2 DEF Bounds, TypeOK, RequestBound, handleVars
<1>6. QED
  BY <1>3, <1>4, <1>5 DEF Bounds

LEMMA SeekPositionBounds ==
  ASSUME Bounds, NEW t \in Threads, SeekPosition(t)
  PROVE  Bounds'
<1> DEFINE h == call[t].handle
<1>1. h \in Handles /\ target[t] \in Nat
  BY DEF Bounds, TypeOK, RequestBound, SeekPosition, Calls
<1>2. /\ UNCHANGED <<file, master, index, data, call, target, left, skip, chunk, buf>>
      /\ UNCHANGED terminated
      /\ position' \in [Handles -> Nat]
      /\ pc' \in [Threads -> Labels]
      /\ pc[t] # "idle"
      /\ \A s \in Threads : s # t => pc'[s] = pc[s]
      /\ pc'[t] = "offset" => left[t] > 0
      /\ pc'[t] # "copy"
  BY <1>1 DEF SeekPosition, Bounds, TypeOK, Labels, OnSeekError, AfterSeek
<1>3. TypeOK'
  BY <1>2 DEF Bounds, TypeOK
<1>4. HandleBound'
  BY <1>2 DEF Bounds, HandleBound
<1>5. ASSUME NEW s \in Threads PROVE RequestBound(s)'
  BY <1>2 DEF Bounds, RequestBound
<1>6. QED
  BY <1>3, <1>4, <1>5 DEF Bounds

\* Seek's offset -= i * BYTES_PER_INDEX_BLOCK leaves the remainder.
LEMMA WithinMod ==
  ASSUME NEW off \in Nat
  PROVE  /\ MasterEntry(off) \in Nat
         /\ WithinIndexBlock(off) \in Nat
         /\ WithinIndexBlock(off) = off % BYTES_PER_INDEX_BLOCK
<1>1. BYTES_PER_INDEX_BLOCK \in Nat \ {0}
  BY SizeAssumption DEF SizeAssumption, BYTES_PER_INDEX_BLOCK
<1> DEFINE q == MasterEntry(off)
           r == off % BYTES_PER_INDEX_BLOCK
<1>2. q \in Nat /\ r \in Nat /\ off = BYTES_PER_INDEX_BLOCK * q + r
  BY <1>1, DivMod DEF MasterEntry
<1> HIDE DEF q, r
<1>3. off - q * BYTES_PER_INDEX_BLOCK = r
  BY <1>1, <1>2
<1>4. QED
  BY <1>2, <1>3 DEF WithinIndexBlock, q, r

LEMMA SeekIndexBounds ==
  ASSUME Bounds, NEW t \in Threads, SeekIndex(t)
  PROVE  Bounds'
<1> DEFINE h == call[t].handle
           b == GetBlock(At(master[h], MasterEntry(target[t])))
<1>1. h \in Handles /\ target[t] \in Nat
  BY DEF Bounds, TypeOK, RequestBound, SeekIndex, Calls
<1>2. MasterEntry(target[t]) \in Nat /\ WithinIndexBlock(target[t]) \in Nat
  BY <1>1, WithinMod
<1>3. b \in Blocks \cup {Thrown}
  <2>1. master[h] \in Blocks \cup {NULL}
    BY <1>1 DEF Bounds, TypeOK
  <2>2. QED
    BY <1>2, <2>1, PointersOnDisk
<1> HIDE DEF b
<1>4. /\ UNCHANGED <<file, position, master, data, call, left, skip, chunk, buf>>
      /\ index' \in [Handles -> Blocks \cup {NULL}]
      /\ target' \in [Threads -> Nat]
      /\ terminated' \in BOOLEAN
      /\ pc' \in [Threads -> Labels]
      /\ pc[t] = "index"
      /\ pc'[t] \in {"index", "data"}
      /\ \A s \in Threads : s # t => pc'[s] = pc[s]
  <2>1. CASE master[h] = NULL
    BY <1>1, <2>1 DEF SeekIndex, Bounds, TypeOK, Labels, handleVars
  <2>2. CASE master[h] # NULL /\ b # Thrown
    <3>1. /\ index' = [index EXCEPT ![h] = b]
          /\ target' = [target EXCEPT ![t] = WithinIndexBlock(@)]
          /\ pc' = [pc EXCEPT ![t] = "data"]
          /\ pc[t] = "index"
          /\ UNCHANGED <<file, position, master, data, terminated, call, left, skip, chunk, buf>>
      BY <2>2 DEF SeekIndex, b
    <3>2. b \in Blocks
      BY <1>3, <2>2
    <3>3. QED
      BY <1>1, <1>2, <3>1, <3>2 DEF Bounds, TypeOK, Labels
  <2>3. CASE master[h] # NULL /\ b = Thrown
    BY <1>1, <2>3 DEF SeekIndex, Bounds, TypeOK, Labels, handleVars, b
  <2>4. QED
    BY <2>1, <2>2, <2>3
<1>5. TypeOK'
  BY <1>4 DEF Bounds, TypeOK
<1>6. HandleBound'
  BY <1>4 DEF Bounds, HandleBound
<1>7. ASSUME NEW s \in Threads PROVE RequestBound(s)'
  BY <1>4 DEF Bounds, RequestBound
<1>8. QED
  BY <1>5, <1>6, <1>7 DEF Bounds

LEMMA SeekDataBounds ==
  ASSUME Bounds, NEW t \in Threads, SeekData(t)
  PROVE  Bounds'
<1> DEFINE h == call[t].handle
           b == GetBlock(At(index[h], IndexEntry(target[t])))
<1>1. h \in Handles /\ target[t] \in Nat
  BY DEF Bounds, TypeOK, RequestBound, SeekData, Calls
<1>2. b \in Blocks \cup {Thrown}
  <2>1. IndexEntry(target[t]) \in Int
    BY <1>1, SizeAssumption, DivMod DEF SizeAssumption, IndexEntry
  <2>2. QED
    BY <1>1, <2>1, PointersOnDisk DEF Bounds, TypeOK
<1> HIDE DEF b
<1>3. /\ UNCHANGED <<file, position, master, index, call, target, left, skip, chunk, buf>>
      /\ data' \in [Handles -> Blocks \cup {NULL}]
      /\ \A k \in Handles : data[k] \in Blocks => data'[k] \in Blocks
      /\ terminated' \in BOOLEAN
      /\ pc' \in [Threads -> Labels]
      /\ pc[t] = "data"
      /\ pc'[t] \in {"data", "offset", "convert"}
      /\ pc'[t] = "offset" => left[t] > 0
      /\ \A s \in Threads : s # t => pc'[s] = pc[s]
  <2>1. CASE index[h] = NULL
    BY <1>1, <2>1 DEF SeekData, Bounds, TypeOK, Labels, AfterSeek
  <2>2. CASE index[h] # NULL /\ b # Thrown
    <3>1. /\ data' = [data EXCEPT ![h] = b]
          /\ pc' = [pc EXCEPT ![t] = AfterSeek(t)]
          /\ pc[t] = "data"
          /\ UNCHANGED <<file, position, master, index, terminated>>
          /\ UNCHANGED <<call, target, left, skip, chunk, buf>>
      BY <2>2 DEF SeekData, b
    <3>2. b \in Blocks
      BY <1>2, <2>2
    <3>3. QED
      BY <1>1, <3>1, <3>2 DEF Bounds, TypeOK, Labels, AfterSeek
  <2>3. CASE index[h] # NULL /\ b = Thrown
    BY <1>1, <2>3 DEF SeekData, Bounds, TypeOK, Labels, b
  <2>4. QED
    BY <2>1, <2>2, <2>3
<1>4. TypeOK'
  BY <1>3 DEF Bounds, TypeOK
<1>5. HandleBound'
  BY <1>3 DEF Bounds, HandleBound
<1>6. ASSUME NEW s \in Threads PROVE RequestBound(s)'
  BY <1>3 DEF Bounds, RequestBound
<1>7. QED
  BY <1>4, <1>5, <1>6 DEF Bounds

\* Here position is turned into bounds that keep the copy within a block.
LEMMA ReadOffsetBounds ==
  ASSUME Bounds, NEW t \in Threads, ReadOffset(t)
  PROVE  Bounds'
<1> DEFINE from == position[call[t].handle] % BLOCK_SIZE
<1>1. /\ skip' = [skip EXCEPT ![t] = from]
      /\ chunk' = [chunk EXCEPT ![t] = ToCopy(left[t], from)]
      /\ pc' = [pc EXCEPT ![t] = "copy"]
      /\ pc[t] = "offset"
      /\ UNCHANGED <<handleVars, call, target, left, buf, terminated>>
  BY DEF ReadOffset
<1>2. from \in 0 .. BLOCK_SIZE - 1
  <2>1. position[call[t].handle] \in Nat
    BY <1>1 DEF Bounds, TypeOK, RequestBound, Calls
  <2>2. QED
    BY <2>1, SizeAssumption, DivMod DEF SizeAssumption
<1> HIDE DEF from
<1>3. /\ ToCopy(left[t], from) \in 1 .. left[t]
      /\ ToCopy(left[t], from) \in 0 .. BLOCK_SIZE
      /\ from + ToCopy(left[t], from) <= BLOCK_SIZE
  BY <1>1, <1>2, SizeAssumption DEF Bounds, TypeOK, RequestBound, ToCopy, SizeAssumption
<1>4. TypeOK'
  BY <1>1, <1>2, <1>3 DEF Bounds, TypeOK, handleVars, Labels
<1>5. HandleBound'
  BY <1>1 DEF Bounds, HandleBound, handleVars
<1>6. ASSUME NEW s \in Threads PROVE RequestBound(s)'
  BY <1>1, <1>2, <1>3 DEF Bounds, TypeOK, RequestBound, handleVars
<1>7. QED
  BY <1>4, <1>5, <1>6 DEF Bounds

\* Bytes numbered from 1 to n are a sequence of length n.
LEMMA FunctionIsSeq ==
  ASSUME NEW n \in Nat, NEW g \in [1 .. n -> 0 .. 255]
  PROVE  g \in Seq(0 .. 255) /\ Len(g) = n
OBVIOUS

LEMMA BytesType ==
  ASSUME NEW b \in Blocks, NEW i, i \in 0 .. BLOCK_SIZE - 1
  PROVE  Bytes[b][i] \in 0 .. 255
<1>1. Bytes \in [Blocks -> [0 .. BLOCK_SIZE - 1 -> 0 .. 255]]
  BY DiskAssumption DEF DiskAssumption
<1>2. Bytes[b] \in [0 .. BLOCK_SIZE - 1 -> 0 .. 255]
  BY <1>1
<1>3. QED
  BY <1>2

\* What a copy appends: one byte of the block for each step from skip.
CopiedBytes(t) ==
  [k \in 1 .. chunk[t] |-> Bytes[data[call[t].handle]][skip[t] + k - 1]]

LEMMA CopiedBytesType ==
  ASSUME Bounds, NEW t \in Threads, pc[t] = "copy"
  PROVE  CopiedBytes(t) \in Seq(0 .. 255) /\ Len(CopiedBytes(t)) = chunk[t]
<1>1. data[call[t].handle] \in Blocks
  BY DEF Bounds, HandleBound, RequestBound, Calls
<1>2. /\ chunk[t] \in Nat
      /\ \A k \in 1 .. chunk[t] : skip[t] + k - 1 \in 0 .. BLOCK_SIZE - 1
  BY SizeAssumption DEF Bounds, TypeOK, RequestBound, SizeAssumption
<1>3. ASSUME NEW k \in 1 .. chunk[t]
      PROVE  Bytes[data[call[t].handle]][skip[t] + k - 1] \in 0 .. 255
  BY <1>1, <1>2, BytesType
<1>4. CopiedBytes(t) \in [1 .. chunk[t] -> 0 .. 255]
  BY <1>3 DEF CopiedBytes
<1>5. QED
  BY <1>2, <1>4, FunctionIsSeq

LEMMA ReadCopyBounds ==
  ASSUME Bounds, NEW t \in Threads, ReadCopy(t)
  PROVE  Bounds'
<1>1. /\ buf' = [buf EXCEPT ![t] = @ \o CopiedBytes(t)]
      /\ left' = [left EXCEPT ![t] = @ - chunk[t]]
      /\ pc' = [pc EXCEPT ![t] = "advance"]
      /\ pc[t] = "copy"
      /\ UNCHANGED <<handleVars, call, target, skip, chunk, terminated>>
  BY DEF ReadCopy, CopiedBytes
<1>2. left[t] - chunk[t] \in Nat
  BY <1>1 DEF Bounds, TypeOK, RequestBound
<1>3. buf[t] \o CopiedBytes(t) \in Seq(0 .. 255)
  BY <1>1, CopiedBytesType DEF Bounds, TypeOK
<1>4. TypeOK'
  BY <1>1, <1>2, <1>3 DEF Bounds, TypeOK, handleVars, Labels
<1>5. HandleBound'
  BY <1>1 DEF Bounds, HandleBound, handleVars
<1>6. ASSUME NEW s \in Threads PROVE RequestBound(s)'
  BY <1>1, <1>2 DEF Bounds, TypeOK, RequestBound, handleVars
<1>7. QED
  BY <1>4, <1>5, <1>6 DEF Bounds

LEMMA AdvanceBounds ==
  ASSUME Bounds, NEW t \in Threads, Advance(t)
  PROVE  Bounds'
<1>1. /\ target' = [target EXCEPT ![t] = position[call[t].handle] + chunk[t]]
      /\ pc' = [pc EXCEPT ![t] = "seek"]
      /\ pc[t] = "advance"
      /\ UNCHANGED <<handleVars, call, left, skip, chunk, buf, terminated>>
  BY DEF Advance
<1>2. position[call[t].handle] + chunk[t] \in Nat
  BY <1>1, SizeAssumption DEF Bounds, TypeOK, RequestBound, Calls, SizeAssumption
<1>3. TypeOK'
  BY <1>1, <1>2 DEF Bounds, TypeOK, handleVars, Labels
<1>4. HandleBound'
  BY <1>1 DEF Bounds, HandleBound, handleVars
<1>5. ASSUME NEW s \in Threads PROVE RequestBound(s)'
  BY <1>1 DEF Bounds, TypeOK, RequestBound, handleVars
<1>6. QED
  BY <1>3, <1>4, <1>5 DEF Bounds

LEMMA TranslatedType ==
  ASSUME NEW f, NEW byte \in 0 .. 255
  PROVE  Translated(f, byte) \in 0 .. 255
BY DEF Translated, ToUnix

LEMMA ConvertBounds ==
  ASSUME Bounds, NEW t \in Threads, Convert(t)
  PROVE  Bounds'
<1> DEFINE f == file[call[t].handle]
           text == [k \in 1 .. Len(buf[t]) |-> Translated(f, buf[t][k])]
<1>1. /\ buf' = [buf EXCEPT ![t] = text]
      /\ pc' = [pc EXCEPT ![t] = "reply"]
      /\ pc[t] = "convert"
      /\ UNCHANGED <<handleVars, call, target, left, skip, chunk, terminated>>
  BY DEF Convert
<1>2. text \in Seq(0 .. 255)
  <2>1. buf[t] \in Seq(0 .. 255)
    BY DEF Bounds, TypeOK
  <2>2. /\ Len(buf[t]) \in Nat
        /\ \A k \in 1 .. Len(buf[t]) : buf[t][k] \in 0 .. 255
    BY <2>1, LenProperties
  <2>3. text \in [1 .. Len(buf[t]) -> 0 .. 255]
    <3>1. ASSUME NEW k \in 1 .. Len(buf[t]) PROVE Translated(f, buf[t][k]) \in 0 .. 255
      BY <2>2, TranslatedType
    <3>2. QED
      BY <3>1
  <2> HIDE DEF text
  <2>4. QED
    BY <2>2, <2>3, FunctionIsSeq
<1> HIDE DEF text
<1>3. TypeOK'
  BY <1>1, <1>2 DEF Bounds, TypeOK, handleVars, Labels
<1>4. HandleBound'
  BY <1>1 DEF Bounds, HandleBound, handleVars
<1>5. ASSUME NEW s \in Threads PROVE RequestBound(s)'
  BY <1>1 DEF Bounds, TypeOK, RequestBound, handleVars
<1>6. QED
  BY <1>3, <1>4, <1>5 DEF Bounds

LEMMA ReplyBounds ==
  ASSUME Bounds, NEW t \in Threads, Reply(t)
  PROVE  Bounds'
<1>1. /\ pc' = [pc EXCEPT ![t] = "idle"]
      /\ call' = [call EXCEPT ![t] = NULL]
      /\ target' = [target EXCEPT ![t] = 0]
      /\ left' = [left EXCEPT ![t] = 0]
      /\ skip' = [skip EXCEPT ![t] = 0]
      /\ chunk' = [chunk EXCEPT ![t] = 0]
      /\ buf' = [buf EXCEPT ![t] = <<>>]
      /\ UNCHANGED <<handleVars, terminated>>
  BY DEF Reply
<1>2. 0 \in 0 .. BLOCK_SIZE - 1 /\ 0 \in 0 .. BLOCK_SIZE
  BY SizeAssumption DEF SizeAssumption
<1>3. TypeOK'
  BY <1>1, <1>2 DEF Bounds, TypeOK, handleVars, Labels
<1>4. HandleBound'
  BY <1>1 DEF Bounds, HandleBound, handleVars
<1>5. ASSUME NEW s \in Threads PROVE RequestBound(s)'
  BY <1>1 DEF Bounds, TypeOK, RequestBound, handleVars
<1>6. QED
  BY <1>3, <1>4, <1>5 DEF Bounds

LEMMA NextBounds == Bounds /\ [Next]_vars => Bounds'
<1> SUFFICES ASSUME Bounds, [Next]_vars PROVE Bounds'
  OBVIOUS
<1>1. CASE Next
  <2>1. ASSUME NEW t \in Threads, Work(t) PROVE Bounds'
    BY <2>1, SeekPositionBounds, SeekIndexBounds, SeekDataBounds, ReadOffsetBounds,
       ReadCopyBounds, AdvanceBounds, ConvertBounds, ReplyBounds DEF Work
  <2>2. QED
    BY <1>1, <2>1, OpenBounds, CloseBounds, DispatchBounds DEF Next
<1>2. CASE UNCHANGED vars
  BY <1>2 DEF Bounds, TypeOK, HandleBound, RequestBound, vars, handleVars, threadVars
<1>3. QED
  BY <1>1, <1>2

LEMMA BoundsInvariant == Spec => []Bounds
BY InitBounds, NextBounds, PTL DEF Spec

\* The variables keep their types: nothing a callback computes, from any request and
\* under any interleaving, leaves the range of its C++ counterpart.
THEOREM TypeCorrect == Spec => []TypeOK
<1>1. Bounds => TypeOK
  BY DEF Bounds
<1>2. QED
  BY <1>1, BoundsInvariant, PTL

\* Reads of one handle that interleave in file_handle_t::Seek and Read, where nothing
\* locks, never copy from outside a block or through a null pointer, and a handle is
\* never closed under a request.
THEOREM CopyStaysInBounds == Spec => []CopyInBounds
<1>1. Bounds => CopyInBounds
  BY DEF Bounds, HandleBound, RequestBound, CopyInBounds, FileOf, Calls
<1>2. QED
  BY <1>1, BoundsInvariant, PTL

-----------------------------------------------------------------------------
(* Part 2: one outstanding read for each handle *)

\* The index block that Seek must have found for a position, and the data block.
IndexOf(f, p) ==
  CASE f.storage = "seedling" -> NULL
    [] f.storage = "sapling"  -> f.key
    [] f.storage = "tree"     -> Pointers[f.key][p \div BYTES_PER_INDEX_BLOCK]

DataOf(f, p) == BlockOf(f, p \div BLOCK_SIZE)

RawByteAt(f, o) == Bytes[DataOf(f, o)][o % BLOCK_SIZE]

\* A read of h is between the steps of Seek named in L.
Moving(h, L) == \E t \in Threads : pc[t] \in L /\ call[t].handle = h

Exclusive ==
  \A s, t \in Threads :
    pc[s] # "idle" /\ pc[t] # "idle" /\ call[s].handle = call[t].handle => s = t

\* A handle's pointers follow from its position, except in the middle of a Seek.
Placed(h) ==
  LET f == file[h] IN
  f # NULL =>
    /\ position[h] <= f.eof
    /\ master[h] = IF f.storage = "tree" THEN f.key ELSE NULL
    /\ f.storage # "tree" \/ ~Moving(h, {"index"}) => index[h] = IndexOf(f, position[h])
    /\ f.storage = "seedling" \/ ~Moving(h, {"index", "data"})
         => data[h] = DataOf(f, position[h])

\* Where the next byte of the reply lies in the file; at or beyond the end, the rest
\* of the reply does not matter.
NextByte(t) == call[t].off + Len(buf[t])

Past(t) == NextByte(t) > FileOf(t).eof

\* A request has copied a prefix of its range and its handle stands at the next byte.
Steady(t) ==
  LET h == call[t].handle IN
  pc[t] # "idle" =>
    /\ Len(buf[t]) + left[t] = call[t].size
    /\ pc[t] = "seek" => target[t] = NextByte(t) \/ Past(t)
    /\ pc[t] \in {"index", "data", "offset", "copy"} => position[h] = NextByte(t) \/ Past(t)
    /\ pc[t] = "index" => target[t] = position[h]
    /\ pc[t] = "data" => target[t] = IF FileOf(t).storage = "tree"
                                     THEN position[h] % BYTES_PER_INDEX_BLOCK
                                     ELSE position[h]
    /\ pc[t] = "copy" => skip[t] = position[h] % BLOCK_SIZE
    /\ pc[t] = "advance" => position[h] + chunk[t] = NextByte(t) \/ Past(t)
    /\ pc[t] \in {"convert", "reply"} => left[t] = 0
    /\ pc[t] = "fail" => call[t].off > FileOf(t).eof
    /\ \A k \in 1 .. Len(buf[t]) :
         LET o == call[t].off + k - 1 IN
         o < FileOf(t).eof =>
           buf[t][k] = IF pc[t] = "reply" THEN ByteAt(FileOf(t), o)
                                          ELSE RawByteAt(FileOf(t), o)

\* A callback starts with nothing copied.
Fresh == \A t \in Threads : pc[t] = "idle" => buf[t] = <<>>

\* The inductive invariant behind ReadCorrect and NeverTerminates.
SerialInv ==
  /\ Bounds
  /\ ~terminated
  /\ Exclusive
  /\ Fresh
  /\ \A h \in Handles : Placed(h)
  /\ \A t \in Threads : Steady(t)

\* What part 2 assumes.
SerialReads == ~AsyncRead /\ \A f \in Files : Readable(f)

LEMMA IndexBlockSize ==
  /\ BLOCK_SIZE \in Nat \ {0}
  /\ POINTERS \in Nat \ {0}
  /\ BYTES_PER_INDEX_BLOCK \in Nat \ {0}
BY SizeAssumption DEF SizeAssumption, BYTES_PER_INDEX_BLOCK

\* A block number read from a block of the disk is on the disk.
LEMMA PointerType ==
  ASSUME NEW b \in Blocks, NEW i \in 0 .. POINTERS - 1
  PROVE  /\ Pointers[b][i] \in Blocks
         /\ Pointers[b][i] # Thrown
         /\ GetBlock(At(b, i)) = Pointers[b][i]
<1>1. Pointers[b][i] \in Blocks
  <2>1. Pointers \in [Blocks -> [0 .. POINTERS - 1 -> Blocks]]
    BY DiskAssumption DEF DiskAssumption
  <2>2. Pointers[b] \in [0 .. POINTERS - 1 -> Blocks]
    BY <2>1
  <2>3. QED
    BY <2>2
<1>2. QED
  BY <1>1, SizeAssumption DEF GetBlock, At, Thrown, Blocks, SizeAssumption

\* Every entry that Seek uses for a position in the file, or at its end, is in its
\* index block.
LEMMA EntryInRange ==
  ASSUME SerialReads, NEW f \in Files, NEW p \in Nat, p <= f.eof
  PROVE  /\ f.storage = "tree" => MasterEntry(p) \in 0 .. POINTERS - 1
         /\ f.storage = "sapling" => IndexEntry(p) \in 0 .. POINTERS - 1
         /\ IndexEntry(p % BYTES_PER_INDEX_BLOCK) \in 0 .. POINTERS - 1
<1>1. f \in FileType /\ Readable(f)
  BY RequestAssumption DEF RequestAssumption, SerialReads
<1>2. ASSUME f.storage = "tree" PROVE MasterEntry(p) \in 0 .. POINTERS - 1
  <2>1. p < BYTES_PER_INDEX_BLOCK * POINTERS
    BY <1>1, <1>2, IndexBlockSize DEF Readable, FileType, BYTES_PER_INDEX_BLOCK
  <2>2. MasterEntry(p) \in Nat /\ MasterEntry(p) < POINTERS
    BY <2>1, IndexBlockSize, DivBelow, DivMod DEF MasterEntry
  <2>3. QED
    BY <2>2, IndexBlockSize
<1>3. ASSUME f.storage = "sapling" PROVE IndexEntry(p) \in 0 .. POINTERS - 1
  <2>1. p < BLOCK_SIZE * POINTERS
    BY <1>1, <1>3, IndexBlockSize DEF Readable, FileType
  <2>2. IndexEntry(p) \in Nat /\ IndexEntry(p) < POINTERS
    BY <2>1, IndexBlockSize, DivBelow, DivMod DEF IndexEntry
  <2>3. QED
    BY <2>2, IndexBlockSize
<1>4. IndexEntry(p % BYTES_PER_INDEX_BLOCK) \in 0 .. POINTERS - 1
  <2> DEFINE r == p % BYTES_PER_INDEX_BLOCK
  <2>1. r \in 0 .. BYTES_PER_INDEX_BLOCK - 1
    BY IndexBlockSize, DivMod
  <2> HIDE DEF r
  <2>2. r \in Nat /\ r < BLOCK_SIZE * POINTERS
    BY <2>1, IndexBlockSize DEF BYTES_PER_INDEX_BLOCK
  <2>3. r \div BLOCK_SIZE \in Nat /\ r \div BLOCK_SIZE < POINTERS
    BY <2>2, IndexBlockSize, DivBelow, DivMod
  <2>4. IndexEntry(r) \in 0 .. POINTERS - 1
    BY <2>3, IndexBlockSize DEF IndexEntry
  <2>5. QED
    BY <2>4 DEF r
<1>5. QED
  BY <1>2, <1>3, <1>4

\* The two lookups of Seek lead to the block that holds the position.
LEMMA SeekLookups ==
  ASSUME SerialReads, NEW f \in Files, NEW p \in Nat, p <= f.eof
  PROVE  /\ f.storage # "seedling" => IndexOf(f, p) \in Blocks
         /\ DataOf(f, p) \in Blocks
         /\ f.storage = "tree" =>
              /\ GetBlock(At(f.key, MasterEntry(p))) = IndexOf(f, p)
              /\ GetBlock(At(IndexOf(f, p), IndexEntry(p % BYTES_PER_INDEX_BLOCK)))
                   = DataOf(f, p)
         /\ f.storage = "sapling" =>
              GetBlock(At(IndexOf(f, p), IndexEntry(p))) = DataOf(f, p)
<1>1. f \in FileType
  BY RequestAssumption DEF RequestAssumption
<1>2. f.key \in Blocks /\ f.storage \in StorageTypes
  BY <1>1 DEF FileType
<1>3. CASE f.storage = "seedling"
  BY <1>2, <1>3 DEF DataOf, BlockOf
<1>4. CASE f.storage = "sapling"
  <2>1. IndexOf(f, p) = f.key /\ DataOf(f, p) = Pointers[f.key][IndexEntry(p)]
    BY <1>4 DEF IndexOf, DataOf, BlockOf, IndexEntry
  <2>2. IndexEntry(p) \in 0 .. POINTERS - 1
    BY <1>4, EntryInRange
  <2>3. QED
    BY <1>2, <1>4, <2>1, <2>2, PointerType
<1>5. CASE f.storage = "tree"
  <2> DEFINE i == MasterEntry(p)
             j == IndexEntry(p % BYTES_PER_INDEX_BLOCK)
  <2>1. i \in 0 .. POINTERS - 1 /\ j \in 0 .. POINTERS - 1
    BY <1>5, EntryInRange
  <2>2. /\ i = (p \div BLOCK_SIZE) \div POINTERS
        /\ j = (p \div BLOCK_SIZE) % POINTERS
    BY IndexBlockSize, NestedDiv DEF MasterEntry, IndexEntry, BYTES_PER_INDEX_BLOCK
  <2>3. IndexOf(f, p) = Pointers[f.key][i]
    BY <1>5 DEF IndexOf, MasterEntry
  <2>4. DataOf(f, p) = Pointers[Pointers[f.key][i]][j]
    BY <1>5, <2>2 DEF DataOf, BlockOf
  <2> HIDE DEF i, j
  <2>5. Pointers[f.key][i] \in Blocks /\ GetBlock(At(f.key, i)) = Pointers[f.key][i]
    BY <1>2, <2>1, PointerType
  <2>6. /\ Pointers[Pointers[f.key][i]][j] \in Blocks
        /\ GetBlock(At(Pointers[f.key][i], j)) = Pointers[Pointers[f.key][i]][j]
    BY <2>1, <2>5, PointerType
  <2>7. QED
    BY <1>5, <2>3, <2>4, <2>5, <2>6 DEF i, j
<1>6. QED
  BY <1>2, <1>3, <1>4, <1>5 DEF StorageTypes

\* What a busy thread's request refers to.
LEMMA RequestFacts ==
  ASSUME SerialInv, NEW t \in Threads, pc[t] # "idle"
  PROVE  /\ call[t].handle \in Handles
         /\ call[t].off \in Nat
         /\ call[t].size \in Nat
         /\ FileOf(t) \in Files
         /\ FileOf(t) \in FileType
         /\ position[call[t].handle] \in Nat
         /\ target[t] \in Nat /\ left[t] \in Nat /\ Len(buf[t]) \in Nat
         /\ Steady(t)
         /\ Placed(call[t].handle)
<1>1. call[t] \in Calls /\ FileOf(t) # NULL
  BY DEF SerialInv, Bounds, RequestBound, FileOf
<1>2. /\ call[t].handle \in Handles
      /\ call[t].off \in Nat
      /\ call[t].size \in Nat
  BY <1>1, RequestAssumption DEF Calls, RequestAssumption
<1>3. FileOf(t) \in Files /\ FileOf(t) \in FileType
  BY <1>1, <1>2, RequestAssumption DEF SerialInv, Bounds, TypeOK, FileOf, RequestAssumption
<1>4. /\ position[call[t].handle] \in Nat /\ target[t] \in Nat /\ left[t] \in Nat
      /\ buf[t] \in Seq(0 .. 255)
  BY <1>2 DEF SerialInv, Bounds, TypeOK
<1>5. Len(buf[t]) \in Nat
  BY <1>4, LenProperties
<1>6. QED
  BY <1>2, <1>3, <1>4, <1>5 DEF SerialInv

\* Nobody else works on t's handle.
LEMMA Alone ==
  ASSUME SerialInv, NEW t \in Threads, pc[t] # "idle", NEW L, pc[t] \notin L, "idle" \notin L
  PROVE  ~Moving(call[t].handle, L)
BY DEF SerialInv, Exclusive, Moving

\* A step of t keeps the other requests steady ...
LEMMA SteadyOther ==
  ASSUME SerialInv, NEW t \in Threads, pc[t] # "idle", NEW s \in Threads, s # t,
         UNCHANGED file,
         \A h \in Handles : h # call[t].handle => position'[h] = position[h],
         pc'[s] = pc[s], call'[s] = call[s], target'[s] = target[s], left'[s] = left[s],
         skip'[s] = skip[s], chunk'[s] = chunk[s], buf'[s] = buf[s]
  PROVE  Steady(s)'
<1>1. CASE pc[s] = "idle"
  BY <1>1 DEF Steady
<1>2. CASE pc[s] # "idle"
  <2>1. call[s].handle \in Handles /\ call[s].handle # call[t].handle /\ Steady(s)
    BY <1>2, RequestFacts DEF SerialInv, Exclusive
  <2>2. position'[call[s].handle] = position[call[s].handle]
    BY <2>1
  <2>3. /\ NextByte(s)' = NextByte(s)
        /\ Past(s)' = Past(s)
        /\ FileOf(s)' = FileOf(s)
    BY DEF NextByte, Past, FileOf
  <2>4. QED
    BY <2>1, <2>2, <2>3 DEF Steady
<1>3. QED
  BY <1>1, <1>2

\* ... and the other handles placed; all of them when t is not in the middle of a Seek.
LEMMA PlacedOther ==
  ASSUME SerialInv, NEW t \in Threads, pc[t] # "idle",
         NEW h \in Handles, h # call[t].handle,
         UNCHANGED <<file, call>>, \A s \in Threads : s # t => pc'[s] = pc[s],
         position'[h] = position[h], master'[h] = master[h], index'[h] = index[h],
         data'[h] = data[h]
  PROVE  Placed(h)'
<1>1. \A L : Moving(h, L)' = Moving(h, L)
  BY DEF Moving
<1>2. Placed(h)
  BY DEF SerialInv
<1>3. QED
  BY <1>1, <1>2 DEF Placed

LEMMA PlacedSame ==
  ASSUME SerialInv, NEW t \in Threads, UNCHANGED handleVars,
         \A s \in Threads : s # t => pc'[s] = pc[s] /\ call'[s] = call[s],
         pc[t] \notin {"index", "data"}, pc'[t] \notin {"index", "data"},
         NEW h \in Handles
  PROVE  Placed(h)'
<1>1. /\ Moving(h, {"index"})' = Moving(h, {"index"})
      /\ Moving(h, {"index", "data"})' = Moving(h, {"index", "data"})
  BY DEF Moving
<1>2. Placed(h)
  BY DEF SerialInv
<1>3. QED
  BY <1>1, <1>2 DEF Placed, handleVars

LEMMA ExclusiveSame ==
  ASSUME SerialInv, NEW t \in Threads, pc[t] # "idle", pc'[t] # "idle", UNCHANGED call,
         \A s \in Threads : s # t => pc'[s] = pc[s] /\ buf'[s] = buf[s]
  PROVE  Exclusive' /\ Fresh'
BY DEF SerialInv, Exclusive, Fresh

LEMMA InitSerial == Init => SerialInv
<1> SUFFICES ASSUME Init PROVE SerialInv
  OBVIOUS
<1>1. \A h \in Handles : Placed(h)
  BY DEF Init, Placed
<1>2. Exclusive /\ Fresh /\ ~terminated /\ \A t \in Threads : Steady(t)
  BY DEF Init, Exclusive, Fresh, Steady
<1>3. QED
  BY <1>1, <1>2, InitBounds DEF SerialInv

\* The constructor's pointers are those of position 0.
LEMMA OpenSerial ==
  ASSUME SerialReads, SerialInv, NEW h \in Handles, NEW f \in Files, Open(h, f)
  PROVE  SerialInv'
<1>1. f \in FileType /\ f # NULL
  BY RequestAssumption DEF RequestAssumption
<1>2. f.storage \in StorageTypes /\ f.key \in Blocks /\ f.eof \in Nat
  BY <1>1 DEF FileType
<1>3. /\ 0 \div BLOCK_SIZE = 0
      /\ 0 \div BYTES_PER_INDEX_BLOCK = 0
      /\ 0 % BYTES_PER_INDEX_BLOCK = 0
  BY IndexBlockSize, DivModUnique
<1>4. 0 \in 0 .. POINTERS - 1
  BY IndexBlockSize
<1>5. /\ OpenMaster(f) = IF f.storage = "tree" THEN f.key ELSE NULL
      /\ OpenIndex(f) = IndexOf(f, 0)
      /\ OpenData(f) = DataOf(f, 0)
      /\ DataOf(f, 0) \in Blocks
      /\ IndexOf(f, 0) \in Blocks \cup {NULL}
  <2>1. MasterEntry(0) = 0 /\ IndexEntry(0) = 0
    BY <1>3 DEF MasterEntry, IndexEntry
  <2>2. OpenMaster(f) = IF f.storage = "tree" THEN f.key ELSE NULL
    BY <1>2 DEF OpenMaster, GetBlock
  <2>3. /\ f.storage # "seedling" => IndexOf(f, 0) \in Blocks
        /\ DataOf(f, 0) \in Blocks
        /\ f.storage = "tree" => /\ GetBlock(At(f.key, 0)) = IndexOf(f, 0)
                                 /\ GetBlock(At(IndexOf(f, 0), 0)) = DataOf(f, 0)
        /\ f.storage = "sapling" => GetBlock(At(IndexOf(f, 0), 0)) = DataOf(f, 0)
    <3>1. 0 \in Nat /\ 0 <= f.eof
      BY <1>2
    <3>2. QED
      BY <1>3, <2>1, <3>1, SeekLookups
  <2>4. CASE f.storage = "seedling"
    BY <1>2, <2>2, <2>3, <2>4 DEF OpenIndex, OpenData, IndexOf, DataOf, BlockOf, GetBlock
  <2>5. CASE f.storage = "sapling"
    <3>1. IndexOf(f, 0) = f.key /\ OpenIndex(f) = f.key
      BY <1>2, <2>5 DEF IndexOf, OpenIndex, GetBlock
    <3>2. QED
      BY <1>2, <2>2, <2>3, <2>5, <3>1 DEF OpenData
  <2>6. CASE f.storage = "tree"
    <3>1. OpenMaster(f) = f.key
      BY <2>2, <2>6
    <3>2. OpenIndex(f) = IndexOf(f, 0)
      BY <2>3, <2>6, <3>1 DEF OpenIndex
    <3>3. QED
      BY <2>2, <2>3, <2>6, <3>2 DEF OpenData
  <2>7. QED
    BY <1>2, <2>4, <2>5, <2>6 DEF StorageTypes
<1>6. Thrown \notin {OpenMaster(f), OpenIndex(f), OpenData(f)}
  <2>1. Thrown \notin Blocks /\ Thrown # NULL
    BY RequestAssumption DEF RequestAssumption, Thrown, Blocks
  <2>2. QED
    BY <1>2, <1>5, <2>1
<1>7. /\ file' = [file EXCEPT ![h] = f]
      /\ position' = [position EXCEPT ![h] = 0]
      /\ master' = [master EXCEPT ![h] = OpenMaster(f)]
      /\ index' = [index EXCEPT ![h] = OpenIndex(f)]
      /\ data' = [data EXCEPT ![h] = OpenData(f)]
      /\ UNCHANGED <<threadVars, terminated>>
      /\ file[h] = NULL
  BY <1>6 DEF Open
<1>8. Bounds'
  BY OpenBounds DEF SerialInv
<1>9. ~terminated' /\ Exclusive' /\ Fresh'
  BY <1>7 DEF SerialInv, Exclusive, Fresh, threadVars
<1>10. ASSUME NEW k \in Handles PROVE Placed(k)'
  <2>1. TypeOK
    BY DEF SerialInv, Bounds
  <2>2. CASE k = h
    <3>1. /\ file'[k] = f /\ position'[k] = 0
          /\ master'[k] = OpenMaster(f) /\ index'[k] = OpenIndex(f) /\ data'[k] = OpenData(f)
      BY <1>7, <2>1, <2>2 DEF TypeOK
    <3>2. QED
      BY <1>2, <1>5, <3>1 DEF Placed
  <2>3. CASE k # h
    <3>1. /\ file'[k] = file[k] /\ position'[k] = position[k]
          /\ master'[k] = master[k] /\ index'[k] = index[k] /\ data'[k] = data[k]
      BY <1>7, <2>1, <2>3 DEF TypeOK
    <3>2. \A L : Moving(k, L)' = Moving(k, L)
      BY <1>7 DEF Moving, threadVars
    <3>3. Placed(k)
      BY DEF SerialInv
    <3>4. QED
      BY <3>1, <3>2, <3>3 DEF Placed
  <2>4. QED
    BY <2>2, <2>3
<1>11. ASSUME NEW t \in Threads PROVE Steady(t)'
  <2>1. CASE pc[t] = "idle"
    BY <1>7, <2>1 DEF Steady, threadVars
  <2>2. CASE pc[t] # "idle"
    <3>1. call[t].handle \in Handles /\ Steady(t) /\ file[call[t].handle] # NULL
      BY <2>2, RequestFacts DEF SerialInv, Bounds, RequestBound
    <3>2. /\ FileOf(t)' = FileOf(t)
          /\ position'[call[t].handle] = position[call[t].handle]
          /\ UNCHANGED <<pc, call, target, left, skip, chunk, buf>>
      BY <1>7, <3>1 DEF SerialInv, Bounds, TypeOK, FileOf, threadVars
    <3>3. NextByte(t)' = NextByte(t) /\ Past(t)' = Past(t)
      BY <3>2 DEF NextByte, Past
    <3>4. QED
      BY <3>1, <3>2, <3>3 DEF Steady
  <2>3. QED
    BY <2>1, <2>2
<1>12. QED
  BY <1>8, <1>9, <1>10, <1>11 DEF SerialInv

LEMMA CloseSerial ==
  ASSUME SerialInv, NEW h \in Handles, Close(h)
  PROVE  SerialInv'
<1>1. /\ file' = [file EXCEPT ![h] = NULL]
      /\ position' = [position EXCEPT ![h] = 0]
      /\ master' = [master EXCEPT ![h] = NULL]
      /\ index' = [index EXCEPT ![h] = NULL]
      /\ data' = [data EXCEPT ![h] = NULL]
      /\ UNCHANGED <<threadVars, terminated>>
      /\ ~Busy(h)
  BY DEF Close
<1>2. Bounds'
  BY CloseBounds DEF SerialInv
<1>3. ~terminated' /\ Exclusive' /\ Fresh'
  BY <1>1 DEF SerialInv, Exclusive, Fresh, threadVars
<1>4. ASSUME NEW k \in Handles PROVE Placed(k)'
  <2>1. TypeOK /\ Placed(k)
    BY DEF SerialInv, Bounds
  <2>2. \A L : Moving(k, L)' = Moving(k, L)
    BY <1>1 DEF Moving, threadVars
  <2>3. CASE k = h
    BY <1>1, <2>1, <2>3 DEF Placed, TypeOK
  <2>4. CASE k # h
    BY <1>1, <2>1, <2>2, <2>4 DEF Placed, TypeOK
  <2>5. QED
    BY <2>3, <2>4
<1>5. ASSUME NEW t \in Threads PROVE Steady(t)'
  <2>1. CASE pc[t] = "idle"
    BY <1>1, <2>1 DEF Steady, threadVars
  <2>2. CASE pc[t] # "idle"
    <3>1. call[t].handle \in Handles /\ Steady(t) /\ call[t].handle # h
      BY <1>1, <2>2, RequestFacts DEF Busy
    <3>2. /\ FileOf(t)' = FileOf(t)
          /\ position'[call[t].handle] = position[call[t].handle]
          /\ UNCHANGED <<pc, call, target, left, skip, chunk, buf>>
      BY <1>1, <3>1 DEF SerialInv, Bounds, TypeOK, FileOf, threadVars
    <3>3. NextByte(t)' = NextByte(t) /\ Past(t)' = Past(t)
      BY <3>2 DEF NextByte, Past
    <3>4. QED
      BY <3>1, <3>2, <3>3 DEF Steady
  <2>3. QED
    BY <2>1, <2>2
<1>6. QED
  BY <1>2, <1>3, <1>4, <1>5 DEF SerialInv

\* Here ~AsyncRead makes the request the only one on its handle.
LEMMA DispatchSerial ==
  ASSUME SerialReads, SerialInv, NEW t \in Threads, NEW h \in Handles,
         NEW off \in Offsets, NEW size \in Sizes, Dispatch(t, h, off, size)
  PROVE  SerialInv'
<1>1. /\ call' = [call EXCEPT ![t] = [handle |-> h, off |-> off, size |-> size]]
      /\ target' = [target EXCEPT ![t] = off]
      /\ left' = [left EXCEPT ![t] = size]
      /\ pc' = [pc EXCEPT ![t] = "seek"]
      /\ UNCHANGED <<handleVars, skip, chunk, buf, terminated>>
      /\ pc[t] = "idle"
      /\ ~Busy(h)
  BY DEF Dispatch, SerialReads
<1>2. TypeOK /\ buf[t] = <<>>
  BY <1>1 DEF SerialInv, Bounds, Fresh
<1>3. Bounds'
  BY DispatchBounds DEF SerialInv
<1>4. /\ pc'[t] = "seek" /\ call'[t] = [handle |-> h, off |-> off, size |-> size]
      /\ target'[t] = off /\ left'[t] = size /\ buf'[t] = <<>>
      /\ \A s \in Threads : s # t => /\ pc'[s] = pc[s] /\ call'[s] = call[s]
                                    /\ target'[s] = target[s] /\ left'[s] = left[s]
  BY <1>1, <1>2 DEF TypeOK
<1>5. ~terminated' /\ Exclusive' /\ Fresh'
  BY <1>1, <1>4 DEF SerialInv, Exclusive, Fresh, Busy
<1>6. ASSUME NEW k \in Handles PROVE Placed(k)'
  BY <1>1, <1>4, PlacedSame
<1>7. ASSUME NEW s \in Threads PROVE Steady(s)'
  <2>1. CASE s = t
    <3>1. Len(buf'[s]) = 0 /\ off \in Nat /\ size \in Nat
      BY <1>4, <2>1, RequestAssumption DEF RequestAssumption
    <3>2. NextByte(s)' = off
      BY <1>4, <2>1, <3>1 DEF NextByte
    <3>3. QED
      BY <1>4, <2>1, <3>1, <3>2 DEF Steady
  <2>2. CASE s # t
    <3>1. Steady(s)
      BY DEF SerialInv
    <3>2. /\ pc'[s] = pc[s] /\ call'[s] = call[s] /\ target'[s] = target[s]
          /\ left'[s] = left[s]
          /\ UNCHANGED <<file, position, skip, chunk, buf>>
      BY <1>1, <1>4, <2>2 DEF handleVars
    <3>3. FileOf(s)' = FileOf(s) /\ NextByte(s)' = NextByte(s) /\ Past(s)' = Past(s)
      BY <3>2 DEF FileOf, NextByte, Past
    <3>4. QED
      BY <3>1, <3>2, <3>3 DEF Steady
  <2>3. QED
    BY <2>1, <2>2
<1>8. QED
  BY <1>3, <1>5, <1>6, <1>7 DEF SerialInv

\* A seek that is refused lies past the end, so that the place where the handle is left
\* does not matter any more.
LEMMA SeekPositionSerial ==
  ASSUME SerialInv, NEW t \in Threads, SeekPosition(t)
  PROVE  SerialInv'
<1> DEFINE h == call[t].handle
           f == FileOf(t)
<1>1. /\ pc[t] = "seek"
      /\ UNCHANGED <<file, master, index, data, call, target, left, skip, chunk, buf>>
      /\ UNCHANGED terminated
  BY DEF SeekPosition
<1>2. /\ h \in Handles /\ f \in FileType /\ TypeOK
      /\ position[h] \in Nat /\ target[t] \in Nat /\ left[t] \in Nat
      /\ Steady(t) /\ Placed(h)
  BY <1>1, RequestFacts DEF SerialInv, Bounds
<1>3. Bounds'
  BY SeekPositionBounds DEF SerialInv
<1>4. CASE PositionOutOfRange(f, target[t])
  <2>1. pc' = [pc EXCEPT ![t] = OnSeekError(t)] /\ UNCHANGED position
    BY <1>4 DEF SeekPosition, FileOf
  <2>2. /\ pc'[t] \in {"fail", "offset", "convert"}
        /\ pc'[t] = "fail" => buf[t] = <<>>
        /\ pc'[t] = "convert" => left[t] = 0
        /\ \A s \in Threads : s # t => pc'[s] = pc[s]
    BY <1>2, <2>1 DEF TypeOK, OnSeekError, AfterSeek
  <2>3. Past(t)
    BY <1>1, <1>2, <1>4 DEF Steady, Past, PositionOutOfRange, FileType
  <2>4. buf[t] = <<>> => call[t].off > f.eof
    <3>1. buf[t] = <<>> => Len(buf[t]) = 0
      OBVIOUS
    <3>2. call[t].off \in Nat
      BY <1>1, RequestFacts
    <3>3. QED
      BY <2>3, <3>1, <3>2 DEF Past, NextByte
  <2>5. Exclusive' /\ Fresh' /\ ~terminated'
    BY <1>1, <2>2, ExclusiveSame DEF SerialInv
  <2>6. ASSUME NEW k \in Handles PROVE Placed(k)'
    BY <1>1, <2>1, <2>2, PlacedSame DEF handleVars
  <2>7. Steady(t)'
    <3>1. /\ FileOf(t)' = f /\ NextByte(t)' = NextByte(t) /\ Past(t)'
      BY <1>1, <2>3 DEF FileOf, NextByte, Past
    <3>2. QED
      BY <1>1, <1>2, <2>1, <2>2, <2>4, <3>1 DEF Steady
  <2>8. ASSUME NEW s \in Threads, s # t PROVE Steady(s)'
    BY <1>1, <2>1, <2>2, <2>8, SteadyOther
  <2>9. QED
    BY <1>3, <2>5, <2>6, <2>7, <2>8 DEF SerialInv
<1>5. CASE ~PositionOutOfRange(f, target[t])
  <2>1. position' = [position EXCEPT ![h] = target[t]] /\ pc' = [pc EXCEPT ![t] = "index"]
    BY <1>5 DEF SeekPosition, FileOf
  <2>2. /\ pc'[t] = "index" /\ position'[h] = target[t]
        /\ \A s \in Threads : s # t => pc'[s] = pc[s]
        /\ \A k \in Handles : k # h => position'[k] = position[k]
    BY <1>2, <2>1 DEF TypeOK
  <2>3. target[t] <= f.eof
    BY <1>2, <1>5 DEF PositionOutOfRange, FileType
  <2>4. Exclusive' /\ Fresh' /\ ~terminated'
    BY <1>1, <2>2, ExclusiveSame DEF SerialInv
  <2>5. ASSUME NEW k \in Handles, k # h PROVE Placed(k)'
    BY <1>1, <2>2, <2>5, PlacedOther
  <2>6. ASSUME NEW k \in Handles, k = h PROVE Placed(k)'
    <3>1. file[h] = f /\ f # NULL
      BY <1>1 DEF SerialInv, Bounds, RequestBound, FileOf
    <3>2. Moving(k, {"index"})' /\ Moving(k, {"index", "data"})'
      BY <1>1, <2>2, <2>6 DEF Moving
    <3>3. /\ position[h] <= f.eof
          /\ master[h] = IF f.storage = "tree" THEN f.key ELSE NULL
          /\ f.storage # "tree" => index[h] = IndexOf(f, position[h])
          /\ f.storage = "seedling" => data[h] = DataOf(f, position[h])
      BY <1>2, <3>1 DEF Placed
    <3>4. /\ f.storage # "tree" => IndexOf(f, position[h]) = IndexOf(f, target[t])
          /\ f.storage = "seedling" => DataOf(f, position[h]) = DataOf(f, target[t])
      BY <1>2 DEF IndexOf, DataOf, BlockOf, FileType, StorageTypes
    <3>5. /\ file'[k] = f /\ position'[k] = target[t] /\ master'[k] = master[h]
          /\ index'[k] = index[h] /\ data'[k] = data[h]
      BY <1>1, <2>2, <2>6, <3>1
    <3>6. QED
      BY <2>3, <3>2, <3>3, <3>4, <3>5 DEF Placed
  <2>7. Steady(t)'
    <3>1. FileOf(t)' = f /\ NextByte(t)' = NextByte(t) /\ Past(t)' = Past(t)
      BY <1>1 DEF FileOf, NextByte, Past
    <3>2. QED
      BY <1>1, <1>2, <2>2, <3>1 DEF Steady
  <2>8. ASSUME NEW s \in Threads, s # t PROVE Steady(s)'
    BY <1>1, <2>2, <2>8, SteadyOther
  <2>9. QED
    BY <1>3, <2>4, <2>5, <2>6, <2>7, <2>8 DEF SerialInv
<1>6. QED
  BY <1>4, <1>5

LEMMA SeekIndexSerial ==
  ASSUME SerialReads, SerialInv, NEW t \in Threads, SeekIndex(t)
  PROVE  SerialInv'
<1> DEFINE h == call[t].handle
           f == FileOf(t)
           p == position[h]
           b == GetBlock(At(master[h], MasterEntry(target[t])))
<1>1. /\ pc[t] = "index"
      /\ UNCHANGED <<file, position, master, data, call, left, skip, chunk, buf>>
  BY DEF SeekIndex, handleVars
<1>2. /\ h \in Handles /\ f \in Files /\ f \in FileType /\ TypeOK
      /\ p \in Nat /\ target[t] \in Nat
      /\ Steady(t) /\ Placed(h) /\ file[h] = f /\ f # NULL
  BY <1>1, RequestFacts DEF SerialInv, Bounds, RequestBound, FileOf
<1>3. /\ target[t] = p
      /\ p <= f.eof
      /\ master[h] = IF f.storage = "tree" THEN f.key ELSE NULL
  BY <1>1, <1>2 DEF Steady, Placed
<1>4. Bounds'
  BY SeekIndexBounds DEF SerialInv
<1>5. f.key # NULL /\ Thrown \notin Blocks
  BY <1>2, RequestAssumption DEF FileType, RequestAssumption, Blocks, Thrown
<1>6. /\ pc' = [pc EXCEPT ![t] = "data"]
      /\ index' = IF f.storage = "tree" THEN [index EXCEPT ![h] = IndexOf(f, p)] ELSE index
      /\ target' = IF f.storage = "tree"
                   THEN [target EXCEPT ![t] = p % BYTES_PER_INDEX_BLOCK]
                   ELSE target
      /\ UNCHANGED terminated
  <2>1. CASE f.storage = "tree"
    <3>1. b = IndexOf(f, p) /\ b # Thrown /\ master[h] # NULL
      BY <1>2, <1>3, <1>5, <2>1, SeekLookups
    <3> HIDE DEF b
    <3>2. /\ index' = [index EXCEPT ![h] = b]
          /\ target' = [target EXCEPT ![t] = WithinIndexBlock(@)]
          /\ pc' = [pc EXCEPT ![t] = "data"]
          /\ UNCHANGED terminated
      BY <3>1 DEF SeekIndex, b
    <3>3. WithinIndexBlock(p) = p % BYTES_PER_INDEX_BLOCK
      BY <1>2, WithinMod
    <3>4. QED
      BY <1>3, <2>1, <3>1, <3>2, <3>3
  <2>2. CASE f.storage # "tree"
    BY <1>3, <2>2 DEF SeekIndex, handleVars
  <2>3. QED
    BY <2>1, <2>2
<1>7. /\ pc'[t] = "data"
      /\ \A s \in Threads : s # t => pc'[s] = pc[s] /\ target'[s] = target[s]
      /\ \A k \in Handles : k # h => index'[k] = index[k]
      /\ index'[h] = IF f.storage = "tree" THEN IndexOf(f, p) ELSE index[h]
      /\ target'[t] = IF f.storage = "tree" THEN p % BYTES_PER_INDEX_BLOCK ELSE p
  BY <1>2, <1>3, <1>6 DEF TypeOK
<1>8. Exclusive' /\ Fresh' /\ ~terminated'
  BY <1>1, <1>6, <1>7, ExclusiveSame DEF SerialInv
<1>9. ASSUME NEW k \in Handles, k # h PROVE Placed(k)'
  BY <1>1, <1>7, <1>9, PlacedOther
<1>10. ASSUME NEW k \in Handles, k = h PROVE Placed(k)'
  <2>1. Moving(k, {"index", "data"})'
    BY <1>1, <1>7, <1>10 DEF Moving
  <2>2. /\ f.storage # "tree" => index[h] = IndexOf(f, p)
        /\ f.storage = "seedling" => data[h] = DataOf(f, p)
    BY <1>2 DEF Placed
  <2>3. /\ file'[k] = f /\ position'[k] = p /\ master'[k] = master[h]
        /\ data'[k] = data[h] /\ index'[k] = IndexOf(f, p)
    BY <1>1, <1>2, <1>7, <1>10, <2>2
  <2>4. QED
    BY <1>3, <2>1, <2>2, <2>3 DEF Placed
<1>11. Steady(t)'
  <2>1. FileOf(t)' = f /\ NextByte(t)' = NextByte(t) /\ Past(t)' = Past(t)
    BY <1>1 DEF FileOf, NextByte, Past
  <2>2. QED
    BY <1>1, <1>2, <1>7, <2>1 DEF Steady
<1>12. ASSUME NEW s \in Threads, s # t PROVE Steady(s)'
  BY <1>1, <1>7, <1>12, SteadyOther
<1>13. QED
  BY <1>4, <1>8, <1>9, <1>10, <1>11, <1>12 DEF SerialInv

LEMMA SeekDataSerial ==
  ASSUME SerialReads, SerialInv, NEW t \in Threads, SeekData(t)
  PROVE  SerialInv'
<1> DEFINE h == call[t].handle
           f == FileOf(t)
           p == position[h]
           b == GetBlock(At(index[h], IndexEntry(target[t])))
<1>1. /\ pc[t] = "data"
      /\ UNCHANGED <<file, position, master, index, call, target, left, skip, chunk, buf>>
  BY DEF SeekData
<1>2. /\ h \in Handles /\ f \in Files /\ f \in FileType /\ TypeOK
      /\ p \in Nat /\ target[t] \in Nat /\ left[t] \in Nat
      /\ Steady(t) /\ Placed(h) /\ file[h] = f /\ f # NULL
  BY <1>1, RequestFacts DEF SerialInv, Bounds, RequestBound, FileOf
<1>3. /\ target[t] = IF f.storage = "tree" THEN p % BYTES_PER_INDEX_BLOCK ELSE p
      /\ p <= f.eof
      /\ index[h] = IndexOf(f, p)
      /\ f.storage = "seedling" => data[h] = DataOf(f, p)
  <2>1. ~Moving(h, {"index"})
    BY <1>1, Alone
  <2>2. QED
    BY <1>1, <1>2, <2>1 DEF Steady, Placed
<1>4. Bounds'
  BY SeekDataBounds DEF SerialInv
<1>5. NULL \notin Blocks /\ Thrown \notin Blocks
  BY RequestAssumption DEF RequestAssumption, Blocks, Thrown
<1>6. /\ pc' = [pc EXCEPT ![t] = AfterSeek(t)]
      /\ data' = IF f.storage = "seedling" THEN data ELSE [data EXCEPT ![h] = DataOf(f, p)]
      /\ UNCHANGED terminated
  <2>1. CASE f.storage = "seedling"
    <3>1. index[h] = NULL
      BY <1>3, <2>1 DEF IndexOf
    <3>2. QED
      BY <2>1, <3>1 DEF SeekData
  <2>2. CASE f.storage # "seedling"
    <3>1. f.storage = "sapling" \/ f.storage = "tree"
      BY <1>2, <2>2 DEF FileType, StorageTypes
    <3>2. b = DataOf(f, p) /\ DataOf(f, p) \in Blocks /\ IndexOf(f, p) \in Blocks
      BY <1>2, <1>3, <2>2, <3>1, SeekLookups
    <3> HIDE DEF b
    <3>3. index[h] # NULL /\ b # Thrown
      BY <1>3, <1>5, <3>2
    <3>4. data' = [data EXCEPT ![h] = b] /\ pc' = [pc EXCEPT ![t] = AfterSeek(t)]
          /\ UNCHANGED terminated
      BY <3>3 DEF SeekData, b
    <3>5. QED
      BY <2>2, <3>2, <3>4
  <2>3. QED
    BY <2>1, <2>2
<1>7. /\ pc'[t] \in {"offset", "convert"}
      /\ pc'[t] = "convert" => left[t] = 0
      /\ \A s \in Threads : s # t => pc'[s] = pc[s]
      /\ \A k \in Handles : k # h => data'[k] = data[k]
      /\ data'[h] = DataOf(f, p)
  BY <1>2, <1>3, <1>6 DEF TypeOK, AfterSeek
<1>8. Exclusive' /\ Fresh' /\ ~terminated'
  BY <1>1, <1>6, <1>7, ExclusiveSame DEF SerialInv
<1>9. ASSUME NEW k \in Handles, k # h PROVE Placed(k)'
  BY <1>1, <1>7, <1>9, PlacedOther
<1>10. ASSUME NEW k \in Handles, k = h PROVE Placed(k)'
  <2>1. master[h] = IF f.storage = "tree" THEN f.key ELSE NULL
    BY <1>2 DEF Placed
  <2>2. /\ file'[k] = f /\ position'[k] = p /\ master'[k] = master[h]
        /\ data'[k] = DataOf(f, p) /\ index'[k] = IndexOf(f, p)
    BY <1>1, <1>2, <1>3, <1>7, <1>10
  <2>3. QED
    BY <1>3, <2>1, <2>2 DEF Placed
<1>11. Steady(t)'
  <2>1. FileOf(t)' = f /\ NextByte(t)' = NextByte(t) /\ Past(t)' = Past(t)
    BY <1>1 DEF FileOf, NextByte, Past
  <2>2. QED
    BY <1>1, <1>2, <1>7, <2>1 DEF Steady
<1>12. ASSUME NEW s \in Threads, s # t PROVE Steady(s)'
  BY <1>1, <1>7, <1>12, SteadyOther
<1>13. QED
  BY <1>4, <1>8, <1>9, <1>10, <1>11, <1>12 DEF SerialInv

LEMMA ReadOffsetSerial ==
  ASSUME SerialInv, NEW t \in Threads, ReadOffset(t)
  PROVE  SerialInv'
<1> DEFINE h == call[t].handle
<1>1. /\ skip' = [skip EXCEPT ![t] = position[h] % BLOCK_SIZE]
      /\ chunk' = [chunk EXCEPT ![t] = ToCopy(left[t], position[h] % BLOCK_SIZE)]
      /\ pc' = [pc EXCEPT ![t] = "copy"]
      /\ pc[t] = "offset"
      /\ UNCHANGED <<handleVars, call, target, left, buf, terminated>>
  BY DEF ReadOffset
<1>2. TypeOK /\ Steady(t)
  BY DEF SerialInv, Bounds
<1>3. /\ pc'[t] = "copy" /\ skip'[t] = position[h] % BLOCK_SIZE
      /\ \A s \in Threads : s # t => /\ pc'[s] = pc[s] /\ skip'[s] = skip[s]
                                    /\ chunk'[s] = chunk[s]
  BY <1>1, <1>2 DEF TypeOK
<1>4. Bounds'
  BY ReadOffsetBounds DEF SerialInv
<1>5. Exclusive' /\ Fresh' /\ ~terminated'
  BY <1>1, <1>3, ExclusiveSame DEF SerialInv
<1>6. ASSUME NEW k \in Handles PROVE Placed(k)'
  BY <1>1, <1>3, PlacedSame
<1>7. Steady(t)'
  <2>1. /\ FileOf(t)' = FileOf(t) /\ NextByte(t)' = NextByte(t) /\ Past(t)' = Past(t)
        /\ UNCHANGED position
    BY <1>1 DEF FileOf, NextByte, Past, handleVars
  <2>2. QED
    BY <1>1, <1>2, <1>3, <2>1 DEF Steady
<1>8. ASSUME NEW s \in Threads, s # t PROVE Steady(s)'
  BY <1>1, <1>3, <1>8, SteadyOther DEF handleVars
<1>9. QED
  BY <1>4, <1>5, <1>6, <1>7, <1>8 DEF SerialInv

\* What a concatenation of two byte sequences holds.
LEMMA ConcatBytes ==
  ASSUME NEW a \in Seq(0 .. 255), NEW b \in Seq(0 .. 255)
  PROVE  /\ Len(a \o b) = Len(a) + Len(b)
         /\ \A k \in 1 .. Len(a) + Len(b) :
              (a \o b)[k] = IF k <= Len(a) THEN a[k] ELSE b[k - Len(a)]
  BY ConcatProperties, SMT

\* The bytes of one block that memcpy appends are those that follow in the file.
LEMMA ReadCopySerial ==
  ASSUME SerialReads, SerialInv, NEW t \in Threads, ReadCopy(t)
  PROVE  SerialInv'
<1> DEFINE h == call[t].handle
           f == FileOf(t)
           p == position[h]
           n == Len(buf[t])
<1>1. /\ buf' = [buf EXCEPT ![t] = @ \o CopiedBytes(t)]
      /\ left' = [left EXCEPT ![t] = @ - chunk[t]]
      /\ pc' = [pc EXCEPT ![t] = "advance"]
      /\ pc[t] = "copy"
      /\ UNCHANGED <<handleVars, call, target, skip, chunk, terminated>>
  BY DEF ReadCopy, CopiedBytes
<1>2. /\ h \in Handles /\ f \in FileType /\ TypeOK
      /\ p \in Nat /\ left[t] \in Nat /\ n \in Nat
      /\ call[t].off \in Nat /\ call[t].size \in Nat
      /\ Steady(t) /\ Placed(h) /\ file[h] = f /\ f # NULL
  BY <1>1, RequestFacts DEF SerialInv, Bounds, RequestBound, FileOf
<1>3. chunk[t] \in 1 .. left[t] /\ skip[t] + chunk[t] <= BLOCK_SIZE /\ chunk[t] \in Nat
  BY <1>1, <1>2 DEF SerialInv, Bounds, RequestBound
<1>4. /\ CopiedBytes(t) \in Seq(0 .. 255) /\ Len(CopiedBytes(t)) = chunk[t]
      /\ buf[t] \in Seq(0 .. 255)
  BY <1>1, <1>2, CopiedBytesType DEF SerialInv, TypeOK
<1>5. /\ Len(buf[t] \o CopiedBytes(t)) = n + chunk[t]
      /\ \A k \in 1 .. n + chunk[t] :
           (buf[t] \o CopiedBytes(t))[k]
             = IF k <= n THEN buf[t][k] ELSE CopiedBytes(t)[k - n]
  BY <1>4, ConcatBytes
<1>6. /\ pc'[t] = "advance" /\ left'[t] = left[t] - chunk[t]
      /\ buf'[t] = buf[t] \o CopiedBytes(t)
      /\ \A s \in Threads : s # t => /\ pc'[s] = pc[s] /\ left'[s] = left[s]
                                    /\ buf'[s] = buf[s]
  BY <1>1, <1>2 DEF TypeOK
<1>7. Bounds'
  BY ReadCopyBounds DEF SerialInv
<1>8. Exclusive' /\ Fresh' /\ ~terminated'
  BY <1>1, <1>6, ExclusiveSame DEF SerialInv
<1>9. ASSUME NEW k \in Handles PROVE Placed(k)'
  BY <1>1, <1>6, PlacedSame
<1>10. p = NextByte(t) \/ Past(t)
  BY <1>1, <1>2 DEF Steady
<1>11. ASSUME NEW j \in 1 .. chunk[t], call[t].off + (n + j) - 1 < f.eof
       PROVE  CopiedBytes(t)[j] = RawByteAt(f, call[t].off + (n + j) - 1)
  <2>1. p = call[t].off + n
    BY <1>2, <1>10, <1>11 DEF Past, NextByte, FileType
  <2>2. skip[t] = p % BLOCK_SIZE
    BY <1>1, <1>2 DEF Steady
  <2>3. data[h] = DataOf(f, p)
    <3>1. ~Moving(h, {"index", "data"})
      BY <1>1, Alone
    <3>2. QED
      BY <1>2, <3>1 DEF Placed
  <2> DEFINE i == j - 1
  <2>4. i \in Nat /\ (p % BLOCK_SIZE) + i < BLOCK_SIZE
    BY <1>2, <1>3, <2>2, IndexBlockSize DEF TypeOK
  <2>5. /\ (p + i) \div BLOCK_SIZE = p \div BLOCK_SIZE
        /\ (p + i) % BLOCK_SIZE = (p % BLOCK_SIZE) + i
    BY <1>2, <2>4, IndexBlockSize, SameBlock
  <2>6. RawByteAt(f, p + i) = Bytes[data[h]][skip[t] + i]
    BY <2>2, <2>3, <2>5 DEF RawByteAt, DataOf
  <2>7. p + i = call[t].off + (n + j) - 1 /\ skip[t] + i = skip[t] + j - 1
    BY <1>2, <1>3, <2>1 DEF TypeOK
  <2>8. CopiedBytes(t)[j] = Bytes[data[h]][skip[t] + j - 1]
    BY DEF CopiedBytes
  <2>9. QED
    BY <2>6, <2>7, <2>8
<1>12. Steady(t)'
  <2>1. /\ FileOf(t)' = f /\ UNCHANGED <<position, call, chunk>>
        /\ NextByte(t)' = NextByte(t) + chunk[t]
        /\ Past(t) => Past(t)'
        /\ Len(buf'[t]) = n + chunk[t]
    <3>1. FileOf(t)' = f /\ UNCHANGED <<position, call, chunk>>
      BY <1>1 DEF FileOf, handleVars
    <3>2. Len(buf'[t]) = n + chunk[t]
      BY <1>5, <1>6
    <3>3. NextByte(t)' = NextByte(t) + chunk[t]
      BY <1>2, <1>3, <3>1, <3>2 DEF NextByte
    <3>4. NextByte(t) \in Nat /\ f.eof \in Nat
      BY <1>2 DEF NextByte, FileType
    <3>5. Past(t) => Past(t)'
      BY <1>3, <3>1, <3>3, <3>4 DEF Past
    <3>6. QED
      BY <3>1, <3>2, <3>3, <3>5
  <2>2. n + left[t] = call[t].size
    BY <1>1, <1>2 DEF Steady
  <2>3. (n + chunk[t]) + (left[t] - chunk[t]) = call[t].size
    BY <1>2, <1>3, <2>2
  <2>4. position'[h] + chunk[t] = NextByte(t)' \/ Past(t)'
    BY <1>10, <2>1
  <2>5. ASSUME NEW k \in 1 .. n + chunk[t], call[t].off + k - 1 < f.eof
        PROVE  buf'[t][k] = RawByteAt(f, call[t].off + k - 1)
    <3>1. CASE k <= n
      <4>1. buf'[t][k] = buf[t][k] /\ k \in 1 .. n
        BY <1>2, <1>3, <1>5, <1>6, <3>1
      <4>2. QED
        BY <1>1, <1>2, <2>5, <4>1 DEF Steady
    <3>2. CASE k > n
      <4>1. k - n \in 1 .. chunk[t] /\ n + (k - n) = k
        BY <1>2, <1>3, <3>2
      <4>2. buf'[t][k] = CopiedBytes(t)[k - n]
        BY <1>2, <1>5, <1>6, <3>2
      <4>3. QED
        BY <1>11, <2>5, <4>1, <4>2
    <3>3. QED
      BY <1>2, <1>3, <3>1, <3>2
  <2>6. QED
    BY <1>6, <2>1, <2>3, <2>4, <2>5 DEF Steady
<1>13. ASSUME NEW s \in Threads, s # t PROVE Steady(s)'
  BY <1>1, <1>6, <1>13, SteadyOther DEF handleVars
<1>14. QED
  BY <1>7, <1>8, <1>9, <1>12, <1>13 DEF SerialInv

LEMMA AdvanceSerial ==
  ASSUME SerialInv, NEW t \in Threads, Advance(t)
  PROVE  SerialInv'
<1>1. /\ target' = [target EXCEPT ![t] = position[call[t].handle] + chunk[t]]
      /\ pc' = [pc EXCEPT ![t] = "seek"]
      /\ pc[t] = "advance"
      /\ UNCHANGED <<handleVars, call, left, skip, chunk, buf, terminated>>
  BY DEF Advance
<1>2. TypeOK /\ Steady(t)
  BY DEF SerialInv, Bounds
<1>3. /\ pc'[t] = "seek" /\ target'[t] = position[call[t].handle] + chunk[t]
      /\ \A s \in Threads : s # t => pc'[s] = pc[s] /\ target'[s] = target[s]
  BY <1>1, <1>2 DEF TypeOK
<1>4. Bounds'
  BY AdvanceBounds DEF SerialInv
<1>5. Exclusive' /\ Fresh' /\ ~terminated'
  BY <1>1, <1>3, ExclusiveSame DEF SerialInv
<1>6. ASSUME NEW k \in Handles PROVE Placed(k)'
  BY <1>1, <1>3, PlacedSame
<1>7. Steady(t)'
  <2>1. FileOf(t)' = FileOf(t) /\ NextByte(t)' = NextByte(t) /\ Past(t)' = Past(t)
    BY <1>1 DEF FileOf, NextByte, Past, handleVars
  <2>2. QED
    BY <1>1, <1>2, <1>3, <2>1 DEF Steady
<1>8. ASSUME NEW s \in Threads, s # t PROVE Steady(s)'
  BY <1>1, <1>3, <1>8, SteadyOther DEF handleVars
<1>9. QED
  BY <1>4, <1>5, <1>6, <1>7, <1>8 DEF SerialInv

LEMMA ConvertSerial ==
  ASSUME SerialInv, NEW t \in Threads, Convert(t)
  PROVE  SerialInv'
<1> DEFINE f == FileOf(t)
           text == [k \in 1 .. Len(buf[t]) |-> Translated(f, buf[t][k])]
<1>1. /\ buf' = [buf EXCEPT ![t] = text]
      /\ pc' = [pc EXCEPT ![t] = "reply"]
      /\ pc[t] = "convert"
      /\ UNCHANGED <<handleVars, call, target, left, skip, chunk, terminated>>
  BY DEF Convert, FileOf
<1>2. TypeOK /\ Steady(t) /\ Len(buf[t]) \in Nat
  BY <1>1, RequestFacts DEF SerialInv, Bounds
<1>3. /\ pc'[t] = "reply" /\ buf'[t] = text
      /\ \A s \in Threads : s # t => pc'[s] = pc[s] /\ buf'[s] = buf[s]
  BY <1>1, <1>2 DEF TypeOK
<1>4. Bounds'
  BY ConvertBounds DEF SerialInv
<1>5. Exclusive' /\ Fresh' /\ ~terminated'
  BY <1>1, <1>3, ExclusiveSame DEF SerialInv
<1>6. ASSUME NEW k \in Handles PROVE Placed(k)'
  BY <1>1, <1>3, PlacedSame
<1>7. Steady(t)'
  <2>1. Len(text) = Len(buf[t])
    <3>1. \A k \in 1 .. Len(buf[t]) : Translated(f, buf[t][k]) \in 0 .. 255
      <4>1. buf[t] \in Seq(0 .. 255)
        BY <1>2 DEF TypeOK
      <4>2. ASSUME NEW k \in 1 .. Len(buf[t]) PROVE buf[t][k] \in 0 .. 255
        BY <4>1, ElementOfSeq
      <4>3. QED
        BY <4>2, TranslatedType
    <3>2. text \in [1 .. Len(buf[t]) -> 0 .. 255]
      BY <3>1
    <3> HIDE DEF text
    <3>3. QED
      BY <1>2, <3>2, FunctionIsSeq
  <2>2. /\ FileOf(t)' = f /\ NextByte(t)' = NextByte(t) /\ Past(t)' = Past(t)
        /\ UNCHANGED call
    <3> HIDE DEF text
    <3>1. FileOf(t)' = f /\ UNCHANGED call
      BY <1>1 DEF FileOf, handleVars
    <3>2. QED
      BY <1>3, <2>1, <3>1 DEF NextByte, Past
  <2>3. ASSUME NEW k \in 1 .. Len(buf[t]), call[t].off + k - 1 < f.eof
        PROVE  text[k] = ByteAt(f, call[t].off + k - 1)
    <3>1. buf[t][k] = RawByteAt(f, call[t].off + k - 1)
      BY <1>1, <1>2, <2>3 DEF Steady
    <3>2. ByteAt(f, call[t].off + k - 1) = Translated(f, RawByteAt(f, call[t].off + k - 1))
      BY DEF ByteAt, RawByteAt, DataOf
    <3>3. QED
      BY <3>1, <3>2
  <2> HIDE DEF text
  <2>4. QED
    BY <1>1, <1>2, <1>3, <2>1, <2>2, <2>3 DEF Steady
<1>8. ASSUME NEW s \in Threads, s # t PROVE Steady(s)'
  BY <1>1, <1>3, <1>8, SteadyOther DEF handleVars
<1>9. QED
  BY <1>4, <1>5, <1>6, <1>7, <1>8 DEF SerialInv

LEMMA ReplySerial ==
  ASSUME SerialInv, NEW t \in Threads, Reply(t)
  PROVE  SerialInv'
<1>1. /\ pc[t] \in {"reply", "fail"}
      /\ pc' = [pc EXCEPT ![t] = "idle"]
      /\ call' = [call EXCEPT ![t] = NULL]
      /\ target' = [target EXCEPT ![t] = 0]
      /\ left' = [left EXCEPT ![t] = 0]
      /\ skip' = [skip EXCEPT ![t] = 0]
      /\ chunk' = [chunk EXCEPT ![t] = 0]
      /\ buf' = [buf EXCEPT ![t] = <<>>]
      /\ UNCHANGED <<handleVars, terminated>>
  BY DEF Reply
<1>2. TypeOK
  BY DEF SerialInv, Bounds
<1>3. /\ pc'[t] = "idle" /\ buf'[t] = <<>>
      /\ \A s \in Threads : s # t =>
           /\ pc'[s] = pc[s] /\ call'[s] = call[s] /\ target'[s] = target[s]
           /\ left'[s] = left[s] /\ skip'[s] = skip[s] /\ chunk'[s] = chunk[s]
           /\ buf'[s] = buf[s]
  BY <1>1, <1>2 DEF TypeOK
<1>4. Bounds'
  BY ReplyBounds DEF SerialInv
<1>5. Exclusive' /\ Fresh' /\ ~terminated'
  BY <1>1, <1>3 DEF SerialInv, Exclusive, Fresh
<1>6. ASSUME NEW k \in Handles PROVE Placed(k)'
  BY <1>1, <1>3, PlacedSame
<1>7. Steady(t)'
  BY <1>3 DEF Steady
<1>8. ASSUME NEW s \in Threads, s # t PROVE Steady(s)'
  BY <1>1, <1>3, <1>8, SteadyOther DEF handleVars
<1>9. QED
  BY <1>4, <1>5, <1>6, <1>7, <1>8 DEF SerialInv

LEMMA NextSerial == SerialReads /\ SerialInv /\ [Next]_vars => SerialInv'
<1> SUFFICES ASSUME SerialReads, SerialInv, [Next]_vars PROVE SerialInv'
  OBVIOUS
<1>1. CASE Next
  <2>1. ASSUME NEW t \in Threads, Work(t) PROVE SerialInv'
    BY <2>1, SeekPositionSerial, SeekIndexSerial, SeekDataSerial, ReadOffsetSerial,
       ReadCopySerial, AdvanceSerial, ConvertSerial, ReplySerial DEF Work
  <2>2. QED
    BY <1>1, <2>1, OpenSerial, CloseSerial, DispatchSerial DEF Next
<1>2. CASE UNCHANGED vars
  <2>1. UNCHANGED <<file, position, master, index, data, terminated>>
    BY <1>2 DEF vars, handleVars
  <2>2. UNCHANGED <<pc, call, target, left, skip, chunk, buf>>
    BY <1>2 DEF vars, threadVars
  <2>3. Bounds'
    BY <1>2, NextBounds DEF SerialInv
  <2>4. Exclusive' /\ Fresh' /\ ~terminated'
    BY <2>1, <2>2 DEF SerialInv, Exclusive, Fresh
  <2>5. ASSUME NEW h \in Handles PROVE Placed(h)'
    <3>1. Placed(h) /\ \A L : Moving(h, L)' = Moving(h, L)
      BY <2>2 DEF SerialInv, Moving
    <3>2. QED
      BY <2>1, <3>1 DEF Placed
  <2>6. ASSUME NEW t \in Threads PROVE Steady(t)'
    <3>1. /\ Steady(t) /\ NextByte(t)' = NextByte(t) /\ Past(t)' = Past(t)
          /\ FileOf(t)' = FileOf(t)
      BY <2>1, <2>2 DEF SerialInv, NextByte, Past, FileOf
    <3>2. QED
      BY <2>1, <2>2, <3>1 DEF Steady
  <2>7. QED
    BY <2>3, <2>4, <2>5, <2>6 DEF SerialInv
<1>3. QED
  BY <1>1, <1>2

LEMMA SerialInvariant ==
  ASSUME SerialReads
  PROVE  Spec => []SerialInv
BY InitSerial, NextSerial, PTL DEF Spec

\* When the reads of a handle do not overlap, prodosfs_read answers with the bytes of
\* the file: the positions, index entries and block numbers of Seek and the clipped
\* copies of Read put together exactly the range asked for, in any order of requests.
THEOREM ReadsCorrect ==
  ASSUME SerialReads
  PROVE  Spec => []ReadCorrect
<1>1. SerialInv => ReadCorrect
  <2> SUFFICES ASSUME SerialInv, NEW t \in Threads
               PROVE  /\ pc[t] = "reply" =>
                           /\ Len(buf[t]) = call[t].size
                           /\ \A k \in 1 .. Len(buf[t]) :
                                LET o == call[t].off + k - 1 IN
                                o < FileOf(t).eof => buf[t][k] = ByteAt(FileOf(t), o)
                      /\ pc[t] = "fail" => call[t].off > FileOf(t).eof
    BY DEF ReadCorrect
  <2>1. CASE pc[t] = "reply"
    <3>1. Steady(t) /\ Len(buf[t]) \in Nat
      BY <2>1, RequestFacts
    <3>2. QED
      BY <2>1, <3>1 DEF Steady
  <2>2. CASE pc[t] # "reply"
    BY <2>2 DEF SerialInv, Steady
  <2>3. QED
    BY <2>1, <2>2
<1>2. QED
  BY <1>1, SerialInvariant, PTL

\* Under the same assumptions no lookup of open or read throws.
THEOREM NoException ==
  ASSUME SerialReads
  PROVE  Spec => []NeverTerminates
<1>1. SerialInv => NeverTerminates
  BY DEF SerialInv, NeverTerminates
<1>2. QED
  BY <1>1, SerialInvariant, PTL

-----------------------------------------------------------------------------
(* Part 3: the refinement of FileService *)

\* A read that has passed its first Seek begins in the file.
Begun(t) ==
  \/ pc[t] \in {"index", "data", "offset", "copy", "advance", "convert", "reply"}
  \/ pc[t] = "seek" /\ buf[t] # <<>>

RangeInv(t) ==
  /\ Begun(t) => call[t].off <= FileOf(t).eof
  /\ pc[t] = "seek" /\ buf[t] = <<>> => target[t] = call[t].off
  /\ pc[t] = "advance" => buf[t] # <<>>

RequestMap == [t \in Threads |-> PendingRequest(t)]

\* The request of one thread of a step.
LEMMA RequestUpdate ==
  ASSUME NEW t \in Threads, NEW r, PendingRequest(t)' = r,
         \A s \in Threads \ {t} : PendingRequest(s)' = PendingRequest(s)
  PROVE  RequestMap' = [RequestMap EXCEPT ![t] = r]
<1>1. \A s \in Threads : RequestMap'[s] = IF s = t THEN r ELSE RequestMap[s]
  BY DEF RequestMap
<1>2. QED
  BY <1>1 DEF RequestMap

\* What the service answers.
LEMMA ServiceAnswer ==
  ASSUME NEW f, NEW off, NEW size
  PROVE  Service!Answer(f, off, size) =
           IF off > f.eof THEN OutOfRangeError
           ELSE [k \in 1 .. IF off + size <= f.eof THEN size ELSE f.eof - off |->
                  ByteAt(f, off + k - 1)]
BY DEF Service!Answer, Service!Range

\* A buffer that holds the bytes of the file, cut at the end of the file, is that answer.
LEMMA CutIsAnswer ==
  ASSUME NEW f, NEW off, NEW size, NEW b, f.eof \in Nat, off \in Nat, off <= f.eof,
         b \in Seq(0 .. 255), Len(b) = size,
         \A k \in 1 .. Len(b) : off + k - 1 < f.eof => b[k] = ByteAt(f, off + k - 1)
  PROVE  SubSeq(b, 1, IF Len(b) <= f.eof - off THEN Len(b) ELSE f.eof - off)
           = Service!Answer(f, off, size)
<1> DEFINE n == IF Len(b) <= f.eof - off THEN Len(b) ELSE f.eof - off
           m == IF off + size <= f.eof THEN size ELSE f.eof - off
           range == [k \in 1 .. m |-> ByteAt(f, off + k - 1)]
           cut == SubSeq(b, 1, n)
<1>1. Len(b) \in Nat /\ \A k \in 1 .. Len(b) : b[k] \in 0 .. 255
  BY LenProperties, ElementOfSeq
<1>2. n \in Nat /\ m = n /\ n <= Len(b)
  BY <1>1
<1>3. \A k \in 1 .. n : off + k - 1 < f.eof
  BY <1>1
<1>4. Service!Answer(f, off, size) = range
  BY ServiceAnswer
<1> HIDE DEF n, m
<1>5. \A k \in 1 .. n : b[k] \in 0 .. 255 /\ b[k] = ByteAt(f, off + k - 1)
  BY <1>1, <1>2, <1>3
<1>6. /\ cut \in Seq(0 .. 255)
      /\ Len(cut) = IF 1 <= n THEN n - 1 + 1 ELSE 0
      /\ \A i \in 1 .. n - 1 + 1 : cut[i] = b[1 + i - 1]
  BY <1>2, <1>5, SubSeqProperties
<1>7. range \in [1 .. n -> 0 .. 255]
  BY <1>2, <1>5
<1>8. range \in Seq(0 .. 255) /\ Len(range) = n /\ \A k \in 1 .. n : range[k] = ByteAt(f, off + k - 1)
  <2>1. \A k \in 1 .. n : range[k] = ByteAt(f, off + k - 1)
    BY <1>2
  <2> HIDE DEF range
  <2>2. QED
    BY <1>2, <1>7, <2>1, FunctionIsSeq
<1> HIDE DEF cut, range
<1>9. Len(cut) = n /\ \A k \in 1 .. n : cut[k] = b[k]
  BY <1>2, <1>6
<1>10. cut = range
  BY <1>5, <1>6, <1>8, <1>9, SeqEqual
<1>11. QED
  BY <1>4, <1>10 DEF cut, n

\* A thread that a step is not about, and whose handle stays open on its file.
LEMMA RequestSame ==
  ASSUME NEW s \in Threads,
         pc'[s] = pc[s], call'[s] = call[s], target'[s] = target[s], buf'[s] = buf[s],
         pc[s] # "idle" => file'[call[s].handle] = file[call[s].handle]
  PROVE  PendingRequest(s)' = PendingRequest(s) /\ (RangeInv(s) => RangeInv(s)')
<1>1. CASE pc[s] = "idle"
  BY <1>1 DEF PendingRequest, RangeInv, Begun
<1>2. CASE pc[s] # "idle"
  <2>1. FileOf(s)' = FileOf(s)
    BY <1>2 DEF FileOf
  <2>2. QED
    BY <2>1 DEF PendingRequest, Visible, RangeInv, Begun
<1>3. QED
  BY <1>1, <1>2

\* A step within a read is none of the service's.
LEMMA InternalStep ==
  ASSUME NEW t \in Threads, UNCHANGED <<file, call>>,
         {pc[t], pc'[t]} \cap {"idle", "reply", "fail"} = {},
         \A s \in Threads \ {t} : /\ pc'[s] = pc[s] /\ target'[s] = target[s]
                                  /\ buf'[s] = buf[s]
  PROVE  UNCHANGED Service!vars
<1>1. \A s \in Threads \ {t} : PendingRequest(s)' = PendingRequest(s)
  BY RequestSame
<1>2. PendingRequest(t)' = PendingRequest(t)
  BY DEF PendingRequest
<1>3. RequestMap' = RequestMap
  BY <1>1, <1>2 DEF RequestMap
<1>4. QED
  BY <1>3 DEF Service!vars, RequestMap

LEMMA RequestNotNull ==
  ASSUME SerialInv, NEW t \in Threads, pc[t] # "idle"
  PROVE  /\ PendingRequest(t) # NULL
         /\ PendingRequest(t).handle = call[t].handle
         /\ PendingRequest(t).off = call[t].off
         /\ PendingRequest(t).size = call[t].size
         /\ pc[t] \notin {"reply", "fail"} => PendingRequest(t).answer = NULL
         /\ pc[t] \in {"reply", "fail"} => PendingRequest(t).answer # NULL
<1> DEFINE a == CASE pc[t] = "reply" -> Visible(t)
                  [] pc[t] = "fail" -> OutOfRangeError
                  [] OTHER -> NULL
<1>1. PendingRequest(t) = [handle |-> call[t].handle, off |-> call[t].off,
                           size |-> call[t].size, answer |-> a]
  BY DEF PendingRequest
<1>2. call[t] \in Calls
  BY DEF SerialInv, Bounds, RequestBound
<1>3. Visible(t) \in Seq(Int)
  <2>1. buf[t] \in Seq(0 .. 255) /\ FileOf(t).eof \in Nat /\ call[t].off \in Nat
    BY RequestFacts DEF SerialInv, Bounds, TypeOK, FileType
  <2>2. Len(buf[t]) \in Nat /\ \A i \in 1 .. Len(buf[t]) : buf[t][i] \in Int
    <3>1. \A i \in 1 .. Len(buf[t]) : buf[t][i] \in 0 .. 255
      BY <2>1, ElementOfSeq
    <3>2. \A x \in 0 .. 255 : x \in Int
      OBVIOUS
    <3>3. Len(buf[t]) \in Nat
      BY <2>1, LenProperties
    <3>4. QED
      BY <3>1, <3>2, <3>3, Zenon
  <2> DEFINE rest == FileOf(t).eof - call[t].off
             n == IF Len(buf[t]) <= rest THEN Len(buf[t]) ELSE rest
  <2>3. n \in Int /\ \A i \in 1 .. n : i \in 1 .. Len(buf[t])
    BY <2>1, <2>2
  <2>4. Visible(t) = SubSeq(buf[t], 1, n)
    BY DEF Visible
  <2> HIDE DEF n
  <2>5. 1 \in Int /\ \A i \in 1 .. n : buf[t][i] \in Int
    BY <2>2, <2>3
  <2>6. QED
    BY <2>3, <2>4, <2>5, SubSeqProperties
<1>4. OutOfRangeError \in Seq(Int)
  BY DEF OutOfRangeError
<1>5. pc[t] \in {"reply", "fail"} => a \in Seq(Int)
  BY <1>3, <1>4
<1>6. pc[t] \notin {"reply", "fail"} => a = NULL
  OBVIOUS
<1> HIDE DEF a
<1>7. NULL \notin Seq(Int)
      /\ NULL \notin [handle: Handles, off: Offsets, size: Sizes, answer: Seq(Int) \cup {NULL}]
  BY RequestAssumption DEF RequestAssumption
<1>8. a \in Seq(Int) \cup {NULL}
  BY <1>5, <1>6
<1>9. PendingRequest(t) \in
        [handle: Handles, off: Offsets, size: Sizes, answer: Seq(Int) \cup {NULL}]
  BY <1>1, <1>2, <1>8 DEF Calls
<1>10. QED
  BY <1>1, <1>5, <1>6, <1>7, <1>9

ServiceInv == SerialInv /\ \A t \in Threads : RangeInv(t)

\* What a step has to do for the service, beside keeping SerialInv.
Serves == (\A t \in Threads : RangeInv(t)') /\ [Service!Next]_(Service!vars)

LEMMA OpenServes ==
  ASSUME ServiceInv, SerialInv', NEW h \in Handles, NEW f \in Files, Open(h, f)
  PROVE  Serves
<1>1. /\ file[h] = NULL /\ file' = [file EXCEPT ![h] = f] /\ UNCHANGED threadVars
  BY DEF Open, Terminate, SerialInv
<1>2. ASSUME NEW s \in Threads
      PROVE  PendingRequest(s)' = PendingRequest(s) /\ RangeInv(s)'
  <2>1. RangeInv(s) /\ (pc[s] # "idle" => file[call[s].handle] # NULL)
    BY DEF ServiceInv, SerialInv, Bounds, RequestBound
  <2>2. pc[s] # "idle" => file'[call[s].handle] = file[call[s].handle]
    BY <1>1, <2>1
  <2>3. QED
    BY <1>1, <2>1, <2>2, RequestSame DEF threadVars
<1>3. RequestMap' = RequestMap
  BY <1>2 DEF RequestMap
<1>4. Service!Open(h, f)
  BY <1>1, <1>3 DEF Service!Open, RequestMap
<1>5. QED
  BY <1>2, <1>4 DEF Serves, Service!Next

LEMMA CloseServes ==
  ASSUME ServiceInv, NEW h \in Handles, Close(h)
  PROVE  Serves
<1>1. /\ file[h] # NULL /\ ~Busy(h) /\ file' = [file EXCEPT ![h] = NULL]
      /\ UNCHANGED threadVars
  BY DEF Close
<1>2. ASSUME NEW s \in Threads
      PROVE  /\ PendingRequest(s)' = PendingRequest(s) /\ RangeInv(s)'
             /\ PendingRequest(s) # NULL => PendingRequest(s).handle # h
  <2>1. RangeInv(s) /\ (pc[s] # "idle" => call[s].handle # h)
    BY <1>1 DEF ServiceInv, Busy
  <2>2. pc[s] # "idle" => file'[call[s].handle] = file[call[s].handle]
    BY <1>1, <2>1
  <2>3. pc[s] = "idle" => PendingRequest(s) = NULL
    BY DEF PendingRequest
  <2>4. pc[s] # "idle" => PendingRequest(s).handle # h
    BY <2>1, RequestNotNull DEF ServiceInv
  <2>5. QED
    BY <1>1, <2>1, <2>2, <2>3, <2>4, RequestSame DEF threadVars
<1>3. RequestMap' = RequestMap /\ \A s \in Threads : RequestMap[s] = PendingRequest(s)
  BY <1>2 DEF RequestMap
<1>4. Service!Close(h)
  BY <1>1, <1>2, <1>3 DEF Service!Close, RequestMap
<1>5. QED
  BY <1>2, <1>4 DEF Serves, Service!Next

LEMMA DispatchServes ==
  ASSUME ServiceInv, NEW t \in Threads, NEW h \in Handles, NEW off \in Offsets,
         NEW size \in Sizes, Dispatch(t, h, off, size)
  PROVE  Serves
<1>1. /\ pc[t] = "idle" /\ file[h] # NULL
      /\ pc' = [pc EXCEPT ![t] = "seek"]
      /\ call' = [call EXCEPT ![t] = [handle |-> h, off |-> off, size |-> size]]
      /\ target' = [target EXCEPT ![t] = off]
      /\ UNCHANGED <<handleVars, buf>>
  BY DEF Dispatch
<1>2. /\ pc'[t] = "seek" /\ call'[t] = [handle |-> h, off |-> off, size |-> size]
      /\ target'[t] = off /\ buf'[t] = <<>>
      /\ \A s \in Threads \ {t} : pc'[s] = pc[s] /\ call'[s] = call[s] /\ target'[s] = target[s]
      /\ UNCHANGED <<file, buf>>
  BY <1>1 DEF ServiceInv, SerialInv, Fresh, Bounds, TypeOK, handleVars
<1>3. PendingRequest(t) = NULL
  BY <1>1 DEF PendingRequest
<1>4. PendingRequest(t)' = [handle |-> h, off |-> off, size |-> size, answer |-> NULL]
  BY <1>2 DEF PendingRequest
<1>5. \A s \in Threads \ {t} : PendingRequest(s)' = PendingRequest(s) /\ RangeInv(s)'
  BY <1>2, RequestSame DEF ServiceInv
<1>6. RangeInv(t)'
  BY <1>2 DEF RangeInv, Begun
<1>7. RequestMap' = [RequestMap EXCEPT
                      ![t] = [handle |-> h, off |-> off, size |-> size, answer |-> NULL]]
  BY <1>4, <1>5, RequestUpdate
<1>8. Service!Ask(t, h, off, size)
  BY <1>1, <1>2, <1>3, <1>7 DEF Service!Ask, RequestMap
<1>9. QED
  BY <1>5, <1>6, <1>8 DEF Serves, Service!Next

\* A step of t that ends in an answer a is the service's.
LEMMA ServeStep ==
  ASSUME ServiceInv, NEW t \in Threads, pc[t] \notin {"idle", "reply", "fail"},
         UNCHANGED <<file, call>>,
         \A s \in Threads \ {t} : /\ pc'[s] = pc[s] /\ target'[s] = target[s]
                                  /\ buf'[s] = buf[s],
         PendingRequest(t)' =
           [handle |-> call[t].handle, off |-> call[t].off, size |-> call[t].size,
            answer |-> Service!Answer(FileOf(t), call[t].off, call[t].size)]
  PROVE  Service!Next
<1>1. /\ PendingRequest(t) # NULL /\ PendingRequest(t).answer = NULL
      /\ PendingRequest(t).handle = call[t].handle
      /\ PendingRequest(t).off = call[t].off /\ PendingRequest(t).size = call[t].size
  BY RequestNotNull DEF ServiceInv
<1>2. PendingRequest(t) = [handle |-> call[t].handle, off |-> call[t].off,
                           size |-> call[t].size, answer |-> NULL]
  BY DEF PendingRequest
<1>3. PendingRequest(t)' =
        [PendingRequest(t) EXCEPT !.answer =
          Service!Answer(file[PendingRequest(t).handle], PendingRequest(t).off,
                         PendingRequest(t).size)]
  BY <1>1, <1>2 DEF FileOf
<1>4. \A s \in Threads \ {t} : PendingRequest(s)' = PendingRequest(s)
  BY RequestSame
<1>5. RequestMap' =
        [RequestMap EXCEPT ![t] =
          [PendingRequest(t) EXCEPT !.answer =
            Service!Answer(file[PendingRequest(t).handle], PendingRequest(t).off,
                           PendingRequest(t).size)]]
  BY <1>3, <1>4, RequestUpdate
<1>6. RequestMap[t] = PendingRequest(t)
  BY DEF RequestMap
<1>7. Service!Serve(t)
  BY <1>1, <1>5, <1>6 DEF Service!Serve, RequestMap
<1>8. QED
  BY <1>7 DEF Service!Next

\* The other threads of a step of t.
LEMMA OthersInRange ==
  ASSUME ServiceInv, NEW t \in Threads, UNCHANGED <<file, call>>,
         \A s \in Threads \ {t} : /\ pc'[s] = pc[s] /\ target'[s] = target[s]
                                  /\ buf'[s] = buf[s]
  PROVE  \A s \in Threads \ {t} : RangeInv(s)'
BY RequestSame DEF ServiceInv

LEMMA SeekPositionServes ==
  ASSUME ServiceInv, NEW t \in Threads, SeekPosition(t)
  PROVE  Serves
<1> DEFINE f == FileOf(t)
           off == call[t].off
           next == IF target[t] > f.eof THEN OnSeekError(t) ELSE "index"
<1>1. /\ pc[t] = "seek" /\ pc' = [pc EXCEPT ![t] = next]
      /\ UNCHANGED <<file, call, target, left, buf>>
  BY DEF SeekPosition, PositionOutOfRange, FileOf
<1>2. /\ pc'[t] = next
      /\ \A s \in Threads \ {t} : pc'[s] = pc[s] /\ target'[s] = target[s] /\ buf'[s] = buf[s]
  BY <1>1 DEF ServiceInv, SerialInv, Bounds, TypeOK
<1>3. \A s \in Threads \ {t} : RangeInv(s)'
  BY <1>1, <1>2, OthersInRange
<1>4. /\ RangeInv(t) /\ FileOf(t)' = f
      /\ off \in Nat /\ f.eof \in Nat /\ target[t] \in Nat
  BY <1>1, RequestFacts DEF ServiceInv, FileOf, FileType
<1>5. CASE next = "fail"
  <2>1. target[t] > f.eof /\ buf[t] = <<>>
    BY <1>5 DEF OnSeekError, AfterSeek
  <2>2. off > f.eof
    BY <1>1, <1>4, <2>1 DEF RangeInv
  <2>3. RangeInv(t)'
    BY <1>2, <1>5 DEF RangeInv, Begun
  <2>4. Service!Answer(f, off, call[t].size) = OutOfRangeError
    BY <2>2, ServiceAnswer
  <2>5. PendingRequest(t)' = [handle |-> call[t].handle, off |-> off, size |-> call[t].size,
                              answer |-> OutOfRangeError]
    BY <1>1, <1>2, <1>5 DEF PendingRequest
  <2>6. Service!Next
    BY <1>1, <1>2, <2>4, <2>5, ServeStep
  <2>7. QED
    BY <1>3, <2>3, <2>6 DEF Serves
<1>6. CASE next # "fail"
  <2>1. next \in {"index", "offset", "convert"}
    BY <1>6 DEF OnSeekError, AfterSeek
  <2>2. off <= f.eof
    <3>1. CASE buf[t] = <<>>
      BY <1>1, <1>4, <1>6, <3>1 DEF RangeInv, OnSeekError
    <3>2. CASE buf[t] # <<>>
      BY <1>1, <1>4, <3>2 DEF RangeInv, Begun
    <3>3. QED
      BY <3>1, <3>2
  <2>3. RangeInv(t)'
    BY <1>1, <1>2, <1>4, <2>1, <2>2 DEF RangeInv
  <2>4. UNCHANGED Service!vars
    BY <1>1, <1>2, <2>1, InternalStep
  <2>5. QED
    BY <1>3, <2>3, <2>4 DEF Serves
<1>7. QED
  BY <1>5, <1>6

\* The steps between the first Seek and the text conversion.
LEMMA MiddleServes ==
  ASSUME ServiceInv, NEW t \in Threads, UNCHANGED <<file, call>>,
         pc[t] \in {"index", "data", "offset", "copy", "advance"},
         pc'[t] \in {"index", "data", "offset", "copy", "advance", "convert", "seek"},
         pc'[t] = "seek" => buf'[t] # <<>>, pc'[t] = "advance" => buf'[t] # <<>>,
         \A s \in Threads \ {t} : /\ pc'[s] = pc[s] /\ target'[s] = target[s]
                                  /\ buf'[s] = buf[s]
  PROVE  Serves
<1>1. \A s \in Threads \ {t} : RangeInv(s)'
  BY OthersInRange
<1>2. RangeInv(t)'
  <2>1. call[t].off <= FileOf(t).eof /\ FileOf(t)' = FileOf(t)
    BY DEF ServiceInv, RangeInv, Begun, FileOf
  <2>2. QED
    BY <2>1 DEF RangeInv
<1>3. UNCHANGED Service!vars
  BY InternalStep
<1>4. QED
  BY <1>1, <1>2, <1>3 DEF Serves

LEMMA MiddleSteps ==
  ASSUME ServiceInv, SerialInv', NEW t \in Threads,
         SeekIndex(t) \/ SeekData(t) \/ ReadOffset(t) \/ ReadCopy(t) \/ Advance(t)
  PROVE  Serves
<1> USE DEF ServiceInv, SerialInv, Bounds, TypeOK
<1>1. CASE SeekIndex(t)
  <2>1. /\ pc[t] = "index" /\ pc' = [pc EXCEPT ![t] = "data"]
        /\ UNCHANGED <<file, call, buf>>
        /\ \A s \in Threads \ {t} : target'[s] = target[s]
    BY <1>1 DEF SeekIndex, handleVars
  <2>2. QED
    BY <2>1, MiddleServes
<1>2. CASE SeekData(t)
  <2>1. /\ pc[t] = "data" /\ pc' = [pc EXCEPT ![t] = AfterSeek(t)]
        /\ UNCHANGED <<file, call, buf, target>>
    BY <1>2 DEF SeekData
  <2>2. AfterSeek(t) \in {"offset", "convert"}
    BY DEF AfterSeek
  <2>3. QED
    BY <2>1, <2>2, MiddleServes
<1>3. CASE ReadOffset(t)
  <2>1. /\ pc[t] = "offset" /\ pc' = [pc EXCEPT ![t] = "copy"]
        /\ UNCHANGED <<file, call, buf, target>>
    BY <1>3 DEF ReadOffset, handleVars
  <2>2. QED
    BY <2>1, MiddleServes
<1>4. CASE ReadCopy(t)
  <2>1. /\ pc[t] = "copy" /\ pc' = [pc EXCEPT ![t] = "advance"]
        /\ buf' = [buf EXCEPT ![t] = @ \o CopiedBytes(t)]
        /\ UNCHANGED <<file, call, target>>
    BY <1>4 DEF ReadCopy, CopiedBytes, handleVars
  <2>2. buf'[t] # <<>>
    <3>1. pc[t] = "copy" /\ Bounds /\ buf[t] \in Seq(0 .. 255)
      BY <1>4 DEF ReadCopy
    <3>2. chunk[t] \in Nat /\ chunk[t] # 0
      BY <3>1 DEF RequestBound
    <3>3. CopiedBytes(t) \in Seq(0 .. 255) /\ Len(CopiedBytes(t)) = chunk[t]
      BY <3>1, CopiedBytesType
    <3>4. Len(buf[t] \o CopiedBytes(t)) # 0
      BY <3>1, <3>2, <3>3, ConcatProperties, LenProperties
    <3>5. QED
      BY <2>1, <3>4, EmptySeq
  <2>3. QED
    BY <2>1, <2>2, MiddleServes
<1>5. CASE Advance(t)
  <2>1. /\ pc[t] = "advance" /\ pc' = [pc EXCEPT ![t] = "seek"]
        /\ UNCHANGED <<file, call, buf>> /\ buf[t] # <<>>
        /\ \A s \in Threads \ {t} : target'[s] = target[s]
    BY <1>5 DEF Advance, handleVars, RangeInv
  <2>2. QED
    BY <2>1, MiddleServes
<1>6. QED
  BY <1>1, <1>2, <1>3, <1>4, <1>5

LEMMA ConvertServes ==
  ASSUME ServiceInv, SerialInv', NEW t \in Threads, Convert(t)
  PROVE  Serves
<1> DEFINE f == FileOf(t)
           off == call[t].off
           size == call[t].size
           b == buf'[t]
<1>1. /\ pc[t] = "convert" /\ pc'[t] = "reply" /\ UNCHANGED <<file, call, target, left>>
      /\ \A s \in Threads \ {t} : pc'[s] = pc[s] /\ buf'[s] = buf[s]
  BY DEF Convert, ServiceInv, SerialInv, Bounds, TypeOK, handleVars
<1>2. /\ off <= f.eof /\ off \in Nat /\ f.eof \in Nat /\ FileOf(t)' = f /\ call'[t].off = off
      /\ left[t] = 0 /\ call[t].size \in Nat
  BY <1>1, RequestFacts DEF ServiceInv, RangeInv, Begun, FileOf, FileType, Steady
<1>3. buf'[t] \in Seq(0 .. 255)
  BY DEF SerialInv, Bounds, TypeOK
<1>4. Len(buf'[t]) = call[t].size
  <2>1. Len(buf'[t]) \in Nat
    BY <1>3, LenProperties
  <2>2. Len(buf'[t]) + left'[t] = call'[t].size
    BY <1>1 DEF SerialInv, Steady
  <2>3. QED
    BY <1>1, <1>2, <2>1, <2>2
<1>5. \A k \in 1 .. Len(buf'[t]) :
        off + k - 1 < f.eof => buf'[t][k] = ByteAt(f, off + k - 1)
  BY <1>1, <1>2 DEF SerialInv, Steady
<1>6. SubSeq(b, 1, IF Len(b) <= f.eof - off THEN Len(b) ELSE f.eof - off)
        = Service!Answer(f, off, size)
  <2>1. /\ f.eof \in Nat /\ off \in Nat /\ off <= f.eof
        /\ b \in Seq(0 .. 255) /\ Len(b) = size
        /\ \A k \in 1 .. Len(b) : off + k - 1 < f.eof => b[k] = ByteAt(f, off + k - 1)
    BY <1>2, <1>3, <1>4, <1>5
  <2> HIDE DEF f, off, size, b
  <2>2. QED
    BY <2>1, CutIsAnswer
<1> HIDE DEF f, off
<1>7. PendingRequest(t)' =
        [handle |-> call[t].handle, off |-> off, size |-> call[t].size,
         answer |-> Service!Answer(f, off, call[t].size)]
  BY <1>1, <1>2, <1>6 DEF PendingRequest, Visible, off
<1>8. Service!Next
  BY <1>1, <1>7, ServeStep DEF f, off
<1>9. RangeInv(t)'
  BY <1>1, <1>2 DEF RangeInv
<1>10. \A s \in Threads \ {t} : RangeInv(s)'
  BY <1>1, OthersInRange
<1>11. QED
  BY <1>8, <1>9, <1>10 DEF Serves

LEMMA ReplyServes ==
  ASSUME ServiceInv, NEW t \in Threads, Reply(t)
  PROVE  Serves
<1>1. /\ pc[t] \in {"reply", "fail"} /\ pc'[t] = "idle" /\ UNCHANGED file
      /\ \A s \in Threads \ {t} : /\ pc'[s] = pc[s] /\ call'[s] = call[s]
                                  /\ target'[s] = target[s] /\ buf'[s] = buf[s]
  BY DEF Reply, ServiceInv, SerialInv, Bounds, TypeOK, handleVars
<1>2. \A s \in Threads \ {t} : PendingRequest(s)' = PendingRequest(s) /\ RangeInv(s)'
  BY <1>1, RequestSame DEF ServiceInv
<1>3. PendingRequest(t)' = NULL /\ RangeInv(t)'
  BY <1>1 DEF PendingRequest, RangeInv, Begun
<1>4. PendingRequest(t) # NULL /\ PendingRequest(t).answer # NULL
  BY <1>1, RequestNotNull DEF ServiceInv
<1>5. RequestMap' = [RequestMap EXCEPT ![t] = NULL] /\ RequestMap[t] = PendingRequest(t)
  BY <1>2, <1>3, RequestUpdate DEF RequestMap
<1>6. Service!Return(t)
  BY <1>1, <1>4, <1>5 DEF Service!Return, RequestMap
<1>7. QED
  BY <1>2, <1>3, <1>6 DEF Serves, Service!Next

LEMMA NextServes ==
  ASSUME ServiceInv, SerialInv', [Next]_vars
  PROVE  Serves
<1>1. CASE UNCHANGED vars
  <2>1. \A s \in Threads : PendingRequest(s)' = PendingRequest(s) /\ RangeInv(s)'
    BY <1>1, RequestSame DEF ServiceInv, vars, handleVars, threadVars
  <2>2. UNCHANGED Service!vars
    BY <1>1, <2>1 DEF Service!vars, vars, handleVars
  <2>3. QED
    BY <2>1, <2>2 DEF Serves
<1>2. CASE Next
  BY <1>2, OpenServes, CloseServes, DispatchServes, SeekPositionServes, MiddleSteps,
     ConvertServes, ReplyServes DEF Next, Work
<1>3. QED
  BY <1>1, <1>2

\* With one outstanding read for each open file, the many steps of Seek and Read amount
\* to one: every reply is the service's answer, given at one instant while the read is
\* outstanding (prodosfs_open, prodosfs_read, prodosfs_close).  This is the safety part
\* of ImplementsService.
THEOREM ReadsAreAtomic ==
  ASSUME SerialReads
  PROVE  Spec => Service!Init /\ [][Service!Next]_(Service!vars)
<1>1. Init => Service!Init /\ \A t \in Threads : RangeInv(t)
  BY DEF Init, Service!Init, PendingRequest, RangeInv, Begun
<1>2. ServiceInv /\ SerialInv' /\ [Next]_vars => ServiceInv' /\ [Service!Next]_(Service!vars)
  BY NextServes DEF ServiceInv, Serves
<1>3. Init => ServiceInv
  BY <1>1, InitSerial DEF ServiceInv
<1>4. QED
  BY <1>1, <1>2, <1>3, SerialInvariant, PTL DEF Spec
=============================================================================
