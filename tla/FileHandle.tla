------------------------------ MODULE FileHandle ------------------------------
(***************************************************************************)
(* Reading a ProDOS file through an open handle: file_handle_t             *)
(* (source/file.cxx) as it is driven by the FUSE callbacks prodosfs_open,  *)
(* prodosfs_read and prodosfs_close (main.cxx).                            *)
(*                                                                         *)
(* A handle is shared by every read of the open file.  prodosfs_read moves *)
(* it (Seek) and then copies from where it stands (Read, which moves it    *)
(* again after every block), with no lock, so here each step of a thread   *)
(* touches at most one of the handle's mutable fields.                     *)
(***************************************************************************)
EXTENDS Integers, Sequences

CONSTANTS
  BLOCK_SIZE,   \* bytes in a block (512)
  POINTERS,     \* block numbers in an index block (256)
  NumBlocks,    \* blocks of the image
  Bytes,        \* Bytes[b][i]: byte i of block b
  Pointers,     \* Pointers[b][i]: block b read as an index block, entry i
  Files,        \* directory entries that can be opened
  Handles,      \* file_handle_t objects
  Threads,      \* worker threads of the FUSE loop
  Offsets,      \* file offsets the kernel asks for
  Sizes,        \* buffer sizes the kernel asks for
  AsyncRead,    \* FUSE_CAP_ASYNC_READ: may two reads of one handle overlap?
  NULL

Blocks == 0 .. NumBlocks - 1

StorageTypes == {"seedling", "sapling", "tree"}

\* The entries that can be read to their end.  Seek to end of file looks up the
\* block after the last one, so the file must leave an index entry for it; the
\* 24-bit eof field always does for a tree, not for a sapling.
Readable(f) ==
  f.eof <= CASE f.storage = "seedling" -> BLOCK_SIZE
             [] f.storage = "sapling"  -> BLOCK_SIZE * POINTERS - 1
             [] f.storage = "tree"     -> BLOCK_SIZE * POINTERS * POINTERS - 1

FileType == [storage: StorageTypes, key: Blocks \ {0}, eof: Nat, text: BOOLEAN]

ASSUME SizeAssumption ==
  /\ BLOCK_SIZE \in Nat \ {0}
  /\ POINTERS \in Nat \ {0}
  /\ NumBlocks \in Nat \ {0}

ASSUME DiskAssumption ==
  /\ Bytes \in [Blocks -> [0 .. BLOCK_SIZE - 1 -> 0 .. 255]]
  /\ Pointers \in [Blocks -> [0 .. POINTERS - 1 -> Blocks]]
  /\ \A i \in 0 .. BLOCK_SIZE - 1 : Bytes[0][i] = 0    \* sparse_block
  /\ \A i \in 0 .. POINTERS - 1 : Pointers[0][i] = 0

ASSUME RequestAssumption ==
  /\ Files \subseteq FileType
  /\ Offsets \subseteq Nat
  /\ Sizes \subseteq Nat \ {0}
  /\ AsyncRead \in BOOLEAN
  /\ NULL \notin Files \cup Int
  /\ NULL \notin Seq(Int)
  /\ NULL \notin [handle: Handles, off: Offsets, size: Sizes, answer: Seq(Int) \cup {NULL}]

-----------------------------------------------------------------------------
(* The bytes of a file, independently of any handle. *)

\* Block that holds the n-th BLOCK_SIZE bytes of file f.
BlockOf(f, n) ==
  CASE f.storage = "seedling" -> f.key
    [] f.storage = "sapling"  -> Pointers[f.key][n]
    [] f.storage = "tree"     -> Pointers[Pointers[f.key][n \div POINTERS]][n % POINTERS]

\* text_mode_unix: high bit off, carriage return to line feed.
ToUnix(byte) == IF byte % 128 = 13 THEN 10 ELSE byte % 128

Translated(f, byte) == IF f.text THEN ToUnix(byte) ELSE byte

\* The byte at offset o as a reader of the mounted file should see it.
ByteAt(f, o) == Translated(f, Bytes[BlockOf(f, o \div BLOCK_SIZE)][o % BLOCK_SIZE])

-----------------------------------------------------------------------------
VARIABLES
  file,       \* file[h]: _entry, NULL while h is closed
  position,   \* _position
  master,     \* _master: the block it points to, or NULL
  index,      \* _index: the block it points to, or NULL
  data,       \* _data: the block it points to, or NULL
  pc,         \* where each worker thread is
  call,       \* call[t]: the read that t serves
  target,     \* Seek's parameter offset
  left,       \* Read's parameter size: bytes still to copy
  skip,       \* Read's local index: offset within the block
  chunk,      \* Read's local to_copy
  buf,        \* bytes copied so far
  terminated  \* an exception left a callback: std::terminate

handleVars == <<file, position, master, index, data>>
threadVars == <<pc, call, target, left, skip, chunk, buf>>
vars == <<handleVars, threadVars, terminated>>

Labels == {"idle", "seek", "index", "data", "offset", "copy", "advance",
           "convert", "reply", "fail"}

Calls == [handle: Handles, off: Offsets, size: Sizes]

\* A block pointer that the code would not return: it throws instead.
Thrown == -1

\* volume_t::GetBlock; block 0 is the static block of zeros for sparse files.
GetBlock(p) == IF p \in Blocks THEN p ELSE Thrown

\* index_block_t::At
At(b, i) == IF b \in Blocks /\ i \in 0 .. POINTERS - 1 THEN Pointers[b][i] ELSE Thrown

BYTES_PER_INDEX_BLOCK == BLOCK_SIZE * POINTERS

TypeOK ==
  /\ file \in [Handles -> Files \cup {NULL}]
  /\ position \in [Handles -> Nat]
  /\ master \in [Handles -> Blocks \cup {NULL}]
  /\ index \in [Handles -> Blocks \cup {NULL}]
  /\ data \in [Handles -> Blocks \cup {NULL}]
  /\ pc \in [Threads -> Labels]
  /\ call \in [Threads -> Calls \cup {NULL}]
  /\ target \in [Threads -> Nat]
  /\ left \in [Threads -> Nat]
  /\ skip \in [Threads -> 0 .. BLOCK_SIZE - 1]
  /\ chunk \in [Threads -> 0 .. BLOCK_SIZE]
  /\ buf \in [Threads -> Seq(0 .. 255)]
  /\ terminated \in BOOLEAN

Init ==
  /\ file = [h \in Handles |-> NULL]
  /\ position = [h \in Handles |-> 0]
  /\ master = [h \in Handles |-> NULL]
  /\ index = [h \in Handles |-> NULL]
  /\ data = [h \in Handles |-> NULL]
  /\ pc = [t \in Threads |-> "idle"]
  /\ call = [t \in Threads |-> NULL]
  /\ target = [t \in Threads |-> 0]
  /\ left = [t \in Threads |-> 0]
  /\ skip = [t \in Threads |-> 0]
  /\ chunk = [t \in Threads |-> 0]
  /\ buf = [t \in Threads |-> <<>>]
  /\ terminated = FALSE

\* An exception that no callback catches ends the process.
Terminate ==
  /\ terminated' = TRUE
  /\ UNCHANGED <<handleVars, threadVars>>

Busy(h) == \E t \in Threads : pc[t] # "idle" /\ call[t].handle = h

-----------------------------------------------------------------------------
(* prodosfs_open and prodosfs_close *)

\* The pointers a new handle starts with, one level down for each level of index.
OpenMaster(f) == IF f.storage = "tree" THEN GetBlock(f.key) ELSE NULL

OpenIndex(f) ==
  CASE f.storage = "seedling" -> NULL
    [] f.storage = "sapling"  -> GetBlock(f.key)
    [] f.storage = "tree"     -> GetBlock(At(OpenMaster(f), 0))

OpenData(f) ==
  IF f.storage = "seedling" THEN GetBlock(f.key) ELSE GetBlock(At(OpenIndex(f), 0))

Open(h, f) ==
  /\ file[h] = NULL
  /\ IF Thrown \in {OpenMaster(f), OpenIndex(f), OpenData(f)}
     THEN Terminate
     ELSE /\ file' = [file EXCEPT ![h] = f]
          /\ position' = [position EXCEPT ![h] = 0]
          /\ master' = [master EXCEPT ![h] = OpenMaster(f)]
          /\ index' = [index EXCEPT ![h] = OpenIndex(f)]
          /\ data' = [data EXCEPT ![h] = OpenData(f)]
          /\ UNCHANGED <<threadVars, terminated>>

\* The kernel sends a release once no read of the handle is outstanding.
Close(h) ==
  /\ file[h] # NULL
  /\ ~Busy(h)
  /\ file' = [file EXCEPT ![h] = NULL]
  /\ position' = [position EXCEPT ![h] = 0]
  /\ master' = [master EXCEPT ![h] = NULL]
  /\ index' = [index EXCEPT ![h] = NULL]
  /\ data' = [data EXCEPT ![h] = NULL]
  /\ UNCHANGED <<threadVars, terminated>>

-----------------------------------------------------------------------------
(* prodosfs_read: Seek, then Read, then the text conversion *)

\* The kernel sends a read; without FUSE_CAP_ASYNC_READ it keeps at most one
\* outstanding for each open file.
Dispatch(t, h, off, size) ==
  /\ pc[t] = "idle"
  /\ file[h] # NULL
  /\ AsyncRead \/ ~Busy(h)
  /\ call' = [call EXCEPT ![t] = [handle |-> h, off |-> off, size |-> size]]
  /\ target' = [target EXCEPT ![t] = off]
  /\ left' = [left EXCEPT ![t] = size]
  /\ pc' = [pc EXCEPT ![t] = "seek"]
  /\ UNCHANGED <<handleVars, skip, chunk, buf, terminated>>

\* Seek has returned: prodosfs_read enters Read's loop, or the loop goes round.
AfterSeek(t) == IF left[t] > 0 THEN "offset" ELSE "convert"

\* Mutant: a seek to the end of the file is refused.
PositionOutOfRangeAtEof(f, off) == off >= f.eof

PositionOutOfRange(f, off) == off > f.eof

\* Mutant: Read tries a failed Seek again.
OnSeekErrorRetry(t) == IF buf[t] = <<>> THEN "fail" ELSE "seek"

\* prodosfs_read returns the error of its own Seek, Read ignores it.
OnSeekError(t) == IF buf[t] = <<>> THEN "fail" ELSE AfterSeek(t)

\* Seek's check and its assignment to _position.
SeekPosition(t) ==
  LET h == call[t].handle IN
  /\ pc[t] = "seek"
  /\ IF PositionOutOfRange(file[h], target[t])
     THEN /\ pc' = [pc EXCEPT ![t] = OnSeekError(t)]
          /\ UNCHANGED position
     ELSE /\ position' = [position EXCEPT ![h] = target[t]]
          /\ pc' = [pc EXCEPT ![t] = "index"]
  /\ UNCHANGED <<file, master, index, data, call, target, left, skip, chunk, buf, terminated>>

MasterEntry(off) == off \div BYTES_PER_INDEX_BLOCK

\* Mutant: the offset is not made relative to the index block.
WithinWholeFile(off) == off

WithinIndexBlock(off) == off - MasterEntry(off) * BYTES_PER_INDEX_BLOCK

\* Mutant: the index block of the previous position stays in use.
SeekIndexStale(t) ==
  LET h == call[t].handle IN
  /\ pc[t] = "index"
  /\ target' = [target EXCEPT ![t] = IF master[h] = NULL THEN @ ELSE WithinIndexBlock(@)]
  /\ pc' = [pc EXCEPT ![t] = "data"]
  /\ UNCHANGED <<handleVars, call, left, skip, chunk, buf, terminated>>

\* Seek in a tree: the index block of the new position.
SeekIndex(t) ==
  LET h == call[t].handle
      b == GetBlock(At(master[h], MasterEntry(target[t])))
  IN
  /\ pc[t] = "index"
  /\ \/ /\ master[h] = NULL
        /\ pc' = [pc EXCEPT ![t] = "data"]
        /\ UNCHANGED <<handleVars, target, terminated>>
     \/ /\ master[h] # NULL /\ b # Thrown
        /\ index' = [index EXCEPT ![h] = b]
        /\ target' = [target EXCEPT ![t] = WithinIndexBlock(@)]
        /\ pc' = [pc EXCEPT ![t] = "data"]
        /\ UNCHANGED <<file, position, master, data, terminated>>
     \/ /\ master[h] # NULL /\ b = Thrown
        /\ terminated' = TRUE
        /\ UNCHANGED <<handleVars, pc, target>>
  /\ UNCHANGED <<call, left, skip, chunk, buf>>

IndexEntry(off) == off \div BLOCK_SIZE

\* Seek in a sapling or a tree: the data block of the new position.
SeekData(t) ==
  LET h == call[t].handle
      b == GetBlock(At(index[h], IndexEntry(target[t])))
  IN
  /\ pc[t] = "data"
  /\ \/ /\ index[h] = NULL
        /\ pc' = [pc EXCEPT ![t] = AfterSeek(t)]
        /\ UNCHANGED <<data, terminated>>
     \/ /\ index[h] # NULL /\ b # Thrown
        /\ data' = [data EXCEPT ![h] = b]
        /\ pc' = [pc EXCEPT ![t] = AfterSeek(t)]
        /\ UNCHANGED terminated
     \/ /\ index[h] # NULL /\ b = Thrown
        /\ terminated' = TRUE
        /\ UNCHANGED <<data, pc>>
  /\ UNCHANGED <<file, position, master, index, call, target, left, skip, chunk, buf>>

\* Mutant: a copy may run over the end of the block.
ToCopyUnclipped(size, from) == size

\* Bytes that the current block can supply.
ToCopy(size, from) == IF size <= BLOCK_SIZE - from THEN size ELSE BLOCK_SIZE - from

\* Read: where in the block to copy from, and how much.
ReadOffset(t) ==
  LET from == position[call[t].handle] % BLOCK_SIZE IN
  /\ pc[t] = "offset"
  /\ skip' = [skip EXCEPT ![t] = from]
  /\ chunk' = [chunk EXCEPT ![t] = ToCopy(left[t], from)]
  /\ pc' = [pc EXCEPT ![t] = "copy"]
  /\ UNCHANGED <<handleVars, call, target, left, buf, terminated>>

\* Read: memcpy from _data, and the loop's bookkeeping.
ReadCopy(t) ==
  LET block == data[call[t].handle] IN
  /\ pc[t] = "copy"
  /\ buf' = [buf EXCEPT ![t] = @ \o [k \in 1 .. chunk[t] |-> Bytes[block][skip[t] + k - 1]]]
  /\ left' = [left EXCEPT ![t] = @ - chunk[t]]
  /\ pc' = [pc EXCEPT ![t] = "advance"]
  /\ UNCHANGED <<handleVars, call, target, skip, chunk, terminated>>

\* Read: the argument of Seek(_position + to_copy).
Advance(t) ==
  /\ pc[t] = "advance"
  /\ target' = [target EXCEPT ![t] = position[call[t].handle] + chunk[t]]
  /\ pc' = [pc EXCEPT ![t] = "seek"]
  /\ UNCHANGED <<handleVars, call, left, skip, chunk, buf, terminated>>

\* prodosfs_read: translate the n bytes of a text file.  Read only returns when
\* size is 0, so n is the size asked for and the test n == 0 finds nothing.
Convert(t) ==
  LET f == file[call[t].handle] IN
  /\ pc[t] = "convert"
  /\ buf' = [buf EXCEPT ![t] = [k \in 1 .. Len(@) |-> Translated(f, @[k])]]
  /\ pc' = [pc EXCEPT ![t] = "reply"]
  /\ UNCHANGED <<handleVars, call, target, left, skip, chunk, terminated>>

\* The callback returns and its locals are gone.
Reply(t) ==
  /\ pc[t] \in {"reply", "fail"}
  /\ pc' = [pc EXCEPT ![t] = "idle"]
  /\ call' = [call EXCEPT ![t] = NULL]
  /\ target' = [target EXCEPT ![t] = 0]
  /\ left' = [left EXCEPT ![t] = 0]
  /\ skip' = [skip EXCEPT ![t] = 0]
  /\ chunk' = [chunk EXCEPT ![t] = 0]
  /\ buf' = [buf EXCEPT ![t] = <<>>]
  /\ UNCHANGED <<handleVars, terminated>>

-----------------------------------------------------------------------------
\* What a worker thread does once it has a request.
Work(t) ==
  \/ SeekPosition(t)
  \/ SeekIndex(t)
  \/ SeekData(t)
  \/ ReadOffset(t)
  \/ ReadCopy(t)
  \/ Advance(t)
  \/ Convert(t)
  \/ Reply(t)

Next ==
  /\ ~terminated
  /\ \/ \E h \in Handles, f \in Files : Open(h, f)
     \/ \E h \in Handles : Close(h)
     \/ \E t \in Threads, h \in Handles, off \in Offsets, size \in Sizes :
          Dispatch(t, h, off, size)
     \/ \E t \in Threads : Work(t)

\* The operating system goes on scheduling every worker thread.
Fairness == \A t \in Threads : WF_vars(~terminated /\ Work(t))

Spec == Init /\ [][Next]_vars /\ Fairness

-----------------------------------------------------------------------------
(* Properties *)

FileOf(t) == file[call[t].handle]

\* A reply holds, for each byte asked for that lies in the file, that byte of the
\* file; and the error is returned for no offset in the file (prodosfs_read).
ReadCorrect ==
  \A t \in Threads :
    /\ pc[t] = "reply" =>
         /\ Len(buf[t]) = call[t].size
         /\ \A k \in 1 .. Len(buf[t]) :
              LET o == call[t].off + k - 1 IN
              o < FileOf(t).eof => buf[t][k] = ByteAt(FileOf(t), o)
    /\ pc[t] = "fail" => call[t].off > FileOf(t).eof

\* No copy leaves the block it starts in, nor reads through a null _data, and no
\* request is served by a closed handle, however the reads of a handle interleave
\* (file_handle_t::Read's memcpy).
CopyInBounds ==
  \A t \in Threads :
    /\ pc[t] # "idle" => FileOf(t) # NULL
    /\ pc[t] = "copy" =>
         /\ data[call[t].handle] \in Blocks
         /\ skip[t] + chunk[t] <= BLOCK_SIZE
         /\ chunk[t] \in 1 .. left[t]

\* No exception leaves a callback: every index Seek uses is in its index block and
\* every block number is on the disk.
NeverTerminates == ~terminated

\* Read stops at the end of the file.  It does not: it ignores that Seek failed
\* and copies the last block again until the buffer is full.
NoReadPastEof ==
  \A t \in Threads :
    pc[t] = "reply" => call[t].off + Len(buf[t]) <= FileOf(t).eof

\* Every request is answered, even when other reads move the handle underneath it:
\* the loop of Read shrinks the rest of the request on every round.
EveryReadReturns == \A t \in Threads : pc[t] = "seek" ~> pc[t] = "idle"

-----------------------------------------------------------------------------
(* Refinement of FileService *)

\* What of a reply reaches the process that reads: the kernel knows the size of
\* the file from getattr and drops what lies beyond it.
Visible(t) ==
  LET rest == FileOf(t).eof - call[t].off
  IN  SubSeq(buf[t], 1, IF Len(buf[t]) <= rest THEN Len(buf[t]) ELSE rest)

OutOfRangeError == <<-1>>

PendingRequest(t) ==
  IF pc[t] = "idle"
  THEN NULL
  ELSE [handle |-> call[t].handle, off |-> call[t].off, size |-> call[t].size,
        answer |-> CASE pc[t] = "reply" -> Visible(t)
                     [] pc[t] = "fail"  -> OutOfRangeError
                     [] OTHER -> NULL]

Service == INSTANCE FileService WITH
  opened <- file,
  request <- [t \in Threads |-> PendingRequest(t)],
  Eof <- LAMBDA f : f.eof,
  Content <- ByteAt,
  OutOfRange <- OutOfRangeError

\* With one outstanding read for each handle, the many steps of Seek and Read
\* amount to one: they implement the service, answer for answer.
ImplementsService == Service!Spec
=============================================================================
