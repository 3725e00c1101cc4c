------------------------------ MODULE BlocksUsed ------------------------------
(***************************************************************************)
(* Statistics of a volume (source/volume.cxx).  CountBlocksUsed counts the *)
(* blocks in use from the volume bitmap, whose ones are the free blocks;   *)
(* .CATALOG, diskutil and the attribute prodos.used_blocks show it.        *)
(* CountRootDirectoryBlocks follows the directory's pointers for getattr.  *)
(*                                                                         *)
(* Only how many bits of a byte are set matters here, so that number       *)
(* stands for the byte.                                                    *)
(*                                                                         *)
(* No name is one of VolumeOpen's, so that proofs can extend both.         *)
(***************************************************************************)
EXTENDS Integers, FiniteSets, Sequences

CONSTANTS
  BLOCK_SIZE,    \* bytes in a block (512)
  BITS,          \* bits in a byte (8)
  UINT,          \* values of unsigned (2^32): _num_blocks' type
  BITMAP,        \* bit_map_pointer
  Totals,        \* numbers of blocks that a volume may have
  RootChains     \* the blocks of the root directory, in the order of their pointers

\* The blocks that ProDOS keeps the boot loader, the volume directory and the
\* beginning of the bitmap in are never free.
ASSUME SizeAssumption ==
  /\ {BLOCK_SIZE, BITS, UINT, BITMAP} \subseteq Nat \ {0}
  /\ \A n \in Totals : n \in BITMAP + 1 .. UINT - 1
  /\ \A c \in RootChains :
       /\ c \in Seq(2 .. BITMAP - 1) \ {<<>>} /\ c[1] = 2
       /\ \A j, k \in DOMAIN c : c[j] = c[k] => j = k

\* The bits for n blocks fill this many bytes and blocks.
BitmapBytes(n) == (n + BITS - 1) \div BITS
BitmapBlocks(n) == (BitmapBytes(n) + BLOCK_SIZE - 1) \div BLOCK_SIZE

VARIABLES
  total,        \* _num_blocks
  free,         \* the blocks that are free
  filler,       \* bits set in each byte of the blocks behind the bitmap
  root,         \* the blocks of the root directory
  loop,         \* where the loops are
  pointer,      \* the next block to read
  bitmap,       \* the block that bitmap points to
  i,            \* the inner loop's i
  blocks,       \* what is left to count
  used,         \* CountBlocksUsed's result
  num_blocks    \* CountRootDirectoryBlocks's result

input == <<total, free, filler, root>>
countVars == <<input, loop, pointer, bitmap, i, blocks, used, num_blocks>>

CountTypeOK ==
  /\ total \in Totals
  /\ free \subseteq 0 .. total - 1
  /\ filler \in 0 .. BITS
  /\ root \in RootChains
  /\ loop \in {"outer", "inner", "done", "terminated", "root", "counted"}
  /\ pointer \in IF loop \in {"root", "counted"} THEN 0 .. BITMAP - 1 ELSE BITMAP .. total
  /\ bitmap \in 2 .. total - 1
  /\ i \in 0 .. BLOCK_SIZE
  /\ blocks \in 0 .. UINT - 1
  /\ used \in Int
  /\ num_blocks \in 1 .. Len(root)

\* block->next
NextOf(b) ==
  IF b = root[Len(root)] THEN 0 ELSE root[1 + CHOOSE k \in DOMAIN root : root[k] = b]

\* One of the two functions is called.
CountInit ==
  /\ total \in Totals
  /\ free \in SUBSET (BITMAP + BitmapBlocks(total) .. total - 1)
  /\ filler \in 0 .. BITS
  /\ root \in RootChains
  /\ \/ loop = "outer" /\ pointer = BITMAP
     \/ loop = "root" /\ pointer = NextOf(2)
  /\ bitmap = 2
  /\ i = 0
  /\ blocks = total
  /\ used = 0
  /\ num_blocks = 1

\* The bits set in byte j of block b.  ProDOS clears what the bitmap leaves of its
\* last block.
Popcount(b, j) ==
  LET byte == (b - BITMAP) * BLOCK_SIZE + j
  IN  IF b >= BITMAP + BitmapBlocks(total)
      THEN filler
      ELSE Cardinality(free \cap (byte * BITS .. byte * BITS + BITS - 1))

-----------------------------------------------------------------------------
\* The outer loop: ReadBlock(pointer++), which throws beyond the last block.
Outer ==
  /\ loop = "outer"
  /\ blocks > 0
  /\ IF pointer < total
     THEN loop' = "inner" /\ bitmap' = pointer /\ pointer' = pointer + 1 /\ i' = 0
     ELSE loop' = "terminated" /\ UNCHANGED <<bitmap, pointer, i>>
  /\ UNCHANGED <<input, blocks, used, num_blocks>>

Return ==
  /\ loop = "outer"
  /\ blocks = 0
  /\ loop' = "done"
  /\ UNCHANGED <<input, pointer, bitmap, i, blocks, used, num_blocks>>

\* Mutant: the blocks of a byte are counted all at once.
BlocksOfByteAll == BITS

\* sizeof(uint8_t) is meant to be the blocks that a byte of the bitmap stands for; it
\* is its size in bytes.
BlocksOfByte == 1

\* Mutant: a bit that is set counts as a block in use.
UsedOfByteSet(n) == n

UsedOfByte(n) == BlocksOfByte - n

MoreBytes == i < BLOCK_SIZE /\ blocks > 0

\* The inner loop: one byte.  blocks is unsigned.
Inner ==
  /\ loop = "inner"
  /\ MoreBytes
  /\ used' = used + UsedOfByte(Popcount(bitmap, i))
  /\ blocks' = (blocks - BlocksOfByte) % UINT
  /\ i' = i + 1
  /\ UNCHANGED <<input, loop, pointer, bitmap, num_blocks>>

InnerEnds ==
  /\ loop = "inner"
  /\ ~MoreBytes
  /\ loop' = "outer"
  /\ UNCHANGED <<input, pointer, bitmap, i, blocks, used, num_blocks>>

-----------------------------------------------------------------------------
(* CountRootDirectoryBlocks *)

\* Mutant: the loop ends at a block that has no next one.
MoreRootBlocksToRead == pointer # 0 /\ NextOf(pointer) # 0

MoreRootBlocks == pointer # 0

RootBlock ==
  /\ loop = "root"
  /\ MoreRootBlocks
  /\ num_blocks' = num_blocks + 1
  /\ bitmap' = pointer
  /\ pointer' = NextOf(pointer)
  /\ UNCHANGED <<input, loop, i, blocks, used>>

RootEnds ==
  /\ loop = "root"
  /\ ~MoreRootBlocks
  /\ loop' = "counted"
  /\ UNCHANGED <<input, pointer, bitmap, i, blocks, used, num_blocks>>

-----------------------------------------------------------------------------
CountNext == Outer \/ Return \/ Inner \/ InnerEnds \/ RootBlock \/ RootEnds

CountSpec == CountInit /\ [][CountNext]_countVars

-----------------------------------------------------------------------------
(* Properties *)

CountIsRight == loop = "done" => used = total - Cardinality(free)

\* On a volume of no more blocks than a block has bytes, a floppy disk, the count is
\* right: the code takes too many bytes, each for one block, but those that it should
\* not take are the zeros behind the bitmap, and the errors cancel.
FloppiesAreCounted == total <= BLOCK_SIZE => CountIsRight

\* The count is right on every volume.
EveryVolumeIsCounted == CountIsRight

\* The size that stat shows of the root directory is that of all its blocks, the last
\* one included and each once (CountRootDirectoryBlocks).
RootIsCounted == loop = "counted" => num_blocks = Len(root)

\* The blocks read lie on the disk, so no exception is thrown.
NeverTerminates == loop # "terminated"
=============================================================================
