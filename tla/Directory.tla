------------------------------- MODULE Directory -------------------------------
(***************************************************************************)
(* A ProDOS directory on disk and directory_handle_t, the cursor that walks *)
(* it (source/directory.cxx).                                              *)
(*                                                                         *)
(* A directory is the sequence of its blocks in the order of their next    *)
(* pointers.  The first slot of the first block is the directory's header. *)
(* After its ENTRIES_PER_BLOCK entries a block has one byte left, and the  *)
(* cursor visits that byte too: _Next compares an index that counts from 0 *)
(* with the number of entries.                                             *)
(***************************************************************************)
EXTENDS Integers, Sequences, FiniteSets

CONSTANTS
  ENTRIES_PER_BLOCK,   \* 13
  Slots,               \* Slots[k][i][s]: what is in slot s of the i-th block of
                       \* the directory whose key block is k
  FileCount,           \* FileCount[k]: the header's file_count
  Entries,             \* directory entries
  Inactive             \* a slot whose storage type is 0

\* Key blocks of the directories.
Directories == DOMAIN Slots

SlotNumbers == 0 .. ENTRIES_PER_BLOCK

\* The slots of directory k, its header's apart, each a pair <<block, slot>>.
Places(k) == ((1 .. Len(Slots[k])) \X SlotNumbers) \ {<<1, 0>>}

EntryAt(k, p) == Slots[k][p[1]][p[2]]

ActivePlaces(k) == {p \in Places(k) : EntryAt(k, p) # Inactive}

ASSUME EntriesAssumption ==
  /\ ENTRIES_PER_BLOCK \in Nat \ {0}
  /\ Inactive \notin Entries

\* A volume that ProDOS wrote: the byte after the last entry of a block is 0, and
\* file_count is the number of active entries.
ASSUME LayoutAssumption ==
  \A k \in Directories :
    /\ Slots[k] \in Seq([SlotNumbers -> Entries \cup {Inactive}])
    /\ Slots[k] # <<>>
    /\ \A i \in 1 .. Len(Slots[k]) : Slots[k][i][ENTRIES_PER_BLOCK] = Inactive
    /\ FileCount[k] = Cardinality(ActivePlaces(k))

-----------------------------------------------------------------------------
(* directory_handle_t *)

\* key: the directory; block: which of its blocks _block is; slot: _block_index;
\* count: _entry_index.
Cursors == [key: Directories, block: Nat \ {0}, slot: SlotNumbers, count: Nat]

\* _Open
OpenCursor(k) == [key |-> k, block |-> 1, slot |-> 1, count |-> 0]

Place(c) == <<c.block, c.slot>>

\* Mutant: the last entry is not returned.
AtEndEarly(c) == c.count + 1 >= FileCount[c.key]

\* NextEntry: every entry that the header counts has been returned.
AtEnd(c) == c.count = FileCount[c.key]

\* _Next throws when it is in the last slot of the last block.
NoMoreBlocks(c) == c.slot >= ENTRIES_PER_BLOCK /\ c.block = Len(Slots[c.key])

\* Mutant: the cursor never leaves the key block.
NextCursorSameBlock(c) ==
  [c EXCEPT !.slot = IF @ < ENTRIES_PER_BLOCK THEN @ + 1 ELSE 0]

\* Mutant: the slot number runs over the end of the block.
NextCursorOverflow(c) == [c EXCEPT !.slot = @ + 1]

\* _Next
NextCursor(c) ==
  IF c.slot < ENTRIES_PER_BLOCK
  THEN [c EXCEPT !.slot = @ + 1]
  ELSE [c EXCEPT !.block = @ + 1, !.slot = 0]

\* Mutant: the entry returned is not counted.
TakenUncounted(c) == NextCursor(c)

\* Mutant: the cursor stays on the entry returned.
TakenStays(c) == c

\* NextEntry: _entry_index++ and _Next.
Taken(c) == [NextCursor(c) EXCEPT !.count = @ + 1]

-----------------------------------------------------------------------------
(* The order of the slots on disk *)

Before(p, q) == p[1] < q[1] \/ (p[1] = q[1] /\ p[2] < q[2])

\* The active entries that a cursor has passed, and those still ahead of it.
Passed(c) == {p \in ActivePlaces(c.key) : Before(p, Place(c))}

Ahead(c) == {p \in ActivePlaces(c.key) : ~Before(p, Place(c))}
=============================================================================
