---------------------------- MODULE DirectoryProofs ----------------------------
(***************************************************************************)
(* The cursor of directory_handle_t, for every volume that satisfies       *)
(* LayoutAssumption: what a step of _Next passes, and why the blocks       *)
(* cannot run out.                                                         *)
(***************************************************************************)
EXTENDS Directory, SequenceTheorems, FiniteSetTheorems, TLAPS

\* A cursor stands on a slot of its directory that is not the header.
Standing(c) ==
  /\ c \in Cursors
  /\ c.block \in 1 .. Len(Slots[c.key])
  /\ c.block = 1 => c.slot # 0

LEMMA SlotsType ==
  ASSUME NEW k \in Directories
  PROVE  /\ Len(Slots[k]) \in Nat \ {0}
         /\ \A i \in 1 .. Len(Slots[k]) : Slots[k][i][ENTRIES_PER_BLOCK] = Inactive
         /\ FileCount[k] = Cardinality(ActivePlaces(k))
<1>1. Slots[k] \in Seq([SlotNumbers -> Entries \cup {Inactive}]) /\ Slots[k] # <<>>
  BY LayoutAssumption DEF LayoutAssumption
<1>2. Len(Slots[k]) \in Nat /\ Len(Slots[k]) # 0
  BY <1>1, EmptySeq, LenProperties
<1>3. QED
  BY <1>2, LayoutAssumption DEF LayoutAssumption

LEMMA ActiveFinite ==
  ASSUME NEW k \in Directories
  PROVE  IsFiniteSet(ActivePlaces(k))
<1>1. Len(Slots[k]) \in Int /\ ENTRIES_PER_BLOCK \in Int
  BY SlotsType, EntriesAssumption DEF EntriesAssumption
<1>2. IsFiniteSet(1 .. Len(Slots[k])) /\ IsFiniteSet(SlotNumbers)
  BY <1>1, FS_Interval DEF SlotNumbers
<1>3. IsFiniteSet((1 .. Len(Slots[k])) \X SlotNumbers)
  BY <1>2, FS_Product
<1>4. QED
  BY <1>3, FS_Subset DEF ActivePlaces, Places

\* The slots before the cursor after _Next are those before it and the one under it.
LEMMA NextPassed ==
  ASSUME NEW c, Standing(c), ~NoMoreBlocks(c)
  PROVE  /\ Standing(NextCursor(c))
         /\ NextCursor(c).key = c.key /\ NextCursor(c).count = c.count
         /\ \A p \in Places(c.key) :
              Before(p, Place(NextCursor(c))) <=> Before(p, Place(c)) \/ p = Place(c)
<1> USE EntriesAssumption DEF EntriesAssumption
<1>1. /\ c.key \in Directories /\ c.block \in Nat \ {0} /\ c.slot \in SlotNumbers
      /\ c.count \in Nat /\ Len(Slots[c.key]) \in Nat
      /\ c = [key |-> c.key, block |-> c.block, slot |-> c.slot, count |-> c.count]
  BY SlotsType DEF Standing, Cursors
<1>2. CASE c.slot < ENTRIES_PER_BLOCK
  <2>1. NextCursor(c) = [key |-> c.key, block |-> c.block, slot |-> c.slot + 1,
                         count |-> c.count]
    BY <1>1, <1>2 DEF NextCursor
  <2>2. c.slot + 1 \in SlotNumbers /\ c.slot + 1 # 0
    BY <1>1, <1>2 DEF SlotNumbers
  <2>3. Standing(NextCursor(c))
    BY <1>1, <2>1, <2>2 DEF Standing, Cursors
  <2>4. ASSUME NEW p \in Places(c.key)
        PROVE  Before(p, Place(NextCursor(c))) <=> Before(p, Place(c)) \/ p = Place(c)
    BY <1>1, <2>1 DEF Before, Place, Places, SlotNumbers
  <2>5. QED
    BY <2>1, <2>3, <2>4
<1>3. CASE ~(c.slot < ENTRIES_PER_BLOCK)
  <2>1. NextCursor(c) = [key |-> c.key, block |-> c.block + 1, slot |-> 0,
                         count |-> c.count]
    BY <1>1, <1>3 DEF NextCursor
  <2>2. c.slot = ENTRIES_PER_BLOCK /\ c.block # Len(Slots[c.key])
    BY <1>1, <1>3 DEF SlotNumbers, NoMoreBlocks
  <2>3. c.block + 1 \in 1 .. Len(Slots[c.key]) /\ c.block + 1 # 1
    BY <1>1, <2>2 DEF Standing
  <2>4. Standing(NextCursor(c))
    BY <1>1, <2>1, <2>3 DEF Standing, Cursors, SlotNumbers
  <2>5. ASSUME NEW p \in Places(c.key)
        PROVE  Before(p, Place(NextCursor(c))) <=> Before(p, Place(c)) \/ p = Place(c)
    BY <1>1, <2>1, <2>2 DEF Before, Place, Places, SlotNumbers
  <2>6. QED
    BY <2>1, <2>4, <2>5
<1>4. QED
  BY <1>2, <1>3

LEMMA PlaceOfCursor ==
  ASSUME NEW c, Standing(c)
  PROVE  Place(c) \in Places(c.key) /\ ~Before(Place(c), Place(c))
BY DEF Standing, Cursors, Place, Places, Before, SlotNumbers

\* The cursor counts the entries that it has passed.
Counting(c) == Standing(c) /\ c.count = Cardinality(Passed(c))

LEMMA PassedFinite ==
  ASSUME NEW c, Standing(c)
  PROVE  /\ IsFiniteSet(Passed(c))
         /\ Cardinality(Passed(c)) \in Nat
         /\ Cardinality(Passed(c)) = Cardinality(ActivePlaces(c.key))
              => Passed(c) = ActivePlaces(c.key)
BY ActiveFinite, FS_Subset, FS_CardinalityType DEF Standing, Cursors, Passed

\* At the end nothing is left ahead.
LEMMA AtEndPassedAll ==
  ASSUME NEW c, Counting(c), AtEnd(c)
  PROVE  Passed(c) = ActivePlaces(c.key)
<1>1. FileCount[c.key] = Cardinality(ActivePlaces(c.key))
  BY SlotsType DEF Counting, Standing, Cursors
<1>2. QED
  BY <1>1, PassedFinite DEF Counting, AtEnd

\* The last slot of the last block is behind every entry, so a cursor there has
\* counted them all: NextEntry stops before it asks for one block too many.
LEMMA BlocksSuffice ==
  ASSUME NEW c, Counting(c), ~AtEnd(c)
  PROVE  ~NoMoreBlocks(c)
<1> SUFFICES ASSUME NoMoreBlocks(c) PROVE FALSE
  OBVIOUS
<1>1. /\ c.key \in Directories /\ c.slot = ENTRIES_PER_BLOCK
      /\ c.block = Len(Slots[c.key]) /\ c.block \in Nat /\ ENTRIES_PER_BLOCK \in Nat
  BY EntriesAssumption
     DEF EntriesAssumption, Counting, Standing, Cursors, NoMoreBlocks, SlotNumbers
<1>2. ASSUME NEW p \in ActivePlaces(c.key) PROVE Before(p, Place(c))
  <2>1. p \in Places(c.key) /\ p[2] # ENTRIES_PER_BLOCK
    BY <1>1, SlotsType DEF ActivePlaces, Places, EntryAt
  <2>2. QED
    BY <1>1, <2>1 DEF Places, SlotNumbers, Before, Place
<1>3. Passed(c) = ActivePlaces(c.key)
  BY <1>2 DEF Passed
<1>4. c.count = FileCount[c.key]
  BY <1>1, <1>3, SlotsType DEF Counting
<1>5. QED
  BY <1>4 DEF AtEnd

\* Passing over an inactive slot passes no entry.
LEMMA SkipCounts ==
  ASSUME NEW c, Counting(c), ~NoMoreBlocks(c), EntryAt(c.key, Place(c)) = Inactive
  PROVE  /\ Counting(NextCursor(c)) /\ NextCursor(c).key = c.key
         /\ Passed(NextCursor(c)) = Passed(c)
<1>1. /\ Standing(NextCursor(c))
      /\ NextCursor(c).key = c.key /\ NextCursor(c).count = c.count
      /\ \A p \in Places(c.key) :
           Before(p, Place(NextCursor(c))) <=> Before(p, Place(c)) \/ p = Place(c)
  BY NextPassed DEF Counting
<1>2. Place(c) \notin ActivePlaces(c.key)
  BY DEF ActivePlaces
<1>3. Passed(NextCursor(c)) = Passed(c)
  BY <1>1, <1>2 DEF Passed, ActivePlaces
<1>4. QED
  BY <1>1, <1>3 DEF Counting

\* Taking an entry passes that entry, and counts it.
LEMMA TakeCounts ==
  ASSUME NEW c, Counting(c), ~NoMoreBlocks(c), EntryAt(c.key, Place(c)) # Inactive
  PROVE  /\ Counting(Taken(c)) /\ Taken(c).key = c.key
         /\ Place(c) \in ActivePlaces(c.key) \ Passed(c)
         /\ Passed(Taken(c)) = Passed(c) \cup {Place(c)}
<1> DEFINE n == NextCursor(c)
<1>1. /\ Standing(n) /\ n.key = c.key /\ n.count = c.count
      /\ \A p \in Places(c.key) : Before(p, Place(n)) <=> Before(p, Place(c)) \/ p = Place(c)
  BY NextPassed DEF Counting
<1>2. Place(c) \in ActivePlaces(c.key) \ Passed(c)
  BY PlaceOfCursor DEF Counting, ActivePlaces, Passed
<1>3. Passed(n) = Passed(c) \cup {Place(c)}
  BY <1>1, <1>2 DEF Passed, ActivePlaces
<1>4. Cardinality(Passed(n)) = c.count + 1
  BY <1>2, <1>3, PassedFinite, FS_AddElement DEF Counting
<1>5. /\ n \in Cursors /\ c.count \in Nat
      /\ Taken(c) = [n EXCEPT !.count = n.count + 1]
  BY <1>1 DEF Taken, Standing, Counting, Cursors
<1> HIDE DEF n
<1>6. /\ Taken(c) \in Cursors /\ Taken(c).key = n.key /\ Taken(c).block = n.block
      /\ Taken(c).slot = n.slot /\ Taken(c).count = n.count + 1
  BY <1>1, <1>5 DEF Cursors
<1>7. Passed(Taken(c)) = Passed(n)
  BY <1>6 DEF Passed, Place
<1>8. Standing(Taken(c))
  BY <1>1, <1>6 DEF Standing
<1>9. QED
  BY <1>1, <1>2, <1>3, <1>4, <1>6, <1>7, <1>8 DEF Counting

\* What is ahead is what has not been passed, and comes after what has.
LEMMA AheadFacts ==
  ASSUME NEW c, Standing(c)
  PROVE  /\ Ahead(c) = ActivePlaces(c.key) \ Passed(c)
         /\ \A p \in Passed(c), q \in Ahead(c) : Before(p, q)
<1>1. c.block \in Int /\ c.slot \in Int
  BY EntriesAssumption DEF Standing, Cursors, SlotNumbers, EntriesAssumption
<1>2. \A p \in ActivePlaces(c.key) : p[1] \in Int /\ p[2] \in Int
  BY EntriesAssumption DEF ActivePlaces, Places, SlotNumbers, EntriesAssumption
<1>3. QED
  BY <1>1, <1>2 DEF Ahead, Passed, Before, Place

\* A cursor that has just been opened has everything ahead.
LEMMA OpenCounts ==
  ASSUME NEW k \in Directories
  PROVE  /\ Counting(OpenCursor(k)) /\ OpenCursor(k).key = k
         /\ Passed(OpenCursor(k)) = {}
<1>1. Standing(OpenCursor(k)) /\ OpenCursor(k).key = k /\ OpenCursor(k).count = 0
  BY SlotsType, EntriesAssumption
     DEF Standing, OpenCursor, Cursors, SlotNumbers, EntriesAssumption
<1>2. Passed(OpenCursor(k)) = {}
  BY EntriesAssumption
     DEF Passed, OpenCursor, Place, Before, ActivePlaces, Places, SlotNumbers, EntriesAssumption
<1>3. QED
  BY <1>1, <1>2, FS_EmptySet DEF Counting

-----------------------------------------------------------------------------
(* Sequences *)

\* What appending one element does to a sequence.
LEMMA AppendElements ==
  ASSUME NEW S, NEW s \in Seq(S), NEW e \in S
  PROVE  /\ Append(s, e) \in Seq(S)
         /\ Len(Append(s, e)) = Len(s) + 1 /\ Len(s) \in Nat
         /\ Append(s, e)[Len(s) + 1] = e
         /\ \A i \in 1 .. Len(s) : Append(s, e)[i] = s[i]
BY AppendProperties, LenProperties
=============================================================================
