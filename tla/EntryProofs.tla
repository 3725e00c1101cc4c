------------------------------ MODULE EntryProofs ------------------------------
(***************************************************************************)
(* Entries by name (volume.cxx, main.cxx, entry.cxx).  First PathLookup:   *)
(* what GetEntry finds, for every volume that satisfies LayoutAssumption   *)
(* and NamesAssumption and every set of pathnames.  Then Attributes: what  *)
(* a client learns about the entry found, for any entries, dates, texts    *)
(* and buffers that satisfy AttributesAssumption and TextAssumption.       *)
(***************************************************************************)
EXTENDS PathLookup, Attributes, DirectoryProofs, WellFoundedInduction

\* The entry p of a directory has the name of component c.
Matches(k, p, c) == NameMatches(EntryAt(k, p), c)

\* The pathname that GetEntry is called with.
seen == Filename(op, asked)

\* The walk has compared component path[itr] with every entry that the cursor has
\* passed, the last one apart, which is the entry in hand.
WalkInv ==
  /\ pc # "idle" => op \in Ops /\ asked \in Paths
  /\ pc \in {"next", "match"} =>
       /\ seen # <<>>
       /\ path = SplitPath(seen)
       /\ Counting(cursor)
  /\ pc = "next" => \A p \in Passed(cursor) : ~Matches(cursor.key, p, path[itr])
  /\ pc = "match" =>
       \E q \in ActivePlaces(cursor.key) :
         /\ entry = EntryAt(cursor.key, q)
         /\ \A p \in Passed(cursor) \ {q} : ~Matches(cursor.key, p, path[itr])
  /\ pc = "found" => entry \in Entries \cup {RootEntry}
  /\ terminated => pc = "found" /\ entry.kind = "other" /\ op \notin {"open", "opendir"}

\* Where component c leads GetEntry from the entry e, or NULL: an extension that is still
\* there makes it no entry's name.
Under(e, c) ==
  IF e # NULL /\ e.kind \in {"root", "directory"} /\ c.type = NULL
  THEN Named(e.key, c.name)
  ELSE NULL

\* The pathnames of which S_SplitPath makes what they are, and where they lead.
Short(p) == Len(p) <= 2

Reached(p) ==
  IF Len(p) = 0 THEN RootEntry
  ELSE IF Len(p) = 1 THEN Under(RootEntry, p[1])
  ELSE Under(Under(RootEntry, p[1]), p[2])

\* The entry whose directory the walk is in.
Above == IF itr = 1 THEN RootEntry ELSE Under(RootEntry, seen[1])

\* "No such file" and "not a directory".
NothingThere == {[errno |-> "ENOENT"], [errno |-> "ENOTDIR"]}

\* A walk is in the directory where its pathname leads and ends where it does; it gets
\* to the second component at most.
RightInv ==
  /\ pc \in {"next", "match"} =>
       /\ itr \in {1, 2}
       /\ Above # NULL /\ Above.kind \in {"root", "directory"} /\ Above.key = cursor.key
  /\ pc = "found" => Short(seen) /\ entry = Reached(seen)
  /\ pc = "failed" => Short(seen) \/ ToError(error) \in NothingThere
  /\ pc = "reply" => IF Short(seen) THEN answer \in ErrorNumbers \cup {Reached(seen)}
                                    ELSE answer \in NothingThere

\* A short walk that fails does so for what its pathname names.
ShortInv ==
  /\ pc = "failed" => ToError(error) \in Expected(op, Reached(seen))
  /\ pc = "reply" => answer \in Expected(op, Reached(seen))

LookupInv ==
  /\ TypeOK
  /\ WalkInv
  /\ RightInv
  /\ pc # "idle" /\ Short(seen) => ShortInv

-----------------------------------------------------------------------------
(* The cursor *)

LEMMA NatMin ==
  ASSUME NEW T, T \subseteq Nat, T # {}
  PROVE  \E x \in T : \A y \in T : ~(y < x)
<1> DEFINE R == OpToRel(<, Nat)
<1>1. IsWellFoundedOn(R, Nat)
  BY NatLessThanWellFounded, Zenon
<1>2. \A x, y \in Nat : y < x => <<y, x>> \in R
  BY DEF OpToRel
<1> HIDE DEF R
<1>3. PICK x \in T : \A y \in T : ~ (<<y, x>> \in R)
  BY <1>1, WFMin
<1>4. x \in Nat /\ \A y \in T : y \in Nat
  OBVIOUS
<1>5. QED
  BY <1>2, <1>3, <1>4

LEMMA EntriesOfPlaces ==
  ASSUME NEW k \in Directories, NEW p \in ActivePlaces(k)
  PROVE  EntryAt(k, p) \in Entries
<1>1. p[1] \in 1 .. Len(Slots[k]) /\ p[2] \in SlotNumbers
  BY DEF ActivePlaces, Places
<1>2. Slots[k] \in Seq([SlotNumbers -> Entries \cup {Inactive}])
  BY LayoutAssumption DEF LayoutAssumption
<1>3. Slots[k][p[1]] \in [SlotNumbers -> Entries \cup {Inactive}]
  BY <1>1, <1>2, ElementOfSeq
<1>4. QED
  BY <1>1, <1>3 DEF EntryAt, ActivePlaces

\* Before the end there is a first active entry ahead.
LEMMA FirstAheadExists ==
  ASSUME NEW c, Counting(c), ~AtEnd(c)
  PROVE  /\ Ahead(c) # {}
         /\ FirstAhead(c) \in Ahead(c)
         /\ \A q \in Ahead(c) : ~Before(q, FirstAhead(c))
<1>1. c.key \in Directories /\ Standing(c)
  BY DEF Counting, Standing, Cursors
<1>2. Ahead(c) = ActivePlaces(c.key) \ Passed(c)
  BY <1>1, AheadFacts
<1>3. Ahead(c) # {}
  <2>1. SUFFICES ASSUME Ahead(c) = {} PROVE FALSE
    OBVIOUS
  <2>2. Passed(c) = ActivePlaces(c.key)
    BY <1>2, <2>1 DEF Passed
  <2>3. c.count = FileCount[c.key]
    BY <1>1, <2>2, SlotsType DEF Counting
  <2>4. QED
    BY <2>3 DEF AtEnd
<1>4. \A p \in Ahead(c) : p[1] \in Nat /\ p[2] \in Nat
  <2>1. Len(Slots[c.key]) \in Nat /\ ENTRIES_PER_BLOCK \in Nat
    BY <1>1, SlotsType, EntriesAssumption DEF EntriesAssumption
  <2>2. \A p \in Ahead(c) : p[1] \in 1 .. Len(Slots[c.key]) /\ p[2] \in 0 .. ENTRIES_PER_BLOCK
    BY <1>2 DEF ActivePlaces, Places, SlotNumbers
  <2>3. QED
    BY <2>1, <2>2
<1>5. PICK b \in {p[1] : p \in Ahead(c)} : \A y \in {p[1] : p \in Ahead(c)} : ~(y < b)
  <2>1. {p[1] : p \in Ahead(c)} \subseteq Nat /\ {p[1] : p \in Ahead(c)} # {}
    BY <1>3, <1>4
  <2>2. QED
    BY <2>1, NatMin
<1> DEFINE InBlock == {p \in Ahead(c) : p[1] = b}
<1>6. PICK s \in {p[2] : p \in InBlock} : \A y \in {p[2] : p \in InBlock} : ~(y < s)
  <2>1. {p[2] : p \in InBlock} \subseteq Nat /\ {p[2] : p \in InBlock} # {}
    BY <1>4, <1>5
  <2>2. QED
    BY <2>1, NatMin
<1>7. PICK f \in Ahead(c) : f[1] = b /\ f[2] = s
  BY <1>6
<1>8. \A q \in Ahead(c) : ~Before(q, f)
  BY <1>5, <1>6, <1>7 DEF Before
<1>9. QED
  BY <1>3, <1>8 DEF FirstAhead

\* NextEntry passes over the inactive slots and takes the first active entry.
LEMMA NextEntryTakes ==
  ASSUME NEW c, Counting(c), ~AtEnd(c)
  PROVE  LET stop == At(c, FirstAhead(c)) IN
         /\ ~NoMoreBlocks(stop)
         /\ Place(stop) = FirstAhead(c) /\ Place(stop) \in ActivePlaces(c.key)
         /\ Counting(Taken(stop)) /\ Taken(stop).key = c.key
         /\ Passed(Taken(stop)) = Passed(c) \cup {Place(stop)}
<1> DEFINE f == FirstAhead(c)
           stop == At(c, f)
<1>1. /\ c \in Cursors /\ c.key \in Directories /\ Standing(c)
      /\ f \in Ahead(c) /\ f \in ActivePlaces(c.key)
      /\ \A q \in Ahead(c) : ~Before(q, f)
  BY FirstAheadExists, AheadFacts DEF Counting, Standing, Cursors
<1>2. f = <<f[1], f[2]>> /\ f[1] \in 1 .. Len(Slots[c.key]) /\ f[2] \in SlotNumbers /\ f # <<1, 0>>
  BY <1>1 DEF ActivePlaces, Places
<1> HIDE DEF f
<1>3. stop.key = c.key /\ stop.block = f[1] /\ stop.slot = f[2] /\ stop.count = c.count
  BY <1>1 DEF At, Cursors
<1>4. stop \in Cursors
  <2>1. f[1] \in Nat \ {0} /\ f[2] \in SlotNumbers
    BY <1>1, <1>2, SlotsType
  <2>2. QED
    BY <1>1, <2>1 DEF At, Cursors
<1>5. Standing(stop) /\ Place(stop) = f
  BY <1>2, <1>3, <1>4 DEF Standing, Place
<1>6. Passed(stop) = Passed(c)
  <2>1. ASSUME NEW p \in ActivePlaces(c.key) PROVE Before(p, f) <=> Before(p, Place(c))
    <3>1. Before(p, f) => Before(p, Place(c))
      BY <1>1 DEF Ahead
    <3>2. Before(p, Place(c)) => Before(p, f)
      BY <1>1, AheadFacts DEF Passed
    <3>3. QED
      BY <3>1, <3>2
  <2>2. QED
    BY <1>3, <1>5, <2>1 DEF Passed
<1>7. Counting(stop) /\ ~AtEnd(stop)
  BY <1>3, <1>5, <1>6 DEF Counting, AtEnd
<1>8. ~NoMoreBlocks(stop)
  BY <1>7, BlocksSuffice
<1>9. EntryAt(stop.key, Place(stop)) # Inactive
  BY <1>1, <1>3, <1>5 DEF ActivePlaces
<1>10. /\ Counting(Taken(stop)) /\ Taken(stop).key = stop.key
       /\ Passed(Taken(stop)) = Passed(stop) \cup {Place(stop)}
  BY <1>7, <1>8, <1>9, TakeCounts
<1>11. QED
  BY <1>1, <1>3, <1>5, <1>6, <1>8, <1>10 DEF f

-----------------------------------------------------------------------------
(* Pathnames *)

\* What S_ProdosFilename makes of a pathname: a shorter one, and its last extension gone.
LEMMA ErasedFacts ==
  ASSUME NEW p \in Seq(Components), ExtensionMode, Typed(p) # {}
  PROVE  \E last \in Typed(p) :
           LET left == [i \in 1 .. last |->
                         IF i = last THEN [p[i] EXCEPT !.type = NULL] ELSE p[i]]
           IN  /\ \A j \in Typed(p) : j <= last
               /\ ProdosFilename(p) = IF left = <<Nameless>> THEN <<>> ELSE left
<1>1. Len(p) \in Nat
  BY LenProperties
<1> DEFINE T == {Len(p) - i : i \in Typed(p)}
<1>2. T \subseteq Nat /\ T # {}
  BY <1>1 DEF Typed
<1>3. PICK d \in T : \A e \in T : ~(e < d)
  BY <1>2, NatMin
<1>4. PICK i \in Typed(p) : d = Len(p) - i
  BY <1>3
<1>5. \A j \in Typed(p) : j <= i
  <2>1. ASSUME NEW j \in Typed(p) PROVE j <= i
    <3>1. Len(p) - j \in T
      OBVIOUS
    <3>2. ~(Len(p) - j < Len(p) - i)
      BY <1>3, <1>4, <3>1
    <3>3. i \in Int /\ j \in Int
      BY DEF Typed
    <3>4. QED
      BY <1>1, <3>2, <3>3
  <2>2. QED
    BY <2>1
<1> DEFINE last == CHOOSE i_1 \in Typed(p) : \A j \in Typed(p) : j <= i_1
<1>6. last \in Typed(p) /\ \A j \in Typed(p) : j <= last
  BY <1>5
<1>7. QED
  BY <1>6 DEF ProdosFilename

LEMMA FilenameFacts ==
  ASSUME NEW o, NEW p \in Paths
  PROVE  /\ p \in Seq(Components) /\ Len(p) \in Nat
         /\ Filename(o, p) \in Seq(Components) /\ Len(Filename(o, p)) \in Nat
<1>1. p \in Seq(Components) /\ Len(p) \in Nat
  BY PathsAssumption, LenProperties DEF PathsAssumption
<1>2. \A i \in 1 .. Len(p) : p[i] \in Components
  BY <1>1, ElementOfSeq
<1>3. ProdosFilename(p) \in Seq(Components)
  <2>1. CASE ~(ExtensionMode /\ Typed(p) # {})
    BY <1>1, <2>1 DEF ProdosFilename
  <2>2. CASE ExtensionMode /\ Typed(p) # {}
    <3>1. PICK last \in Typed(p) :
            LET left == [i \in 1 .. last |->
                          IF i = last THEN [p[i] EXCEPT !.type = NULL] ELSE p[i]]
            IN  ProdosFilename(p) = IF left = <<Nameless>> THEN <<>> ELSE left
      BY <1>1, <2>2, ErasedFacts
    <3> DEFINE left == [i \in 1 .. last |->
                         IF i = last THEN [p[i] EXCEPT !.type = NULL] ELSE p[i]]
    <3>2. last \in 1 .. Len(p)
      BY DEF Typed
    <3>3. \A i \in 1 .. last : left[i] \in Components
      BY <1>1, <1>2, <3>2 DEF Components
    <3>4. left \in Seq(Components)
      BY <1>1, <3>2, <3>3
    <3> HIDE DEF left
    <3>5. <<>> \in Seq(Components)
      BY EmptySeq
    <3>6. QED
      BY <3>1, <3>4, <3>5 DEF left
  <2>3. QED
    BY <2>1, <2>2
<1>4. QED
  BY <1>1, <1>3, LenProperties DEF Filename

LEMMA SplitPathType ==
  ASSUME NEW p \in Seq(Components)
  PROVE  /\ SplitPath(p) \in Seq(Components \cup {Garbled})
         /\ Len(SplitPath(p)) = Len(p) /\ Len(p) \in Nat
         /\ Len(p) <= 2 => \A i \in 1 .. Len(p) : SplitPath(p)[i] = p[i]
<1>1. Len(p) \in Nat /\ \A i \in 1 .. Len(p) : p[i] \in Components
  BY LenProperties, ElementOfSeq
<1>2. SplitPath(p) \in [1 .. Len(p) -> Components \cup {Garbled}]
  BY <1>1 DEF SplitPath
<1>3. SplitPath(p) \in Seq(Components \cup {Garbled}) /\ Len(SplitPath(p)) = Len(p)
  BY <1>1, <1>2
<1>4. ASSUME Len(p) <= 2, NEW i \in 1 .. Len(p) PROVE SplitPath(p)[i] = p[i]
  <2>1. i \in {1, Len(p)}
    BY <1>1, <1>4
  <2>2. QED
    BY <2>1 DEF SplitPath
<1>5. QED
  BY <1>1, <1>3, <1>4

\* In a short pathname GetEntry sees the components.
LEMMA ComponentSeen ==
  ASSUME NEW p \in Seq(Components), Short(p), NEW i \in 1 .. Len(p), NEW e
  PROVE  NameMatches(e, SplitPath(p)[i]) <=> p[i].type = NULL /\ Fold[e.name] = Fold[p[i].name]
<1>1. SplitPath(p)[i] = p[i]
  BY SplitPathType DEF Short
<1>2. p[i] \in Components /\ p[i] # Garbled
  BY ElementOfSeq, PathsAssumption DEF PathsAssumption
<1>3. QED
  BY <1>1, <1>2 DEF NameMatches

\* In every pathname, a component that matches is the first, or the second and last.
LEMMA NameSeen ==
  ASSUME NEW p \in Seq(Components), NEW i \in {1, 2}, i <= Len(p), NEW e,
         NameMatches(e, SplitPath(p)[i])
  PROVE  /\ i = 1 \/ Len(p) = 2
         /\ p[i].type = NULL /\ Fold[e.name] = Fold[p[i].name]
<1>1. Len(p) \in Nat /\ i \in 1 .. Len(p)
  BY LenProperties
<1>2. SplitPath(p)[i] = IF i \in {1, Len(p)} THEN p[i] ELSE Garbled
  BY <1>1 DEF SplitPath
<1>3. QED
  BY <1>1, <1>2 DEF NameMatches

-----------------------------------------------------------------------------
(* What a pathname names *)

\* Names are unique in a directory.
LEMMA NamedFacts ==
  ASSUME NEW k \in Directories, NEW n
  PROVE  /\ \A q \in ActivePlaces(k) :
              Fold[EntryAt(k, q).name] = Fold[n] => Named(k, n) = EntryAt(k, q)
         /\ (\A q \in ActivePlaces(k) : Fold[EntryAt(k, q).name] # Fold[n])
              => Named(k, n) = NULL
<1>1. ASSUME NEW q \in ActivePlaces(k), Fold[EntryAt(k, q).name] = Fold[n]
      PROVE  Named(k, n) = EntryAt(k, q)
  <2>1. \A p \in ActivePlaces(k) : Fold[EntryAt(k, p).name] = Fold[n] => p = q
    BY <1>1, NamesAssumption DEF NamesAssumption
  <2>2. (CHOOSE p \in ActivePlaces(k) : Fold[EntryAt(k, p).name] = Fold[n]) = q
    BY <1>1, <2>1
  <2>3. QED
    BY <1>1, <2>2 DEF Named
<1>2. QED
  BY <1>1 DEF Named

\* What the recursive function of Resolve gives for at most two components.
LEMMA ResolveShort ==
  ASSUME NEW p \in Seq(Components), Len(p) <= 2
  PROVE  /\ Len(p) = 0 => Resolve(p) = RootEntry
         /\ Len(p) = 1 => Resolve(p) = Below(RootEntry, p[1])
         /\ Len(p) = 2 => Resolve(p) = Below(Below(RootEntry, p[1]), p[2])
<1> DEFINE D(g) == [i \in 0 .. Len(p) |-> IF i = 0 THEN RootEntry ELSE Below(g[i - 1], p[i])]
           to == CHOOSE g : g = D(g)
           f == [i \in 0 .. Len(p) |->
                  IF i = 0 THEN RootEntry
                  ELSE IF i = 1 THEN Below(RootEntry, p[1])
                  ELSE Below(Below(RootEntry, p[1]), p[2])]
<1>1. Len(p) \in {0, 1, 2}
  <2>1. Len(p) \in Nat
    BY LenProperties
  <2>2. \A n \in Nat : n <= 2 => n \in {0, 1, 2}
    OBVIOUS
  <2>3. QED
    BY <2>1, <2>2, Zenon
<1>2. Resolve(p) = to[Len(p)]
  BY Zenon DEF Resolve
<1>3. f = D(f)
  <2>1. ASSUME NEW i \in 0 .. Len(p) PROVE f[i] = D(f)[i]
    <3>1. CASE i = 0
      BY <3>1
    <3>2. CASE i = 1
      <4>1. 0 \in 0 .. Len(p) /\ f[0] = RootEntry
        BY <1>1
      <4>2. D(f)[1] = Below(f[1 - 1], p[1]) /\ f[1] = Below(RootEntry, p[1])
        BY <3>2
      <4>3. QED
        BY <3>2, <4>1, <4>2
    <3>3. CASE i = 2
      <4>1. 1 \in 0 .. Len(p) /\ f[1] = Below(RootEntry, p[1])
        BY <1>1, <3>3
      <4>2. D(f)[2] = Below(f[2 - 1], p[2]) /\ f[2] = Below(Below(RootEntry, p[1]), p[2])
        BY <3>3
      <4>3. QED
        BY <3>3, <4>1, <4>2
    <3>4. QED
      BY <1>1, <3>1, <3>2, <3>3
  <2>2. QED
    BY <2>1
<1>4. to = D(to)
  BY <1>3, Zenon
<1> HIDE DEF to, f
<1>5. \A i \in 0 .. Len(p) : to[i] = IF i = 0 THEN RootEntry ELSE Below(to[i - 1], p[i])
  BY <1>4
<1>6. to[0] = RootEntry
  BY <1>1, <1>5
<1>7. Len(p) >= 1 => to[1] = Below(RootEntry, p[1])
  BY <1>1, <1>5, <1>6
<1>8. Len(p) = 2 => to[2] = Below(Below(RootEntry, p[1]), p[2])
  BY <1>1, <1>5, <1>7
<1>9. /\ Len(p) = 0 => Resolve(p) = to[0]
      /\ Len(p) = 1 => Resolve(p) = to[1]
      /\ Len(p) = 2 => Resolve(p) = to[2]
  BY <1>2, Zenon
<1>10. QED
  BY <1>6, <1>7, <1>8, <1>9

-----------------------------------------------------------------------------
(* The walk *)

LEMMA Walking ==
  ASSUME LookupInv, pc \in {"next", "match"}
  PROVE  /\ seen # <<>> /\ seen \in Seq(Components) /\ Len(seen) \in Nat
         /\ path = SplitPath(seen) /\ Len(path) = Len(seen)
         /\ itr \in 1 .. Len(seen)
         /\ Counting(cursor) /\ cursor.key \in Directories
<1>1. /\ asked \in Paths /\ seen # <<>>
      /\ path = SplitPath(seen) /\ Counting(cursor)
      /\ itr \in 1 .. Len(path)
  BY DEF LookupInv, WalkInv, TypeOK
<1>2. seen \in Seq(Components) /\ Len(seen) \in Nat
  BY <1>1, FilenameFacts DEF seen
<1>3. Len(path) = Len(seen)
  BY <1>1, <1>2, SplitPathType
<1>4. cursor.key \in Directories
  BY <1>1 DEF Counting, Standing, Cursors
<1>5. QED
  BY <1>1, <1>2, <1>3, <1>4

LEMMA ShortWalk ==
  ASSUME LookupInv, pc \in {"next", "match"}, Short(seen)
  PROVE  /\ itr \in {1, 2} /\ Above # NULL /\ Above.kind \in {"root", "directory"}
         /\ Above.key = cursor.key
         /\ \A e : NameMatches(e, path[itr])
                     <=> seen[itr].type = NULL /\ Fold[e.name] = Fold[seen[itr].name]
         /\ itr = Len(seen) => Reached(seen) = Under(Above, seen[itr])
         /\ itr < Len(seen) =>
              /\ itr = 1 /\ Len(seen) = 2
              /\ Reached(seen) = Under(Under(Above, seen[itr]), seen[2])
<1>1. /\ seen \in Seq(Components) /\ Len(seen) \in Nat
      /\ path = SplitPath(seen) /\ itr \in 1 .. Len(seen)
  BY Walking
<1>2. /\ itr \in {1, 2} /\ Above # NULL /\ Above.kind \in {"root", "directory"}
      /\ Above.key = cursor.key
  BY DEF LookupInv, RightInv
<1>3. \A e : NameMatches(e, path[itr])
               <=> seen[itr].type = NULL /\ Fold[e.name] = Fold[seen[itr].name]
  BY <1>1, ComponentSeen
<1>4. \A n \in Nat : n <= 2 /\ itr \in 1 .. n =>
        \/ itr = 1 /\ n = 1
        \/ itr = 1 /\ n = 2
        \/ itr = 2 /\ n = 2
  BY <1>2
<1>5. \/ itr = 1 /\ Len(seen) = 1
      \/ itr = 1 /\ Len(seen) = 2
      \/ itr = 2 /\ Len(seen) = 2
  BY <1>1, <1>4 DEF Short
<1>6. itr = Len(seen) => Reached(seen) = Under(Above, seen[itr])
  BY <1>5 DEF Above, Reached
<1>7. itr < Len(seen) =>
        /\ itr = 1 /\ Len(seen) = 2
        /\ Reached(seen) = Under(Under(Above, seen[itr]), seen[2])
  <2>1. CASE itr = 1 /\ Len(seen) = 2
    BY <2>1 DEF Above, Reached
  <2>2. CASE itr = Len(seen)
    BY <1>1, <2>2
  <2>3. QED
    BY <1>5, <2>1, <2>2
<1>8. QED
  BY <1>2, <1>3, <1>6, <1>7

\* An entry that matches is where the component leads.
LEMMA Matched ==
  ASSUME LookupInv, pc = "match", NameMatches(entry, path[itr])
  PROVE  /\ Under(Above, seen[itr]) = entry
         /\ itr \in {1, 2} /\ (itr = 1 \/ Len(seen) = 2)
<1>1. /\ itr \in {1, 2}
      /\ Above # NULL /\ Above.kind \in {"root", "directory"} /\ Above.key = cursor.key
  BY DEF LookupInv, RightInv
<1>2. /\ cursor.key \in Directories
      /\ itr = 1 \/ Len(seen) = 2
      /\ seen[itr].type = NULL /\ Fold[entry.name] = Fold[seen[itr].name]
  <2>1. /\ cursor.key \in Directories /\ seen \in Seq(Components) /\ itr <= Len(seen)
        /\ path = SplitPath(seen)
    BY Walking
  <2>2. QED
    BY <1>1, <2>1, NameSeen
<1>3. PICK q \in ActivePlaces(cursor.key) : entry = EntryAt(cursor.key, q)
  BY DEF LookupInv, WalkInv
<1>4. Named(cursor.key, seen[itr].name) = entry
  BY <1>1, <1>2, <1>3, NamedFacts
<1>5. QED
  BY <1>1, <1>2, <1>4 DEF Under

\* At the end of a directory nothing in it has matched.
LEMMA NoneMatched ==
  ASSUME LookupInv, pc = "next", Short(seen), AtEnd(cursor)
  PROVE  Reached(seen) = NULL
<1>1. /\ Above # NULL /\ Above.kind \in {"root", "directory"} /\ Above.key = cursor.key
      /\ \A e : NameMatches(e, path[itr])
                  <=> seen[itr].type = NULL /\ Fold[e.name] = Fold[seen[itr].name]
      /\ itr = Len(seen) => Reached(seen) = Under(Above, seen[itr])
      /\ itr < Len(seen) => Reached(seen) = Under(Under(Above, seen[itr]), seen[2])
  BY ShortWalk
<1>2. cursor.key \in Directories /\ itr \in 1 .. Len(seen) /\ Len(seen) \in Nat
  BY Walking
<1>3. Passed(cursor) = ActivePlaces(cursor.key)
  BY Walking, AtEndPassedAll
<1>4. \A q \in ActivePlaces(cursor.key) : ~NameMatches(EntryAt(cursor.key, q), path[itr])
  BY <1>3 DEF LookupInv, WalkInv, Matches
<1>5. Under(Above, seen[itr]) = NULL
  <2>1. CASE seen[itr].type = NULL
    <3>1. \A q \in ActivePlaces(cursor.key) :
            Fold[EntryAt(cursor.key, q).name] # Fold[seen[itr].name]
      BY <1>1, <1>4, <2>1
    <3>2. Named(cursor.key, seen[itr].name) = NULL
      BY <1>2, <3>1, NamedFacts
    <3>3. QED
      BY <1>1, <3>2 DEF Under
  <2>2. CASE seen[itr].type # NULL
    BY <2>2 DEF Under
  <2>3. QED
    BY <2>1, <2>2
<1>6. Under(NULL, seen[2]) = NULL
  BY DEF Under
<1>7. itr = Len(seen) \/ itr < Len(seen)
  BY <1>2
<1>8. QED
  BY <1>1, <1>5, <1>6, <1>7

LEMMA CallStep ==
  ASSUME LookupInv, ~terminated, NEW o \in Ops, NEW p \in Paths, Call(o, p)
  PROVE  LookupInv'
<1>1. /\ pc = "idle" /\ op' = o /\ asked' = p /\ seen' = Filename(o, p)
      /\ UNCHANGED <<error, answer, terminated>>
  BY DEF Call, seen
<1> DEFINE q == Filename(o, p)
<1>2. q \in Seq(Components) /\ Len(q) \in Nat
  BY FilenameFacts
<1>3. CASE q = <<>>
  <2>1. pc' = "found" /\ entry' = RootEntry /\ UNCHANGED <<path, itr, cursor>>
    BY <1>3 DEF Call
  <2>2. TypeOK'
    BY <1>1, <2>1 DEF LookupInv, TypeOK
  <2>3. WalkInv'
    BY <1>1, <2>1 DEF WalkInv
  <2>4. Len(q) = 0
    BY <1>2, <1>3, EmptySeq
  <2>5. Reached(q) = RootEntry /\ Short(q)
    BY <2>4 DEF Reached, Short
  <2>6. RightInv' /\ ShortInv'
    BY <1>1, <2>1, <2>5 DEF RightInv, ShortInv
  <2>7. QED
    BY <2>2, <2>3, <2>6 DEF LookupInv
<1>4. CASE q # <<>>
  <2>1. /\ pc' = "next" /\ path' = SplitPath(q) /\ itr' = 1
        /\ cursor' = OpenCursor(Root) /\ entry' = entry
    BY <1>4 DEF Call
  <2>2. /\ Counting(OpenCursor(Root)) /\ OpenCursor(Root).key = Root
        /\ Passed(OpenCursor(Root)) = {} /\ OpenCursor(Root) \in Cursors
    BY OpenCounts, VolumeAssumption DEF VolumeAssumption, Counting, Standing
  <2>3. /\ path' \in Seq(Components \cup {Garbled}) /\ Len(path') = Len(q)
        /\ Len(q) # 0
    BY <1>2, <1>4, <2>1, SplitPathType, EmptySeq
  <2>4. itr' \in Nat /\ itr' \in 1 .. Len(path')
    BY <1>2, <2>1, <2>3
  <2>5. TypeOK'
    BY <1>1, <2>1, <2>2, <2>3, <2>4 DEF LookupInv, TypeOK
  <2>6. WalkInv'
    BY <1>1, <1>4, <2>1, <2>2 DEF WalkInv
  <2>7. RightInv' /\ ShortInv'
    <3>1. Above' = RootEntry
      BY <2>1 DEF Above
    <3>2. RootEntry # NULL /\ RootEntry.kind = "root" /\ RootEntry.key = Root
      BY VolumeAssumption DEF VolumeAssumption, RootEntry
    <3>3. QED
      BY <2>1, <2>2, <3>1, <3>2 DEF RightInv, ShortInv
  <2>8. QED
    BY <2>5, <2>6, <2>7 DEF LookupInv
<1>5. QED
  BY <1>3, <1>4

LEMMA NextEntryStep ==
  ASSUME LookupInv, ~terminated, NextEntry
  PROVE  LookupInv'
<1> DEFINE stop == At(cursor, FirstAhead(cursor))
<1>1. /\ pc = "next" /\ ~AtEnd(cursor)
      /\ UNCHANGED <<op, asked, path, itr, error, answer, seen>>
      /\ \/ (Ahead(cursor) = {} \/ NoMoreBlocks(stop)) /\ terminated'
         \/ /\ entry' = EntryAt(cursor.key, Place(stop))
            /\ cursor' = Taken(stop) /\ pc' = "match" /\ terminated' = terminated
  BY DEF NextEntry, seen
<1>2. /\ Counting(cursor) /\ cursor.key \in Directories
      /\ ~NoMoreBlocks(stop) /\ Ahead(cursor) # {}
      /\ Place(stop) \in ActivePlaces(cursor.key)
      /\ Counting(Taken(stop)) /\ Taken(stop).key = cursor.key
      /\ Passed(Taken(stop)) = Passed(cursor) \cup {Place(stop)}
  BY <1>1, Walking, NextEntryTakes, FirstAheadExists
<1> HIDE DEF stop
<1>3. /\ entry' = EntryAt(cursor.key, Place(stop)) /\ cursor' = Taken(stop) /\ pc' = "match"
      /\ terminated' = terminated
  BY <1>1, <1>2
<1>4. entry' \in Entries /\ cursor' \in Cursors /\ cursor'.key = cursor.key
  BY <1>2, <1>3, EntriesOfPlaces DEF Counting, Standing
<1>5. TypeOK'
  BY <1>1, <1>3, <1>4 DEF LookupInv, TypeOK
<1>6. WalkInv'
  <2>1. \A p \in Passed(cursor) : ~Matches(cursor.key, p, path[itr])
    BY <1>1 DEF LookupInv, WalkInv
  <2>2. \A p \in Passed(cursor') \ {Place(stop)} : ~Matches(cursor'.key, p, path'[itr'])
    BY <1>1, <1>2, <1>3, <1>4, <2>1
  <2>3. \E q \in ActivePlaces(cursor'.key) :
          /\ entry' = EntryAt(cursor'.key, q)
          /\ \A p \in Passed(cursor') \ {q} : ~Matches(cursor'.key, p, path'[itr'])
    BY <1>2, <1>3, <1>4, <2>2
  <2>4. op \in Ops /\ asked \in Paths /\ seen # <<>> /\ path = SplitPath(seen)
    BY <1>1 DEF LookupInv, WalkInv
  <2>5. pc' = "match" /\ Counting(cursor') /\ ~terminated'
    BY <1>2, <1>3
  <2>6. QED
    BY <1>1, <2>3, <2>4, <2>5 DEF WalkInv
<1>7. RightInv' /\ ShortInv'
  <2>1. Above' = Above
    BY <1>1 DEF Above
  <2>2. QED
    BY <1>1, <1>3, <1>4, <2>1 DEF LookupInv, RightInv, ShortInv
<1>8. QED
  BY <1>5, <1>6, <1>7 DEF LookupInv

\* The errors that a path which names nothing may have.
LEMMA NothingNamed ==
  ASSUME NEW o, NEW e, e \in {"file_not_found", "directory_not_found"}
  PROVE  ToError(e) \in Expected(o, NULL)
BY DEF ToError, Expected

LEMMA NoMoreEntriesStep ==
  ASSUME LookupInv, ~terminated, NoMoreEntries
  PROVE  LookupInv'
<1>1. /\ pc = "next" /\ AtEnd(cursor) /\ error' = "file_not_found" /\ pc' = "failed"
      /\ UNCHANGED <<op, asked, path, itr, cursor, entry, answer, terminated, seen>>
  BY DEF NoMoreEntries, ErrorAtEndOfWalk, seen
<1>2. TypeOK'
  BY <1>1 DEF LookupInv, TypeOK, Errors
<1>3. WalkInv'
  BY <1>1 DEF LookupInv, WalkInv
<1>4. RightInv'
  BY <1>1 DEF RightInv, NothingThere, ToError
<1>5. ASSUME Short(seen)' PROVE ShortInv'
  <2>1. Short(seen)
    BY <1>1, <1>5
  <2>2. ToError(error') \in Expected(op', Reached(seen'))
    BY <1>1, <2>1, NoneMatched, NothingNamed
  <2>3. QED
    BY <1>1, <2>2 DEF ShortInv
<1>6. QED
  BY <1>2, <1>3, <1>4, <1>5 DEF LookupInv

LEMMA OtherNameStep ==
  ASSUME LookupInv, ~terminated, OtherName
  PROVE  LookupInv'
<1>1. /\ pc = "match" /\ ~NameMatches(entry, path[itr]) /\ pc' = "next"
      /\ UNCHANGED <<op, asked, path, itr, cursor, entry, error, answer, terminated, seen>>
  BY DEF OtherName, seen
<1>2. TypeOK'
  BY <1>1 DEF LookupInv, TypeOK
<1>3. WalkInv'
  <2>1. PICK q \in ActivePlaces(cursor.key) :
          /\ entry = EntryAt(cursor.key, q)
          /\ \A p \in Passed(cursor) \ {q} : ~Matches(cursor.key, p, path[itr])
    BY <1>1 DEF LookupInv, WalkInv
  <2>2. \A p \in Passed(cursor) : ~Matches(cursor.key, p, path[itr])
    BY <1>1, <2>1 DEF Matches
  <2>3. QED
    BY <1>1, <2>2 DEF LookupInv, WalkInv
<1>4. RightInv' /\ ShortInv'
  BY <1>1 DEF LookupInv, RightInv, ShortInv, Above
<1>5. QED
  BY <1>2, <1>3, <1>4 DEF LookupInv

LEMMA EntryInHand ==
  ASSUME LookupInv, pc = "match"
  PROVE  /\ entry \in Entries /\ entry # NULL
         /\ entry.kind \in Kinds
         /\ entry.kind = "directory" => entry.key \in Directories
<1>1. PICK q \in ActivePlaces(cursor.key) : entry = EntryAt(cursor.key, q)
  BY DEF LookupInv, WalkInv
<1>2. entry \in Entries
  BY <1>1, Walking, EntriesOfPlaces
<1>3. QED
  BY <1>2, VolumeAssumption DEF VolumeAssumption, EntryType

LEMMA LastNameStep ==
  ASSUME LookupInv, ~terminated, LastName
  PROVE  LookupInv'
<1>1. /\ pc = "match" /\ NameMatches(entry, path[itr]) /\ itr = Len(path) /\ pc' = "found"
      /\ UNCHANGED <<op, asked, path, itr, cursor, entry, error, answer, terminated, seen>>
  BY DEF LastName, seen
<1>2. TypeOK'
  BY <1>1 DEF LookupInv, TypeOK
<1>3. WalkInv'
  BY <1>1, EntryInHand DEF LookupInv, WalkInv
<1>4. RightInv' /\ ShortInv'
  <2>1. itr = Len(seen)
    BY <1>1, Walking
  <2>2. Under(Above, seen[itr]) = entry /\ (itr = 1 \/ itr = 2)
    BY <1>1, Matched
  <2>3. Short(seen)
    BY <2>1, <2>2 DEF Short
  <2>4. entry = Reached(seen)
    BY <2>1, <2>2, <2>3 DEF Above, Reached
  <2>5. QED
    BY <1>1, <2>3, <2>4 DEF RightInv, ShortInv
<1>5. QED
  BY <1>2, <1>3, <1>4 DEF LookupInv

LEMMA NotADirectoryStep ==
  ASSUME LookupInv, ~terminated, NotADirectory
  PROVE  LookupInv'
<1>1. /\ pc = "match" /\ NameMatches(entry, path[itr]) /\ itr < Len(path)
      /\ entry.kind # "directory" /\ error' = "directory_not_found" /\ pc' = "failed"
      /\ UNCHANGED <<op, asked, path, itr, cursor, entry, answer, terminated, seen>>
  BY DEF NotADirectory, seen
<1>2. TypeOK'
  BY <1>1 DEF LookupInv, TypeOK, Errors
<1>3. WalkInv'
  BY <1>1 DEF LookupInv, WalkInv
<1>4. RightInv'
  BY <1>1 DEF RightInv, NothingThere, ToError
<1>5. ASSUME Short(seen)' PROVE ShortInv'
  <2>1. Short(seen)
    BY <1>1, <1>5
  <2>2. itr < Len(seen)
    BY <1>1, Walking
  <2>3. Reached(seen) = Under(entry, seen[2])
    BY <1>1, <2>1, <2>2, ShortWalk, Matched
  <2>4. Reached(seen) = NULL
    BY <1>1, <2>3, EntryInHand DEF Under, Kinds
  <2>5. ToError(error') \in Expected(op', Reached(seen'))
    BY <1>1, <2>4, NothingNamed
  <2>6. QED
    BY <1>1, <2>5 DEF ShortInv
<1>6. QED
  BY <1>2, <1>3, <1>4, <1>5 DEF LookupInv

LEMMA DescendStep ==
  ASSUME LookupInv, ~terminated, Descend
  PROVE  LookupInv'
<1>1. /\ pc = "match" /\ NameMatches(entry, path[itr]) /\ itr < Len(path)
      /\ entry.kind = "directory" /\ itr' = itr + 1 /\ cursor' = OpenCursor(entry.key)
      /\ pc' = "next"
      /\ UNCHANGED <<op, asked, path, entry, error, answer, terminated, seen>>
  BY DEF Descend, Descended, seen
<1>2. entry \in Entries /\ entry # NULL /\ entry.key \in Directories
  BY <1>1, EntryInHand
<1>3. /\ Counting(cursor') /\ cursor'.key = entry.key /\ Passed(cursor') = {}
      /\ cursor' \in Cursors
  BY <1>1, <1>2, OpenCounts DEF Counting, Standing
<1>4. itr' \in Nat /\ itr' \in 1 .. Len(path')
  BY <1>1, Walking
<1>5. TypeOK'
  BY <1>1, <1>3, <1>4 DEF LookupInv, TypeOK
<1>6. WalkInv'
  BY <1>1, <1>3 DEF LookupInv, WalkInv
<1>7. RightInv' /\ ShortInv'
  <2>1. itr < Len(seen)
    BY <1>1, Walking
  <2>2. /\ Under(Above, seen[itr]) = entry
        /\ itr \in {1, 2} /\ (itr = 1 \/ Len(seen) = 2)
    BY <1>1, Matched
  <2>3. itr = 1
    <3>1. ~(2 < 2)
      OBVIOUS
    <3>2. QED
      BY <2>1, <2>2, <3>1, Zenon
  <2>4. itr' = 2 /\ Above' = entry
    BY <1>1, <2>2, <2>3 DEF Above
  <2>5. QED
    BY <1>1, <1>2, <1>3, <2>4 DEF RightInv, ShortInv
<1>8. QED
  BY <1>5, <1>6, <1>7 DEF LookupInv

-----------------------------------------------------------------------------
(* The answers *)

\* What the callbacks serve is what the pathname's entry should be answered with.
LEMMA ServedExpected ==
  ASSUME LookupInv, pc = "found"
  PROVE  /\ op \in Ops
         /\ entry \in Entries \cup {RootEntry} /\ entry # NULL
         /\ entry.kind \in Kinds \cup {"root"}
         /\ Served => entry \in Expected(op, entry)
         /\ ~Served /\ op = "open" => [errno |-> "EIO"] \in Expected(op, entry)
         /\ ~Served /\ op = "opendir" => [errno |-> "ENOTDIR"] \in Expected(op, entry)
         /\ ~Served /\ op \notin {"open", "opendir"} => entry.kind = "other"
<1>1. op \in Ops /\ entry \in Entries \cup {RootEntry}
  BY DEF LookupInv, WalkInv
<1>2. entry # NULL /\ entry.kind \in Kinds \cup {"root"}
  BY <1>1, VolumeAssumption DEF VolumeAssumption, EntryType, RootEntry
<1>3. CASE op = "open"
  BY <1>1, <1>2, <1>3 DEF Served, Expected
<1>4. CASE op = "opendir"
  BY <1>1, <1>2, <1>4 DEF Served, Expected
<1>5. CASE op \notin {"open", "opendir"}
  BY <1>1, <1>2, <1>5 DEF Served, Expected
<1>6. QED
  BY <1>1, <1>2, <1>3, <1>4, <1>5

LEMMA FoundStep ==
  ASSUME LookupInv, ~terminated, Found
  PROVE  LookupInv'
<1>1. /\ pc = "found" /\ Served /\ answer' = entry /\ pc' = "reply"
      /\ UNCHANGED <<op, asked, path, itr, cursor, entry, error, terminated, seen>>
  BY DEF Found, seen
<1>2. TypeOK'
  BY <1>1, ServedExpected DEF LookupInv, TypeOK, Answers
<1>3. WalkInv'
  BY <1>1 DEF LookupInv, WalkInv
<1>4. RightInv' /\ ShortInv'
  BY <1>1, ServedExpected DEF LookupInv, RightInv, ShortInv
<1>5. QED
  BY <1>2, <1>3, <1>4 DEF LookupInv

LEMMA WrongKindStep ==
  ASSUME LookupInv, ~terminated, WrongKind
  PROVE  LookupInv'
<1>1. /\ pc = "found" /\ ~Served /\ op \in {"open", "opendir"} /\ pc' = "failed"
      /\ error' = IF op = "open" THEN "unsupported_storage_type" ELSE "directory_not_found"
      /\ UNCHANGED <<op, asked, path, itr, cursor, entry, answer, terminated, seen>>
  BY DEF WrongKind, seen
<1>2. TypeOK'
  BY <1>1 DEF LookupInv, TypeOK, Errors
<1>3. WalkInv'
  BY <1>1 DEF LookupInv, WalkInv
<1>4. RightInv' /\ ShortInv'
  <2>1. Short(seen) /\ entry = Reached(seen)
    BY <1>1 DEF LookupInv, RightInv
  <2>2. ToError(error') = [errno |-> IF op = "open" THEN "EIO" ELSE "ENOTDIR"]
    BY <1>1 DEF ToError
  <2>3. ToError(error') \in Expected(op, entry)
    BY <1>1, <2>2, ServedExpected
  <2>4. QED
    BY <1>1, <2>1, <2>3 DEF RightInv, ShortInv
<1>5. QED
  BY <1>2, <1>3, <1>4 DEF LookupInv

LEMMA UnexpectedKindStep ==
  ASSUME LookupInv, ~terminated, UnexpectedKind
  PROVE  LookupInv'
<1>1. /\ pc = "found" /\ ~Served /\ op \notin {"open", "opendir"} /\ terminated' = TRUE
      /\ UNCHANGED <<pc, op, asked, path, itr, cursor, entry, error, answer, seen>>
  BY DEF UnexpectedKind, seen
<1>2. TypeOK'
  BY <1>1 DEF LookupInv, TypeOK
<1>3. WalkInv'
  BY <1>1, ServedExpected DEF LookupInv, WalkInv
<1>4. RightInv' /\ ShortInv'
  BY <1>1 DEF LookupInv, RightInv, ShortInv
<1>5. QED
  BY <1>2, <1>3, <1>4 DEF LookupInv

LEMMA FailedStep ==
  ASSUME LookupInv, ~terminated, Failed
  PROVE  LookupInv'
<1>1. /\ pc = "failed" /\ answer' = ToError(error) /\ pc' = "reply"
      /\ UNCHANGED <<op, asked, path, itr, cursor, entry, error, terminated, seen>>
  BY DEF Failed, seen
<1>2. ToError(error) \in ErrorNumbers
  BY DEF LookupInv, TypeOK, ToError, ErrorNumbers, Errors
<1>3. TypeOK'
  BY <1>1, <1>2 DEF LookupInv, TypeOK, Answers
<1>4. WalkInv'
  BY <1>1 DEF LookupInv, WalkInv
<1>5. RightInv'
  BY <1>1, <1>2 DEF LookupInv, RightInv
<1>6. ASSUME Short(seen)' PROVE ShortInv'
  BY <1>1, <1>6 DEF LookupInv, ShortInv
<1>7. QED
  BY <1>3, <1>4, <1>5, <1>6 DEF LookupInv

LEMMA ReplyStep ==
  ASSUME LookupInv, ~terminated, Reply
  PROVE  LookupInv'
<1>1. /\ pc' = "idle" /\ op' = NULL /\ asked' = NULL /\ path' = <<>> /\ itr' = 0
      /\ cursor' = NULL /\ entry' = NULL /\ answer' = NULL
      /\ UNCHANGED <<error, terminated>>
  BY DEF Reply
<1>2. <<>> \in Seq(Components \cup {Garbled})
  BY EmptySeq
<1>3. TypeOK'
  BY <1>1, <1>2 DEF LookupInv, TypeOK, Answers
<1>4. WalkInv' /\ RightInv'
  BY <1>1 DEF LookupInv, WalkInv, RightInv
<1>5. QED
  BY <1>1, <1>3, <1>4 DEF LookupInv

-----------------------------------------------------------------------------
(* The invariant *)

LEMMA InitLookupInv == Init => LookupInv
<1> SUFFICES ASSUME Init PROVE LookupInv
  OBVIOUS
<1>1. <<>> \in Seq(Components \cup {Garbled})
  BY EmptySeq
<1>2. TypeOK
  BY <1>1 DEF Init, TypeOK, Answers, Errors
<1>3. QED
  BY <1>2 DEF Init, LookupInv, WalkInv, RightInv

LEMMA LookupInvStep ==
  ASSUME LookupInv, [Next]_vars
  PROVE  LookupInv'
<1>1. CASE Next
  <2>1. ~terminated
    BY <1>1 DEF Next
  <2>2. ASSUME NEW o \in Ops, NEW p \in Paths, Call(o, p) PROVE LookupInv'
    BY <2>1, <2>2, CallStep
  <2>3. CASE Work
    BY <2>1, <2>3, NextEntryStep, NoMoreEntriesStep, OtherNameStep, LastNameStep,
       NotADirectoryStep, DescendStep, FoundStep, WrongKindStep, UnexpectedKindStep,
       FailedStep, ReplyStep
       DEF Work
  <2>4. QED
    BY <1>1, <2>2, <2>3 DEF Next
<1>2. CASE UNCHANGED vars
  BY <1>2 DEF vars, LookupInv, TypeOK, WalkInv, RightInv, ShortInv, Above, seen
<1>3. QED
  BY <1>1, <1>2

LEMMA Invariant == Spec => []LookupInv
<1>1. Init => LookupInv
  BY InitLookupInv
<1>2. LookupInv /\ [Next]_vars => LookupInv'
  BY LookupInvStep
<1>3. QED
  BY <1>1, <1>2, PTL DEF Spec

-----------------------------------------------------------------------------
(* Theorems *)

\* The walk stays in the pathname, and its cursor on a block of a directory.
THEOREM TypeCorrect == Spec => []TypeOK
<1>1. LookupInv => TypeOK
  BY DEF LookupInv
<1>2. QED
  BY <1>1, Invariant, PTL

\* What becomes of a pathname is answered, whatever was asked.
RemainderAnswered ==
  pc = "reply" =>
    IF Short(seen) THEN answer \in Expected(op, Reached(seen)) ELSE answer \in NothingThere

\* For every pathname, with extensions anywhere in it: a callback answers for what
\* S_ProdosFilename leaves of it, if that has at most two components, and else that
\* there is nothing.  So "/D:TXT/G" is answered with the directory D.
THEOREM RemaindersFound == Spec => []RemainderAnswered
<1>1. LookupInv => RemainderAnswered
  BY DEF LookupInv, RightInv, ShortInv, RemainderAnswered
<1>2. QED
  BY <1>1, Invariant, PTL

\* Where only the last extension is erased, the pathname keeps its length and its names.
LEMMA WholeFacts ==
  ASSUME NEW o, NEW p \in Paths, Whole(o, p)
  PROVE  /\ Len(Filename(o, p)) = Len(p)
         /\ \A i \in 1 .. Len(p) :
              /\ Filename(o, p)[i].name = p[i].name
              /\ p[i].type = NULL => Filename(o, p)[i].type = NULL
              /\ ExtensionMode /\ o \notin {"getxattr", "opendir"} =>
                   Filename(o, p)[i].type = NULL
              /\ ~ExtensionMode \/ o \in {"getxattr", "opendir"} => Filename(o, p) = p
<1>1. p \in Seq(Components) /\ Len(p) \in Nat /\ \A i \in 1 .. Len(p) : p[i] \in Components
  BY FilenameFacts, ElementOfSeq
<1>2. CASE ~ExtensionMode \/ o \in {"getxattr", "opendir"}
  BY <1>2 DEF Filename, ProdosFilename
<1>3. CASE ExtensionMode /\ o \notin {"getxattr", "opendir"} /\ Typed(p) = {}
  BY <1>3 DEF Filename, ProdosFilename, Typed
<1>4. CASE ExtensionMode /\ o \notin {"getxattr", "opendir"} /\ Typed(p) # {}
  <2>1. PICK last \in Typed(p) :
          LET left == [i \in 1 .. last |->
                        IF i = last THEN [p[i] EXCEPT !.type = NULL] ELSE p[i]]
          IN  ProdosFilename(p) = IF left = <<Nameless>> THEN <<>> ELSE left
    BY <1>1, <1>4, ErasedFacts
  <2> DEFINE left == [i \in 1 .. last |-> IF i = last THEN [p[i] EXCEPT !.type = NULL] ELSE p[i]]
  <2>2. last = Len(p) /\ last \in 1 .. Len(p) /\ (p[last].name = NoName => last > 1)
    BY <1>4 DEF Whole, Typed
  <2>3. \A i \in 1 .. Len(p) : left[i].name = p[i].name /\ left[i].type = NULL
    BY <1>1, <1>4, <2>2 DEF Components, Whole, Typed
  <2>4. left # <<Nameless>>
    <3>1. SUFFICES ASSUME left = <<Nameless>> PROVE FALSE
      OBVIOUS
    <3>2. Len(left) = last
      BY <1>1, <2>2
    <3>3. last = 1 /\ left[1] = Nameless
      BY <3>1, <3>2
    <3>4. p[last].name = NoName
      BY <2>2, <2>3, <3>3 DEF Nameless
    <3>5. QED
      BY <2>2, <3>3, <3>4
  <2>5. Filename(o, p) = left
    BY <1>4, <2>1, <2>4 DEF Filename
  <2>6. Len(left) = Len(p)
    BY <1>1, <2>2
  <2> HIDE DEF left
  <2>7. QED
    BY <1>4, <2>3, <2>5, <2>6
<1>5. QED
  BY <1>2, <1>3, <1>4

\* A pathname of which no extension is left over leads to what it names.
LEMMA RegularReached ==
  ASSUME NEW o \in Ops, NEW p \in Paths, Whole(o, p), Short(p)
  PROVE  /\ Regular(o, p) => Reached(Filename(o, p)) = Resolve(p)
         /\ Reached(Filename(o, p)) \in {NULL, Resolve(p)}
<1> DEFINE q == Filename(o, p)
<1>1. p \in Seq(Components) /\ Len(p) \in Nat
  BY FilenameFacts
<1>2. Len(q) = Len(p)
  BY WholeFacts
<1>3. Len(p) \in {0, 1, 2}
  <2>1. \A n \in Nat : n <= 2 => n \in {0, 1, 2}
    OBVIOUS
  <2>2. QED
    BY <1>1, <2>1, Zenon DEF Short
<1>4. /\ Len(p) = 0 => Resolve(p) = RootEntry
      /\ Len(p) = 1 => Resolve(p) = Below(RootEntry, p[1])
      /\ Len(p) = 2 => Resolve(p) = Below(Below(RootEntry, p[1]), p[2])
  BY <1>1, ResolveShort DEF Short
<1>5. \A i \in 1 .. Len(p) : q[i].name = p[i].name /\ (q[i].type = NULL => p[i].type = NULL \/ ExtensionMode)
  BY WholeFacts
<1>6. ASSUME NEW e, NEW i \in 1 .. Len(p)
      PROVE  Under(e, q[i]) = IF q[i].type = NULL THEN Below(e, p[i]) ELSE NULL
  <2>1. q[i].name = p[i].name /\ (q[i].type = NULL => p[i].type = NULL \/ ExtensionMode)
    BY <1>5
  <2>2. QED
    BY <2>1 DEF Under, Below
<1>7. \A e, i : i \in 1 .. Len(p) /\ q[i].type # NULL => Under(e, q[i]) = NULL
  BY DEF Under
<1>8. \A c : Under(NULL, c) = NULL /\ Below(NULL, c) = NULL
  BY DEF Under, Below
<1>9. ASSUME \A i \in 1 .. Len(p) : q[i].type = NULL PROVE Reached(q) = Resolve(p)
  <2>1. CASE Len(p) = 0
    BY <1>2, <1>4, <2>1 DEF Reached
  <2>2. CASE Len(p) = 1
    BY <1>2, <1>4, <1>6, <1>9, <2>2 DEF Reached
  <2>3. CASE Len(p) = 2
    <3>1. 1 \in 1 .. Len(p) /\ 2 \in 1 .. Len(p)
      BY <2>3
    <3>2. Under(RootEntry, q[1]) = Below(RootEntry, p[1])
      BY <1>6, <1>9, <3>1
    <3>3. Under(Below(RootEntry, p[1]), q[2]) = Below(Below(RootEntry, p[1]), p[2])
      BY <1>6, <1>9, <3>1
    <3>4. QED
      BY <1>2, <1>4, <2>3, <3>2, <3>3 DEF Reached
  <2>4. QED
    BY <1>3, <2>1, <2>2, <2>3
<1>10. ASSUME NEW k \in 1 .. Len(p), q[k].type # NULL PROVE Reached(q) = NULL
  <2>1. CASE Len(p) = 1
    BY <1>2, <1>7, <1>10, <2>1 DEF Reached
  <2>2. CASE Len(p) = 2
    <3>1. k = 1 \/ k = 2
      BY <2>2
    <3>2. CASE k = 1
      BY <1>2, <1>7, <1>8, <1>10, <2>2, <3>2 DEF Reached
    <3>3. CASE k = 2
      BY <1>2, <1>7, <1>10, <2>2, <3>3 DEF Reached
    <3>4. QED
      BY <3>1, <3>2, <3>3
  <2>3. QED
    BY <1>3, <1>10, <2>1, <2>2
<1>11. ASSUME Regular(o, p) PROVE Reached(q) = Resolve(p)
  <2>1. CASE \A i \in 1 .. Len(p) : q[i].type = NULL
    BY <1>9, <2>1
  <2>2. CASE \E i \in 1 .. Len(p) : q[i].type # NULL
    <3>1. ~ExtensionMode /\ q = p
      BY <1>11, <2>2, WholeFacts DEF Regular, Typed
    <3>2. \A e, i : i \in 1 .. Len(p) => Under(e, q[i]) = Below(e, p[i])
      BY <3>1 DEF Under, Below
    <3>3. CASE Len(p) = 1
      BY <1>2, <1>4, <3>2, <3>3 DEF Reached
    <3>4. CASE Len(p) = 2
      <4>1. 1 \in 1 .. Len(p) /\ 2 \in 1 .. Len(p)
        BY <3>4
      <4>2. QED
        BY <1>2, <1>4, <3>2, <3>4, <4>1 DEF Reached
    <3>5. QED
      BY <1>3, <2>2, <3>3, <3>4
  <2>3. QED
    BY <2>1, <2>2
<1>12. QED
  BY <1>9, <1>10, <1>11

\* A regular pathname of up to two components finds what it names on every volume, and
\* nothing else; the error of one that names nothing is its own (GetEntry).
THEOREM ShortPathsFound == Spec => []ShortPathsResolve
<1>1. LookupInv => ShortPathsResolve
  <2> SUFFICES ASSUME LookupInv, pc = "reply", Regular(op, asked), Len(asked) <= 2
               PROVE  answer \in Expected(op, Resolve(asked))
    BY DEF ShortPathsResolve, Answered
  <2>1. op \in Ops /\ asked \in Paths /\ Whole(op, asked) /\ Short(asked)
    BY DEF LookupInv, WalkInv, Regular, Short
  <2>2. Short(seen) /\ Reached(seen) = Resolve(asked)
    BY <2>1, WholeFacts, RegularReached DEF seen, Short
  <2>3. QED
    BY <2>2 DEF LookupInv, ShortInv
<1>2. QED
  BY <1>1, Invariant, PTL

\* An answer that is no error is the entry that the pathname names.
NoWrongEntry ==
  pc = "reply" /\ Whole(op, asked) => answer \in ErrorNumbers \cup {Resolve(asked)}

\* Where S_ProdosFilename erases no more than the last extension, no callback answers
\* with an entry that its pathname does not name, however long the pathname is, and
\* whatever SplitPath makes of it (GetEntry).
THEOREM NoEntryMixedUp == Spec => []NoWrongEntry
<1>1. LookupInv => NoWrongEntry
  <2> SUFFICES ASSUME LookupInv, pc = "reply", Whole(op, asked)
               PROVE  answer \in ErrorNumbers \cup {Resolve(asked)}
    BY DEF NoWrongEntry
  <2>1. op \in Ops /\ asked \in Paths
    BY DEF LookupInv, WalkInv
  <2>2. NothingThere \subseteq ErrorNumbers /\ Expected(op, NULL) \subseteq ErrorNumbers
    BY DEF NothingThere, ErrorNumbers, Expected
  <2>3. CASE ~Short(seen)
    BY <2>2, <2>3 DEF LookupInv, RightInv
  <2>4. CASE Short(seen)
    <3>1. Short(asked)
      BY <2>1, <2>4, WholeFacts DEF seen, Short
    <3>2. Reached(seen) \in {NULL, Resolve(asked)}
      BY <2>1, <3>1, RegularReached DEF seen
    <3>3. answer \in ErrorNumbers \cup {Reached(seen)} /\ answer \in Expected(op, Reached(seen))
      BY <2>4 DEF LookupInv, RightInv, ShortInv
    <3>4. QED
      BY <2>2, <3>2, <3>3
  <2>5. QED
    BY <2>3, <2>4
<1>2. QED
  BY <1>1, Invariant, PTL

\* A pathname of more than two components names nothing.
LongPathsFail ==
  pc = "reply" /\ Whole(op, asked) /\ ~(Len(asked) <= 2) => answer \in NothingThere

\* What S_SplitPath does to the components between the first and the last hides all
\* that lies in a directory of a directory, on every volume: no such entry is found,
\* unless S_ProdosFilename has made the pathname a shorter one.
THEOREM LongPathsNotFound == Spec => []LongPathsFail
<1>1. LookupInv => LongPathsFail
  <2> SUFFICES ASSUME LookupInv, pc = "reply", Whole(op, asked), ~(Len(asked) <= 2)
               PROVE  answer \in NothingThere
    BY DEF LongPathsFail
  <2>1. ~Short(seen)
    BY WholeFacts DEF LookupInv, WalkInv, seen, Short
  <2>2. QED
    BY <2>1 DEF LookupInv, RightInv
<1>2. QED
  BY <1>1, Invariant, PTL

\* No walk runs out of directory blocks: only the attributes of an entry that is
\* neither file nor directory end the process (NextEntry, S_GetAttributes).
THEOREM WalksAreSafe == Spec => []TerminatesOnlyOnOtherKinds
<1>1. LookupInv => TerminatesOnlyOnOtherKinds
  BY DEF LookupInv, WalkInv, TerminatesOnlyOnOtherKinds
<1>2. QED
  BY <1>1, Invariant, PTL
-----------------------------------------------------------------------------
(* What a client learns about an entry: Attributes *)

Names == GetAttributes(shown)

\* The names that listxattr has dealt with.
Done == Names \ attributes

\* The bytes that a list of the names S takes: each by its name and its place in it.
BytesOf(S) == UNION {{a} \X (1 .. NameSize(a)) : a \in S}

\* The number n is the size of the list of the names S.
SizeIs(S, n) == IsFiniteSet(BytesOf(S)) /\ n = Cardinality(BytesOf(S))

\* The client was told what the whole answer takes.
ToldInv ==
  told # NONE =>
    IF name = NONE THEN SizeIs(Names, told)
                   ELSE name \in Names /\ told = ValueSize(shown, name)

\* listxattr has put the names it has dealt with into the buffer.
ListInv ==
  call = "list" =>
    /\ name = NONE
    /\ SizeIs(Done, length)
    /\ position = IF size > 0 THEN length ELSE 0
    /\ size > 0 => position <= size

\* A reply is the whole answer, or says that the buffer is too small for it.
ReplyInv ==
  call = "reply" =>
    /\ result = ERANGE => size > 0 /\ position <= size /\ (told # NONE => size < told)
    /\ result = ENODATA => position = 0 /\ told = NONE
    /\ result \notin {ERANGE, ENODATA} =>
         /\ IF name = NONE THEN SizeIs(Names, result)
                            ELSE name \in Names /\ result = ValueSize(shown, name)
         /\ position = IF size > 0 THEN result ELSE 0
         /\ size > 0 => position <= size

CallInv ==
  /\ shown \in Shown
  /\ call \in {"idle", "list", "reply", "stat"}
  /\ name \in AnyAttribute \cup {NONE}
  /\ size \in Nat
  /\ attributes \subseteq Names
  /\ position \in Nat /\ length \in Nat
  /\ result \in Nat \cup {ERANGE, ENODATA}
  /\ told \in Nat \cup {NONE}
  /\ call \in {"idle", "stat"} => size = 0 /\ position = 0

AttributesInv == CallInv /\ ToldInv /\ ListInv /\ ReplyInv

-----------------------------------------------------------------------------
(* The sizes of lists *)

LEMMA NameFacts ==
  ASSUME shown \in Shown
  PROVE  /\ Names \subseteq AnyAttribute
         /\ \A a \in AnyAttribute : a # NONE /\ NameSize(a) \in Nat \ {0}
         /\ \A a \in Names : ValueSize(shown, a) \in Nat \ {0}
         /\ NONE \notin Nat
<1>1. Names \subseteq AnyAttribute
  BY DEF Names, AnyAttribute
<1>2. /\ \A a \in AnyAttribute : a # NONE /\ NameSize(a) \in Nat \ {0}
      /\ \A a \in Names : ValueSize(shown, a) \in Nat \ {0}
  BY TextAssumption DEF TextAssumption, NameSize, ValueSize, Names
<1>3. NONE \notin Nat
  BY AttributesAssumption DEF AttributesAssumption
<1>4. QED
  BY <1>1, <1>2, <1>3

LEMMA NoNames == SizeIs({}, 0)
<1>1. BytesOf({}) = {}
  BY DEF BytesOf
<1>2. QED
  BY <1>1, FS_EmptySet DEF SizeIs

\* One more name adds its size.
LEMMA OneMoreName ==
  ASSUME NEW S, NEW n \in Nat, SizeIs(S, n), NEW a, a \notin S, NameSize(a) \in Nat
  PROVE  SizeIs(S \cup {a}, n + NameSize(a))
<1> DEFINE new == {a} \X (1 .. NameSize(a))
<1>1. IsFiniteSet(1 .. NameSize(a)) /\ Cardinality(1 .. NameSize(a)) = NameSize(a)
  BY FS_Interval
<1>2. IsFiniteSet({a}) /\ Cardinality({a}) = 1
  BY FS_Singleton
<1>3. IsFiniteSet(new) /\ Cardinality(new) = NameSize(a)
  <2>1. IsFiniteSet(new) /\ Cardinality(new) = 1 * NameSize(a)
    BY <1>1, <1>2, FS_Product
  <2>2. QED
    BY <2>1
<1>4. BytesOf(S \cup {a}) = BytesOf(S) \cup new
  BY DEF BytesOf
<1>5. BytesOf(S) \cap new = {}
  BY DEF BytesOf
<1> HIDE DEF new
<1>6. /\ IsFiniteSet(BytesOf(S) \cup new)
      /\ Cardinality(BytesOf(S) \cup new) = Cardinality(BytesOf(S)) + Cardinality(new) - 0
  BY <1>3, <1>5, FS_Union, FS_EmptySet DEF SizeIs
<1>7. Cardinality(BytesOf(S) \cup new) = n + NameSize(a)
  BY <1>3, <1>6 DEF SizeIs
<1>8. QED
  BY <1>4, <1>6, <1>7 DEF SizeIs

\* Fewer names take no more room.
LEMMA FewerNames ==
  ASSUME NEW S, NEW T, S \subseteq T, NEW m, NEW n, SizeIs(S, m), SizeIs(T, n)
  PROVE  m <= n /\ m \in Nat /\ n \in Nat
<1>1. BytesOf(S) \subseteq BytesOf(T)
  BY DEF BytesOf
<1>2. QED
  BY <1>1, FS_Subset, FS_CardinalityType DEF SizeIs

-----------------------------------------------------------------------------
(* The steps *)

LEMMA InitAttributes ==
  AttrInit => AttributesInv
BY DEF AttrInit, AttributesInv, CallInv, ToldInv, ListInv, ReplyInv

LEMMA ListXattrStep ==
  ASSUME AttributesInv, NEW n \in Sizes, ListXattr(n)
  PROVE  AttributesInv'
<1>1. /\ call = "idle" /\ call' = "list" /\ name' = NONE /\ size' = n /\ length' = 0 /\ position' = 0
      /\ attributes' = Names /\ told' = (IF NONE = name THEN told ELSE NONE)
      /\ UNCHANGED <<shown, result>>
  BY DEF ListXattr, Ask, Names
<1>2. n \in Nat
  BY AttributesAssumption DEF AttributesAssumption
<1>3. Names' = Names /\ Done' = {}
  BY <1>1 DEF Names, Done
<1>4. CallInv'
  BY <1>1, <1>2, <1>3 DEF AttributesInv, CallInv
<1>5. ToldInv'
  BY <1>1, <1>3 DEF AttributesInv, ToldInv, SizeIs
<1>6. SizeIs(Done', 0)
  BY <1>3, NoNames
<1>7. ListInv' /\ ReplyInv'
  BY <1>1, <1>2, <1>6 DEF ListInv, ReplyInv, SizeIs
<1>8. QED
  BY <1>4, <1>5, <1>7 DEF AttributesInv

LEMMA ListNameStep ==
  ASSUME AttributesInv, NEW a \in attributes, ListName(a)
  PROVE  AttributesInv'
<1>1. /\ call = "list" /\ attributes' = attributes \ {a}
      /\ size > 0 => Fits(a)
      /\ position' = (IF size > 0 THEN position + NameSize(a) ELSE position)
      /\ length' = length + NameSize(a)
      /\ UNCHANGED <<shown, inserted, call, name, size, result, told, timeVars>>
  BY DEF ListName
<1>2. CallInv /\ ListInv /\ ToldInv
  BY DEF AttributesInv
<1>3. a \in Names /\ Names' = Names /\ NameSize(a) \in Nat \ {0}
  BY <1>1, <1>2, NameFacts DEF CallInv, Names
<1>4. Done' = Done \cup {a} /\ a \notin Done
  BY <1>1, <1>3 DEF Done
<1>5. SizeIs(Done \cup {a}, length + NameSize(a))
  BY <1>1, <1>2, <1>3, <1>4, OneMoreName DEF CallInv, ListInv
<1>6. size > 0 => position' <= size
  <2>1. Len(a) + 1 = NameSize(a) /\ Len(a) \in Nat
    BY <1>2, <1>3, NameFacts, TextAssumption DEF NameSize, TextAssumption, CallInv
  <2>2. QED
    BY <1>1, <1>2, <2>1 DEF Fits, CallInv
<1>7. CallInv'
  BY <1>1, <1>2, <1>3 DEF CallInv
<1>8. ListInv'
  BY <1>1, <1>2, <1>4, <1>5, <1>6 DEF ListInv, SizeIs
<1>9. ToldInv' /\ ReplyInv'
  BY <1>1, <1>2, <1>3 DEF ToldInv, ReplyInv, SizeIs
<1>10. QED
  BY <1>7, <1>8, <1>9 DEF AttributesInv

LEMMA ListOutOfRangeStep ==
  ASSUME AttributesInv, NEW a \in attributes, ListOutOfRange(a)
  PROVE  AttributesInv'
<1>1. /\ call = "list" /\ call' = "reply" /\ result' = ERANGE /\ size > 0 /\ ~Fits(a)
      /\ UNCHANGED <<shown, inserted, name, size, attributes, position, length, told, timeVars>>
  BY DEF ListOutOfRange
<1>2. CallInv /\ ListInv /\ ToldInv
  BY DEF AttributesInv
<1>3. /\ a \in Names /\ Names' = Names /\ NameSize(a) \in Nat \ {0}
      /\ a \notin Done /\ Done \cup {a} \subseteq Names
  BY <1>1, <1>2, NameFacts DEF CallInv, Names, Done
<1>4. told # NONE => size < told
  <2> SUFFICES ASSUME told # NONE PROVE size < told
    OBVIOUS
  <2>1. SizeIs(Names, told) /\ told \in Nat
    BY <1>1, <1>2 DEF ToldInv, ListInv, CallInv
  <2>2. SizeIs(Done \cup {a}, length + NameSize(a))
    BY <1>1, <1>2, <1>3, OneMoreName DEF CallInv, ListInv
  <2>3. length + NameSize(a) <= told
    BY <1>3, <2>1, <2>2, FewerNames
  <2>4. size < length + NameSize(a)
    <3>1. Len(a) + 1 = NameSize(a) /\ Len(a) \in Nat
      BY <1>2, <1>3, NameFacts, TextAssumption DEF NameSize, TextAssumption,
         CallInv
    <3>2. QED
      BY <1>1, <1>2, <3>1 DEF Fits, CallInv, ListInv
  <2>5. QED
    BY <1>2, <1>3, <2>1, <2>3, <2>4 DEF CallInv
<1>5. CallInv'
  BY <1>1, <1>2, <1>3 DEF CallInv
<1>6. ToldInv' /\ ListInv'
  BY <1>1, <1>2, <1>3 DEF ToldInv, ListInv, SizeIs
<1>7. ReplyInv'
  BY <1>1, <1>2, <1>4 DEF ReplyInv, ListInv, ERANGE, ENODATA
<1>8. QED
  BY <1>5, <1>6, <1>7 DEF AttributesInv

LEMMA ListEndsStep ==
  ASSUME AttributesInv, ListEnds
  PROVE  AttributesInv'
<1>1. /\ call = "list" /\ call' = "reply" /\ attributes = {} /\ result' = length
      /\ UNCHANGED <<shown, inserted, name, size, attributes, position, length, told, timeVars>>
  BY DEF ListEnds
<1>2. CallInv /\ ListInv /\ ToldInv
  BY DEF AttributesInv
<1>3. Names' = Names /\ Done = Names
  BY <1>1 DEF Names, Done
<1>4. CallInv'
  BY <1>1, <1>2, <1>3 DEF CallInv
<1>5. ToldInv' /\ ListInv'
  BY <1>1, <1>2, <1>3 DEF ToldInv, ListInv, SizeIs
<1>6. length \in Nat /\ length # ERANGE /\ length # ENODATA
  BY <1>2 DEF CallInv, ERANGE, ENODATA
<1>7. ReplyInv'
  BY <1>1, <1>2, <1>3, <1>6 DEF ReplyInv, ListInv, SizeIs
<1>8. QED
  BY <1>4, <1>5, <1>7 DEF AttributesInv

LEMMA GetXattrStep ==
  ASSUME AttributesInv,
         NEW a \in AnyAttribute, NEW n \in Sizes, GetXattr(a, n)
  PROVE  AttributesInv'
<1>1. /\ call = "idle" /\ call' = "reply" /\ name' = a /\ size' = n /\ length' = 0 /\ attributes' = {}
      /\ told' = (IF a = name THEN told ELSE NONE) /\ UNCHANGED shown
      /\ IF a \notin Names THEN result' = ENODATA /\ position' = 0
         ELSE IF n > 0 /\ n < ValueSize(shown, a) THEN result' = ERANGE /\ position' = 0
         ELSE /\ result' = ValueSize(shown, a)
              /\ position' = (IF n > 0 THEN ValueSize(shown, a) ELSE 0)
  BY DEF GetXattr, Ask, Names, Told
<1>2. CallInv /\ ToldInv /\ n \in Nat /\ Names' = Names
  BY <1>1, AttributesAssumption DEF AttributesInv, AttributesAssumption, Names
<1>3. a # NONE /\ (a \in Names => ValueSize(shown, a) \in Nat \ {0})
  BY <1>2, NameFacts DEF CallInv
<1>4. CallInv'
  <2>1. position' \in Nat /\ result' \in Nat \cup {ERANGE, ENODATA}
    BY <1>1, <1>3
  <2>2. QED
    BY <1>1, <1>2, <2>1 DEF CallInv
<1>5. ToldInv' /\ ListInv'
  BY <1>1, <1>2, <1>3 DEF ToldInv, ListInv
<1>6. told' # NONE => a \in Names /\ told' = ValueSize(shown, a)
  BY <1>1, <1>2, <1>3 DEF ToldInv
<1>7. ReplyInv'
  <2>1. CASE a \notin Names
    BY <1>1, <1>6, <2>1 DEF ReplyInv, ERANGE, ENODATA
  <2>2. CASE a \in Names /\ n > 0 /\ n < ValueSize(shown, a)
    BY <1>1, <1>2, <1>6, <2>2 DEF ReplyInv, ERANGE, ENODATA
  <2>3. CASE a \in Names /\ ~(n > 0 /\ n < ValueSize(shown, a))
    <3>1. ValueSize(shown, a) # ERANGE /\ ValueSize(shown, a) # ENODATA
      BY <1>3, <2>3 DEF ERANGE, ENODATA
    <3>2. result' = ValueSize(shown, a) /\ position' = (IF n > 0 THEN ValueSize(shown, a) ELSE 0)
      BY <1>1, <2>3
    <3>3. n > 0 => position' <= n
      BY <1>2, <1>3, <2>3, <3>2
    <3>4. QED
      BY <1>1, <1>2, <1>3, <2>3, <3>1, <3>2, <3>3 DEF ReplyInv
  <2>4. QED
    BY <2>1, <2>2, <2>3
<1>8. QED
  BY <1>4, <1>5, <1>7 DEF AttributesInv

LEMMA XattrReplyStep ==
  ASSUME AttributesInv, AttrReply
  PROVE  AttributesInv'
<1>1. /\ call = "reply" /\ call' = "idle" /\ size' = 0 /\ attributes' = {} /\ position' = 0 /\ length' = 0
      /\ result' = 0 /\ told' = (IF size = 0 /\ result >= 0 THEN result ELSE told)
      /\ UNCHANGED <<shown, name>>
  BY DEF AttrReply
<1>2. CallInv /\ ToldInv /\ ReplyInv /\ Names' = Names
  BY <1>1 DEF AttributesInv, Names
<1>3. CASE size = 0 /\ result >= 0
  <2>1. result \in Nat /\ result # ERANGE /\ result # ENODATA
    BY <1>2, <1>3 DEF CallInv, ERANGE, ENODATA
  <2>2. IF name = NONE THEN SizeIs(Names, result)
                       ELSE name \in Names /\ result = ValueSize(shown, name)
    BY <1>1, <1>2, <2>1 DEF ReplyInv
  <2>3. told' = result
    BY <1>1, <1>3
  <2>4. CallInv'
    BY <1>1, <1>2, <2>1, <2>3 DEF CallInv
  <2>5. ToldInv' /\ ListInv' /\ ReplyInv'
    BY <1>1, <1>2, <2>2, <2>3 DEF ToldInv, ListInv, ReplyInv, SizeIs
  <2>6. QED
    BY <2>4, <2>5 DEF AttributesInv
<1>4. CASE ~(size = 0 /\ result >= 0)
  <2>1. told' = told
    BY <1>1, <1>4
  <2>2. CallInv'
    BY <1>1, <1>2, <2>1 DEF CallInv
  <2>3. ToldInv' /\ ListInv' /\ ReplyInv'
    BY <1>1, <1>2, <2>1 DEF ToldInv, ListInv, ReplyInv, SizeIs
  <2>4. QED
    BY <2>2, <2>3 DEF AttributesInv
<1>5. QED
  BY <1>3, <1>4

\* What does not touch the call.
LEMMA CallUnchanged ==
  ASSUME AttributesInv, UNCHANGED <<shown, callVars, told>>,
         call' = call \/ {call, call'} \subseteq {"idle", "stat"}
  PROVE  AttributesInv'
<1>1. Names' = Names /\ Done' = Done /\ \A S, n : SizeIs(S, n)' = SizeIs(S, n)
  BY DEF Names, Done, callVars, SizeIs, BytesOf, NameSize
<1>2. UNCHANGED <<name, size, attributes, position, length, result, told, shown>>
  BY DEF callVars
<1>3. CallInv' /\ ToldInv'
  BY <1>1, <1>2 DEF AttributesInv, CallInv, ToldInv
<1>4. ListInv' /\ ReplyInv'
  BY <1>1, <1>2 DEF AttributesInv, ListInv, ReplyInv
<1>5. QED
  BY <1>3, <1>4 DEF AttributesInv

LEMMA StepAttributes ==
  ASSUME AttributesInv, [AttrNext]_attrVars
  PROVE  AttributesInv'
<1>1. ASSUME NEW s \in Stamps, GetAttr(s) PROVE AttributesInv'
  BY <1>1, CallUnchanged DEF GetAttr
<1>2. ASSUME GetAttrReply PROVE AttributesInv'
  BY <1>2, CallUnchanged DEF GetAttrReply
<1>3. ASSUME NEW type \in TypeCodes, OtherLookup(type) PROVE AttributesInv'
  BY <1>3, CallUnchanged DEF OtherLookup
<1>4. CASE UNCHANGED attrVars
  BY <1>4, CallUnchanged DEF attrVars
<1>5. QED
  BY <1>1, <1>2, <1>3, <1>4, ListXattrStep, ListNameStep, ListOutOfRangeStep, ListEndsStep,
     GetXattrStep, XattrReplyStep DEF AttrNext

LEMMA AttributesInvariant ==
  AttrSpec => []AttributesInv
BY InitAttributes, StepAttributes, PTL DEF AttrSpec

-----------------------------------------------------------------------------
(* Theorems *)

\* Neither callback writes behind the client's buffer, in whatever order the names come
\* (prodosfs_getxattr, prodosfs_listxattr).
THEOREM BufferKept == AttrSpec => []WithinBuffer
<1>1. AttributesInv => WithinBuffer
  BY DEF AttributesInv, CallInv, ListInv, ReplyInv, WithinBuffer
<1>2. QED
  BY <1>1, AttributesInvariant, PTL

\* What a client is told to ask for is what the whole answer takes.
THEOREM SizesAreTold == AttrSpec => []SizesAgree
<1>1. AttributesInv => SizesAgree
  <2> SUFFICES ASSUME AttributesInv, call = "reply", told # NONE, size > 0
               PROVE  /\ size >= told => result = told /\ position = told
                      /\ size < told => result = ERANGE
    BY DEF SizesAgree
  <2>1. CallInv /\ ToldInv /\ ReplyInv
    BY DEF AttributesInv
  <2>2. told \in Nat /\ size \in Nat
    BY <2>1 DEF CallInv
  <2>3. CASE result = ERANGE
    BY <2>1, <2>2, <2>3 DEF ReplyInv
  <2>4. CASE result # ERANGE
    <3>1. result # ENODATA
      BY <2>1 DEF ReplyInv
    <3>2. result = told
      BY <2>1, <2>4, <3>1 DEF ReplyInv, ToldInv, SizeIs
    <3>3. QED
      BY <2>1, <2>2, <2>4, <3>1, <3>2 DEF ReplyInv
  <2>5. QED
    BY <2>3, <2>4
<1>2. QED
  BY <1>1, AttributesInvariant, PTL

LEMMA TableIsFull == TypeCodes \subseteq FileTypeTable
BY DEF TypeCodes, FileTypeTable, NamedTypes, UnnamedTypes

\* The table has an entry for each byte, so no lookup inserts one (GetFileTypeInfo).
THEOREM NoInsertion == AttrSpec => []TableUnchanged
<1>1. \A type \in TypeCodes : GetFileTypeInfo({}, type) = {}
  BY TableIsFull DEF GetFileTypeInfo
<1>2. TableUnchanged /\ TypeLookedUp /\ shown \in Shown => TableUnchanged'
  BY <1>1, AttributesAssumption DEF TableUnchanged, TypeLookedUp, AttributesAssumption
<1>3. AttributesInv /\ TableUnchanged /\ [AttrNext]_attrVars => TableUnchanged'
  <2> SUFFICES ASSUME AttributesInv, TableUnchanged, [AttrNext]_attrVars
               PROVE  TableUnchanged'
    OBVIOUS
  <2>1. shown \in Shown /\ inserted = {}
    BY DEF AttributesInv, CallInv, TableUnchanged
  <2>2. ASSUME NEW n \in Sizes, ListXattr(n) PROVE TableUnchanged'
    BY <1>2, <2>1, <2>2 DEF ListXattr, Ask
  <2>3. ASSUME NEW a \in AnyAttribute, NEW n \in Sizes, GetXattr(a, n)
        PROVE  TableUnchanged'
    BY <1>2, <2>1, <2>3 DEF GetXattr, Ask
  <2>4. ASSUME NEW type \in TypeCodes, OtherLookup(type) PROVE TableUnchanged'
    BY <1>1, <2>1, <2>4 DEF OtherLookup, TableUnchanged
  <2>5. CASE UNCHANGED inserted
    BY <2>1, <2>5 DEF TableUnchanged
  <2>6. QED
    BY <2>2, <2>3, <2>4, <2>5 DEF AttrNext, ListName, ListOutOfRange,
       ListEnds, AttrReply, GetAttr, GetAttrReply, attrVars
<1>4. AttrInit => TableUnchanged
  BY DEF AttrInit, TableUnchanged
<1>5. QED
  BY <1>3, <1>4, AttributesInvariant, PTL DEF AttrSpec
-----------------------------------------------------------------------------
(* The calendar *)

\* The days of a month that counts from 0, of a year from 1900.
DaysOfMonth(y, m) ==
  CASE m = 1 -> IF y % 4 = 0 THEN 29 ELSE 28
    [] m \in {3, 5, 8, 10} -> 30
    [] OTHER -> 31

LEMMA YearLength ==
  ASSUME NEW y \in 69 .. 170
  PROVE  /\ DaysBeforeYear(y) \in Int
         /\ DaysBeforeYear(y + 1) = DaysBeforeYear(y) + 365 + IF y % 4 = 0 THEN 1 ELSE 0
BY DEF DaysBeforeYear

LEMMA YearsInOrder ==
  ASSUME NEW y \in 69 .. 170, NEW z \in 69 .. 170, y < z
  PROVE  DaysBeforeYear(y + 1) <= DaysBeforeYear(z)
BY DEF DaysBeforeYear

\* The table of DaysBeforeMonth.
LEMMA MonthTable ==
  ASSUME NEW y \in Int
  PROVE  /\ DaysBeforeMonth(y, 0) = 0 /\ DaysBeforeMonth(y, 1) = 31
         /\ DaysBeforeMonth(y, 2) = 59 + IF y % 4 = 0 THEN 1 ELSE 0
         /\ DaysBeforeMonth(y, 3) = 90 + IF y % 4 = 0 THEN 1 ELSE 0
         /\ DaysBeforeMonth(y, 4) = 120 + IF y % 4 = 0 THEN 1 ELSE 0
         /\ DaysBeforeMonth(y, 5) = 151 + IF y % 4 = 0 THEN 1 ELSE 0
         /\ DaysBeforeMonth(y, 6) = 181 + IF y % 4 = 0 THEN 1 ELSE 0
         /\ DaysBeforeMonth(y, 7) = 212 + IF y % 4 = 0 THEN 1 ELSE 0
         /\ DaysBeforeMonth(y, 8) = 243 + IF y % 4 = 0 THEN 1 ELSE 0
         /\ DaysBeforeMonth(y, 9) = 273 + IF y % 4 = 0 THEN 1 ELSE 0
         /\ DaysBeforeMonth(y, 10) = 304 + IF y % 4 = 0 THEN 1 ELSE 0
         /\ DaysBeforeMonth(y, 11) = 334 + IF y % 4 = 0 THEN 1 ELSE 0
BY DEF DaysBeforeMonth

\* A month ends where the next one begins, the last one where the year ends.
LEMMA MonthLength ==
  ASSUME NEW y \in Int, NEW m \in 0 .. 11
  PROVE  /\ DaysBeforeMonth(y, m) \in Nat /\ DaysOfMonth(y, m) \in 28 .. 31
         /\ m < 11 => DaysBeforeMonth(y, m + 1) = DaysBeforeMonth(y, m) + DaysOfMonth(y, m)
         /\ DaysBeforeMonth(y, m) + DaysOfMonth(y, m) <= 365 + IF y % 4 = 0 THEN 1 ELSE 0
<1>1. m \in {0, 1, 2, 3, 4, 5, 6, 7, 8, 9, 10, 11}
  OBVIOUS
<1>2. QED
  BY <1>1, MonthTable DEF DaysOfMonth

LEMMA MonthsInOrder ==
  ASSUME NEW y \in Int, NEW m \in 0 .. 11, NEW k \in 0 .. 11, m < k
  PROVE  DaysBeforeMonth(y, m + 1) <= DaysBeforeMonth(y, k)
<1>1. m \in {0, 1, 2, 3, 4, 5, 6, 7, 8, 9, 10} /\ k \in {1, 2, 3, 4, 5, 6, 7, 8, 9, 10, 11}
  OBVIOUS
<1>2. QED
  BY <1>1, MonthTable

\* The year and the month that a day lies in are the only ones.
LEMMA YearFound ==
  ASSUME NEW y \in 69 .. 170, NEW d \in Int, DaysBeforeYear(y) <= d, d < DaysBeforeYear(y + 1)
  PROVE  (CHOOSE z \in 69 .. 170 : DaysBeforeYear(z) <= d /\ d < DaysBeforeYear(z + 1)) = y
<1>1. ASSUME NEW z \in 69 .. 170, DaysBeforeYear(z) <= d, d < DaysBeforeYear(z + 1)
      PROVE  z = y
  <2>1. /\ DaysBeforeYear(y) \in Int /\ DaysBeforeYear(y + 1) \in Int
        /\ DaysBeforeYear(z) \in Int /\ DaysBeforeYear(z + 1) \in Int
    BY YearLength
  <2>2. ~(y < z)
    BY <1>1, <2>1, YearsInOrder
  <2>3. ~(z < y)
    BY <1>1, <2>1, YearsInOrder
  <2>4. QED
    BY <2>2, <2>3
<1>2. QED
  BY <1>1

LEMMA MonthFound ==
  ASSUME NEW y \in Int, NEW m \in 0 .. 11, NEW d \in Int,
         DaysBeforeMonth(y, m) <= d, m < 11 => d < DaysBeforeMonth(y, m + 1)
  PROVE  (CHOOSE k \in 0 .. 11 : /\ DaysBeforeMonth(y, k) <= d
                                 /\ k < 11 => d < DaysBeforeMonth(y, k + 1)) = m
<1>1. ASSUME NEW k \in 0 .. 11, DaysBeforeMonth(y, k) <= d, k < 11 => d < DaysBeforeMonth(y, k + 1)
      PROVE  k = m
  <2>1. DaysBeforeMonth(y, m) \in Nat /\ DaysBeforeMonth(y, k) \in Nat
    BY MonthLength
  <2>2. ~(m < k)
    <3> SUFFICES ASSUME m < k PROVE FALSE
      OBVIOUS
    <3>1. m < 11 /\ DaysBeforeMonth(y, m + 1) <= DaysBeforeMonth(y, k)
      BY MonthsInOrder
    <3>2. m + 1 \in 0 .. 11
      BY <3>1
    <3>3. DaysBeforeMonth(y, m + 1) \in Nat
      BY <3>2, MonthLength
    <3>4. QED
      BY <1>1, <2>1, <3>1, <3>3
  <2>3. ~(k < m)
    <3> SUFFICES ASSUME k < m PROVE FALSE
      OBVIOUS
    <3>1. k < 11 /\ DaysBeforeMonth(y, k + 1) <= DaysBeforeMonth(y, m)
      BY MonthsInOrder
    <3>2. k + 1 \in 0 .. 11
      BY <3>1
    <3>3. DaysBeforeMonth(y, k + 1) \in Nat
      BY <3>2, MonthLength
    <3>4. QED
      BY <1>1, <2>1, <3>1, <3>3
  <2>4. QED
    BY <2>2, <2>3
<1>2. QED
  BY <1>1

\* localtime gives back the date that mktime was given.
LEMMA DateKept ==
  ASSUME NEW ts, ts.month \in 1 .. 12, ts.year \in 0 .. 99,
         ts.day \in 1 .. DaysOfMonth(TmYear(ts.year), ts.month - 1),
         ts.hour \in 0 .. 23, ts.minute \in 0 .. 59
  PROVE  LocalTime(ToUnixTime(ts)) =
           [day |-> ts.day, month |-> ts.month, year |-> TmYear(ts.year),
            minute |-> ts.minute, hour |-> ts.hour]
<1> DEFINE year == TmYear(ts.year)
           month == ts.month - 1
           t == ToUnixTime(ts)
           days == t \div 1440
           y == CHOOSE z \in 69 .. 170 : DaysBeforeYear(z) <= days /\ days < DaysBeforeYear(z + 1)
           inYear == days - DaysBeforeYear(y)
           m == CHOOSE k \in 0 .. 11 :
                  /\ DaysBeforeMonth(y, k) <= inYear
                  /\ k < 11 => inYear < DaysBeforeMonth(y, k + 1)
<1>1. year \in 70 .. 169 /\ year \in 69 .. 170 /\ year \in Int /\ month \in 0 .. 11
  BY DEF TmYear
<1>2. LocalTime(t) = [day |-> inYear - DaysBeforeMonth(y, m) + 1, month |-> m + 1, year |-> y,
                      minute |-> t % 60, hour |-> (t \div 60) % 24]
  BY DEF LocalTime
<1>3. t = ((DaysBeforeYear(year) + DaysBeforeMonth(year, month) + ts.day - 1) * 24 + ts.hour) * 60
            + ts.minute
  <2>1. (ts.month - 1) \div 12 = 0 /\ (ts.month - 1) % 12 = month /\ year + 0 = year
    BY <1>1
  <2>2. QED
    BY <2>1 DEF ToUnixTime, MkTime, TmMon
<1>4. ts.day \in Int /\ 1 <= ts.day /\ ts.day <= DaysOfMonth(year, month)
  <2>1. ts.day \in 1 .. DaysOfMonth(year, month)
    OBVIOUS
  <2> HIDE DEF year, month
  <2>2. DaysOfMonth(year, month) \in 28 .. 31
    BY <1>1, MonthLength
  <2>3. QED
    BY <2>1, <2>2
<1> HIDE DEF year, month, t
<1>5. /\ DaysBeforeMonth(year, month) \in Nat /\ DaysOfMonth(year, month) \in 28 .. 31
      /\ month < 11 => DaysBeforeMonth(year, month + 1)
                         = DaysBeforeMonth(year, month) + DaysOfMonth(year, month)
      /\ DaysBeforeMonth(year, month) + DaysOfMonth(year, month)
           <= 365 + IF year % 4 = 0 THEN 1 ELSE 0
  BY <1>1, MonthLength
<1>6. /\ DaysBeforeYear(year) \in Int
      /\ DaysBeforeYear(year + 1) = DaysBeforeYear(year) + 365 + IF year % 4 = 0 THEN 1 ELSE 0
  BY <1>1, YearLength
<1>7. /\ days = DaysBeforeYear(year) + DaysBeforeMonth(year, month) + ts.day - 1
      /\ t % 60 = ts.minute /\ (t \div 60) % 24 = ts.hour
  <2> DEFINE d == DaysBeforeYear(year) + DaysBeforeMonth(year, month) + ts.day - 1
             hour == ts.hour
             minute == ts.minute
  <2>1. d \in Int /\ hour \in 0 .. 23 /\ minute \in 0 .. 59 /\ t = (d * 24 + hour) * 60 + minute
    BY <1>3, <1>4, <1>5, <1>6
  <2> HIDE DEF d, hour, minute
  <2>2. t \in Int /\ t = 1440 * d + (60 * hour + minute) /\ 60 * hour + minute \in 0 .. 1439
    BY <2>1
  <2>3. t \div 1440 = d
    BY <2>1, <2>2
  <2>4. t % 60 = minute /\ t \div 60 = 24 * d + hour
    BY <2>1, <2>2
  <2>5. (24 * d + hour) % 24 = hour
    BY <2>1
  <2>6. t % 60 = minute /\ (t \div 60) % 24 = hour
    BY <2>4, <2>5
  <2>7. QED
    BY <2>3, <2>6 DEF d, hour, minute
<1>8. y = year
  <2>1. days \in Int /\ DaysBeforeYear(year) <= days /\ days < DaysBeforeYear(year + 1)
    BY <1>4, <1>5, <1>6, <1>7
  <2>2. year \in 69 .. 170
    BY <1>1
  <2> HIDE DEF days
  <2>3. QED
    BY <2>1, <2>2, YearFound
<1>9. inYear = DaysBeforeMonth(year, month) + ts.day - 1 /\ inYear \in Int
  <2> HIDE DEF days, y
  <2>1. inYear = days - DaysBeforeYear(year)
    BY <1>8
  <2>2. QED
    BY <1>4, <1>5, <1>6, <1>7, <2>1
<1>10. m = month
  <2>1. year \in Int /\ month \in 0 .. 11
    BY <1>1
  <2> HIDE DEF inYear, y
  <2>2. /\ DaysBeforeMonth(year, month) <= inYear
        /\ month < 11 => inYear < DaysBeforeMonth(year, month + 1)
    BY <1>4, <1>5, <1>9
  <2>3. (CHOOSE k \in 0 .. 11 : /\ DaysBeforeMonth(year, k) <= inYear
                                /\ k < 11 => inYear < DaysBeforeMonth(year, k + 1)) = month
    BY <1>9, <2>1, <2>2, MonthFound
  <2>4. QED
    BY <1>8, <2>3
<1> HIDE DEF y, m, inYear
<1>11. inYear - DaysBeforeMonth(y, m) + 1 = ts.day /\ m + 1 = ts.month
  BY <1>4, <1>5, <1>8, <1>9, <1>10 DEF month
<1>12. QED
  BY <1>2, <1>7, <1>8, <1>11 DEF t, year
-----------------------------------------------------------------------------
(* What stat shows of a date *)

\* Every date that an entry may have is one of the calendar, or is none, or has a year
\* that the code does not take for one of 1970 to 2069.
CalendarDates ==
  \A s \in Stamps :
    LET ts == DecodeTimestamp(s[1], s[2])
    IN  HasDate(ts) /\ ts.year \in 0 .. 99 =>
          /\ ts.day \in 1 .. DaysOfMonth(TmYear(ts.year), ts.month - 1)
          /\ ts.hour \in 0 .. 23 /\ ts.minute \in 0 .. 59

\* getattr has converted the date that it was asked for.
StampInv ==
  call = "stat" =>
    stamp \in Stamps /\ unixTime = ToUnixTime(DecodeTimestamp(stamp[1], stamp[2]))

LEMMA StampStep ==
  ASSUME StampInv, [AttrNext]_attrVars
  PROVE  StampInv'
<1>1. ASSUME NEW s \in Stamps, GetAttr(s) PROVE StampInv'
  BY <1>1 DEF GetAttr, StampInv
<1>2. ASSUME UNCHANGED <<stamp, unixTime>>, call' = call \/ call' # "stat" PROVE StampInv'
  BY <1>2 DEF StampInv
<1>3. ASSUME NEW n \in Sizes, ListXattr(n) PROVE StampInv'
  BY <1>2, <1>3 DEF ListXattr, Ask, timeVars
<1>4. ASSUME NEW a \in AnyAttribute, NEW n \in Sizes, GetXattr(a, n) PROVE StampInv'
  BY <1>2, <1>4 DEF GetXattr, Ask, timeVars
<1>5. ASSUME NEW a \in attributes, ListName(a) \/ ListOutOfRange(a) PROVE StampInv'
  BY <1>2, <1>5 DEF ListName, ListOutOfRange, timeVars
<1>6. CASE ListEnds \/ AttrReply
  BY <1>2, <1>6 DEF ListEnds, AttrReply, timeVars
<1>7. CASE GetAttrReply
  BY <1>7 DEF GetAttrReply, StampInv
<1>8. ASSUME NEW type \in TypeCodes, OtherLookup(type) PROVE StampInv'
  BY <1>2, <1>8 DEF OtherLookup, timeVars
<1>9. CASE UNCHANGED attrVars
  BY <1>2, <1>9 DEF attrVars, timeVars
<1>10. QED
  BY <1>1, <1>3, <1>4, <1>5, <1>6, <1>7, <1>8, <1>9 DEF AttrNext

\* The date that stat shows is the one that the entry holds, if that is one of the
\* calendar and not in summer (S_ToUnixTime).
LEMMA ShownDate ==
  ASSUME CalendarDates, StampInv
  PROVE  DatesAgree
<1> DEFINE ts == DecodeTimestamp(stamp[1], stamp[2])
<1> SUFFICES ASSUME call = "stat", HasDate(ts), ts.year \in 0 .. 99
             PROVE  /\ [LocalTime(unixTime) EXCEPT !.year = @ % 100] = ts
                    /\ LocalTime(unixTime).year \in 70 .. 169
  BY DEF DatesAgree, StampShown, ShownTime
<1>1. stamp \in Stamps /\ unixTime = ToUnixTime(ts)
  BY DEF StampInv
<1>2. ts = [day |-> ts.day, month |-> ts.month, year |-> ts.year,
            minute |-> ts.minute, hour |-> ts.hour]
  BY DEF DecodeTimestamp
<1>3. /\ ts.day \in 1 .. DaysOfMonth(TmYear(ts.year), ts.month - 1)
      /\ ts.hour \in 0 .. 23 /\ ts.minute \in 0 .. 59 /\ ts.month \in 1 .. 12
  BY <1>1 DEF CalendarDates, HasDate
<1> HIDE DEF ts
<1>4. LocalTime(unixTime) =
        [day |-> ts.day, month |-> ts.month, year |-> TmYear(ts.year),
         minute |-> ts.minute, hour |-> ts.hour]
  BY <1>1, <1>3, DateKept
<1>5. TmYear(ts.year) \in 70 .. 169 /\ TmYear(ts.year) % 100 = ts.year
  BY DEF TmYear
<1>6. QED
  BY <1>2, <1>4, <1>5

\* For dates of the calendar that are not in summer, in every zone, stat shows what the
\* attributes and .CATALOG show (S_ToUnixTime, S_DecodeTimestamp).
THEOREM DatesAreShown ==
  ASSUME CalendarDates
  PROVE  AttrSpec => []DatesAgree
<1>1. AttrInit => StampInv
  BY DEF AttrInit, StampInv
<1>2. StampInv => DatesAgree
  BY ShownDate
<1>3. QED
  BY <1>1, <1>2, StampStep, PTL DEF AttrSpec
-----------------------------------------------------------------------------
(* The types *)

LEMMA YearBegins ==
  ASSUME NEW y \in 69 .. 170
  PROVE  /\ DaysBeforeYear(y) \in Int /\ -365 <= DaysBeforeYear(y) /\ DaysBeforeYear(y) <= 36525
         /\ y >= 70 => DaysBeforeYear(y) >= 0
         /\ y <= 169 => DaysBeforeYear(y) <= 36160
<1>1. DaysBeforeYear(y) \in Int /\ -365 <= DaysBeforeYear(y) /\ DaysBeforeYear(y) <= 36525
  BY DEF DaysBeforeYear
<1>2. (y >= 70 => DaysBeforeYear(y) >= 0) /\ (y <= 169 => DaysBeforeYear(y) <= 36160)
  BY DEF DaysBeforeYear
<1>3. QED
  BY <1>1, <1>2

\* Where the months begin: the last of them, and the first three.
MonthStart(m, d) ==
  /\ d \in Int /\ 0 <= d /\ d <= 335
  /\ m = 11 => d >= 334
  /\ m <= 2 => d <= 60

LEMMA MonthBegins ==
  ASSUME NEW y \in Int, NEW m \in 0 .. 11
  PROVE  MonthStart(m, DaysBeforeMonth(y, m))
<1>1. m \in {0, 1, 2, 3, 4, 5, 6, 7, 8, 9, 10, 11}
  OBVIOUS
<1>2. QED
  BY <1>1, MonthTable DEF MonthStart

\* A month before the first or behind the last is one of another year.
LEMMA MonthCarried ==
  ASSUME NEW k \in -1 .. 14
  PROVE  \/ k \div 12 = -1 /\ k % 12 = 11
         \/ k \div 12 = 0 /\ k % 12 \in 0 .. 11
         \/ k \div 12 = 1 /\ k % 12 \in 0 .. 2
<1> DEFINE q == k \div 12
           r == k % 12
<1>1. q \in Int /\ q * 12 <= k /\ k < 12 * q + 12
  OBVIOUS
<1>2. r = k - 12 * q
  OBVIOUS
<1> HIDE DEF q, r
<1>3. q = -1 \/ q = 0 \/ q = 1
  BY <1>1
<1>4. (q = -1 /\ r = 11) \/ (q = 0 /\ r \in 0 .. 11) \/ (q = 1 /\ r \in 0 .. 2)
  BY <1>1, <1>2, <1>3
<1>5. QED
  BY <1>4 DEF q, r

\* The widths of the fields.
LEMMA BitFields ==
  ASSUME NEW w \in Word
  PROVE  /\ w % 32 \in 0 .. 31 /\ (w \div 32) % 16 \in 0 .. 15 /\ w \div 512 \in 0 .. 127
         /\ (w % 256) % 64 \in 0 .. 63 /\ (w \div 256) % 32 \in 0 .. 31
<1>1. w \in Nat /\ w <= 65535
  BY DEF Word
<1>2. w % 32 \in 0 .. 31
  BY <1>1
<1>3. (w \div 32) % 16 \in 0 .. 15 
  BY <1>1
<1>4. w \div 512 \in Nat /\ w \div 512 <= 127
  BY <1>1
<1>5. (w % 256) % 64 \in 0 .. 63 /\ (w \div 256) % 32 \in 0 .. 31
  BY <1>1
<1>6. QED
  BY <1>2, <1>3, <1>4, <1>5

LEMMA MinutesRange ==
  ASSUME NEW t \in Int, t >= -46080, t <= 53121600
  PROVE  t \in Minutes
<1> DEFINE first == -32 * 1440
           last == DaysBeforeYear(171) * 1440
<1>1. DaysBeforeYear(171) = 36890
  BY SMT DEF DaysBeforeYear
<1>2. first \in Int /\ last \in Int /\ first <= t /\ t <= last
  BY <1>1, SMT
<1>3. Minutes = first .. last
  BY SMT DEF Minutes
<1> HIDE DEF first, last
<1>4. QED
  BY <1>2, <1>3, SMT

\* Whatever bits a date has, mktime's answer is one of Minutes.
LEMMA TimeInRange ==
  ASSUME NEW date \in Word, NEW time \in Word
  PROVE  ToUnixTime(DecodeTimestamp(date, time)) \in Minutes
<1> DEFINE ts == DecodeTimestamp(date, time)
           year == TmYear(ts.year)
           month == ts.month - 1
           y == year + month \div 12
           m == month % 12
           days == DaysBeforeYear(y) + DaysBeforeMonth(y, m) + ts.day - 1
<1>1. /\ ts.day \in 0 .. 31 /\ ts.month \in 0 .. 15 /\ ts.year \in 0 .. 127
      /\ ts.minute \in 0 .. 63 /\ ts.hour \in 0 .. 31
  BY BitFields DEF DecodeTimestamp, Month, Low, High
<1>2. ToUnixTime(ts) = (days * 24 + ts.hour) * 60 + ts.minute
  BY DEF ToUnixTime, MkTime, TmMon
<1> HIDE DEF ts
<1>3. year \in 70 .. 169 /\ month \in -1 .. 14
  BY <1>1 DEF TmYear
<1> HIDE DEF year, month
<1>4. /\ \/ m = 11 /\ y \in 69 .. 168
         \/ m \in 0 .. 11 /\ y \in 70 .. 169
         \/ m \in 0 .. 2 /\ y \in 71 .. 170
      /\ month \div 12 \in Int
  BY <1>3, MonthCarried
<1> HIDE DEF m, y
<1> DEFINE before == DaysBeforeYear(y)
           inYear == DaysBeforeMonth(y, m)
<1>5. y \in Int /\ y \in 69 .. 170
  BY <1>4
<1>6. /\ before \in Int /\ -365 <= before /\ before <= 36525
      /\ y >= 70 => before >= 0
      /\ y <= 169 => before <= 36160
  BY <1>5, YearBegins
<1>7. MonthStart(m, inYear)
  <2>1. y \in Int /\ m \in 0 .. 11
    BY <1>4, <1>5
  <2>2. QED
    BY <2>1, MonthBegins, Zenon
<1> HIDE DEF before, inYear
<1>8. before + inYear \in Int /\ -31 <= before + inYear /\ before + inYear <= 36585
  BY <1>4, <1>6, <1>7 DEF MonthStart
<1>9. days \in Int /\ -32 <= days /\ days <= 36615
  BY <1>1, <1>8 DEF before, inYear
<1> HIDE DEF days
<1>10. /\ (days * 24 + ts.hour) * 60 + ts.minute \in Int
       /\ -46080 <= (days * 24 + ts.hour) * 60 + ts.minute
       /\ (days * 24 + ts.hour) * 60 + ts.minute <= 53121600
  <2>1. ASSUME NEW d \in Int, NEW h \in Int, NEW n \in Int,
               -32 <= d, d <= 36615, 0 <= h, h <= 31, 0 <= n, n <= 63
        PROVE  /\ (d * 24 + h) * 60 + n \in Int
               /\ -46080 <= (d * 24 + h) * 60 + n /\ (d * 24 + h) * 60 + n <= 53121600
    BY <2>1
  <2>2. /\ ts.hour \in Int /\ 0 <= ts.hour /\ ts.hour <= 31
        /\ ts.minute \in Int /\ 0 <= ts.minute /\ ts.minute <= 63
    BY <1>1
  <2>3. QED
    BY <1>9, <2>1, <2>2
<1> DEFINE t == (days * 24 + ts.hour) * 60 + ts.minute
<1> HIDE DEF t
<1>11. t \in Minutes
  <2>1. t \in Int /\ -46080 <= t /\ t <= 53121600
    BY <1>10, SMT DEF t
  <2>2. QED
    BY <2>1, MinutesRange, SMT
<1>12. QED
  BY <1>2, <1>11, Zenon DEF ts, t

\* The table of file types and the date that getattr shows.
TimeInv ==
  /\ inserted \subseteq TypeCodes
  /\ stamp \in Stamps \cup {<<0, 0>>}
  /\ unixTime \in Minutes

LEMMA TimeStep ==
  ASSUME CallInv, TimeInv, [AttrNext]_attrVars
  PROVE  TimeInv'
<1>1. ASSUME NEW type \in TypeCodes PROVE GetFileTypeInfo(inserted, type) \subseteq TypeCodes
  BY DEF TimeInv, GetFileTypeInfo
<1>2. TypeLookedUp => inserted' \subseteq TypeCodes
  BY <1>1, AttributesAssumption DEF TypeLookedUp, TimeInv, CallInv, AttributesAssumption
<1>3. 0 \in Minutes
  BY MinutesRange
<1>4. ASSUME NEW s \in Stamps, GetAttr(s) PROVE TimeInv'
  <2>1. s[1] \in Word /\ s[2] \in Word
    BY AttributesAssumption DEF AttributesAssumption
  <2>2. QED
    BY <1>4, <2>1, TimeInRange DEF GetAttr, TimeInv
<1>5. CASE GetAttrReply
  BY <1>3, <1>5 DEF GetAttrReply, TimeInv
<1>6. ASSUME NEW n \in Sizes, ListXattr(n) PROVE TimeInv'
  BY <1>2, <1>6 DEF ListXattr, Ask, timeVars, TimeInv
<1>7. ASSUME NEW a \in AnyAttribute, NEW n \in Sizes, GetXattr(a, n) PROVE TimeInv'
  BY <1>2, <1>7 DEF GetXattr, Ask, timeVars, TimeInv
<1>8. ASSUME NEW type \in TypeCodes, OtherLookup(type) PROVE TimeInv'
  BY <1>1, <1>8 DEF OtherLookup, timeVars, TimeInv
<1>9. ASSUME UNCHANGED <<inserted, timeVars>> PROVE TimeInv'
  BY <1>9 DEF timeVars, TimeInv
<1>10. CASE ListEnds \/ AttrReply
  BY <1>9, <1>10 DEF ListEnds, AttrReply
<1>11. ASSUME NEW a \in attributes, ListName(a) \/ ListOutOfRange(a) PROVE TimeInv'
  BY <1>9, <1>11 DEF ListName, ListOutOfRange
<1>12. CASE UNCHANGED attrVars
  BY <1>9, <1>12 DEF attrVars
<1>13. QED
  BY <1>4, <1>5, <1>6, <1>7, <1>8, <1>10, <1>11, <1>12 DEF AttrNext

\* Every variable of the calls keeps its type: what getattr shows is a time that mktime
\* can return, for every 32 bits that an entry may hold as a date.
THEOREM AttributesTypeCorrect == AttrSpec => []AttrTypeOK
<1>1. AttrInit => TimeInv
  BY MinutesRange DEF AttrInit, TimeInv
<1>2. AttributesInv => CallInv
  BY DEF AttributesInv
<1>3. CallInv /\ TimeInv => AttrTypeOK
  BY DEF CallInv, TimeInv, AttrTypeOK, Names
<1>4. QED
  BY <1>1, <1>2, <1>3, TimeStep, AttributesInvariant, PTL DEF AttrSpec
=============================================================================
