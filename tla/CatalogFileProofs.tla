--------------------------- MODULE CatalogFileProofs ---------------------------
(***************************************************************************)
(* What is written into and read from .CATALOG, for every volume that      *)
(* satisfies LayoutAssumption and any open files and readers.              *)
(***************************************************************************)
EXTENDS CatalogFile, DirectoryProofs

\* The elements of s from the second to the n-th are those of S, in the order on disk.
Lists(s, n, S) ==
  /\ \A i \in 2 .. n : s[i] \in S
  /\ \A p \in S : \E i \in 2 .. n : s[i] = p
  /\ \A i, j \in 2 .. n : i < j => Before(s[i], s[j])

\* While Catalog runs, the heading and the entries that its cursor has passed are there.
Writing(h) ==
  /\ Counting(cursor[h]) /\ cursor[h].key = dir[h]
  /\ Len(data[h]) = cursor[h].count + 1
  /\ data[h][1] = Heading
  /\ Lists(data[h], Len(data[h]), Passed(cursor[h]))

Written(h) ==
  /\ Len(data[h]) = FileCount[dir[h]] + 2
  /\ data[h][1] = Heading /\ data[h][Len(data[h])] = Totals
  /\ Lists(data[h], Len(data[h]) - 1, ActivePlaces(dir[h]))

TextInv(h) ==
  /\ dir[h] = NULL => cursor[h] = NULL /\ data[h] = <<>>
  /\ dir[h] # NULL /\ cursor[h] # NULL => Writing(h)
  /\ Ready(h) => Written(h)

\* What a reader has is what lies between where it started and where it is.
ReaderInv(h) ==
  /\ ~Ready(h) => offset[h] = 0 /\ start[h] = 0 /\ got[h] = <<>> /\ ended[h] = FALSE
  /\ start[h] <= offset[h] /\ Len(got[h]) = offset[h] - start[h]
  /\ got[h] # <<>> => offset[h] <= Len(data[h])
  /\ \A i \in 1 .. Len(got[h]) : got[h][i] = data[h][start[h] + i]
  /\ ended[h] => offset[h] = Len(data[h])

CatalogInv ==
  /\ TypeOK
  /\ \A h \in Handles : TextInv(h) /\ ReaderInv(h)

-----------------------------------------------------------------------------
(* Lemmas *)

LEMMA NullFacts ==
  /\ NULL \notin Directories /\ NULL \notin Cursors
  /\ FILE_SIZE_MAX \in Nat
  /\ \A k \in Directories :
       FileCount[k] \in Nat /\ FileCount[k] + 2 < FILE_SIZE_MAX /\ ActivePlaces(k) \subseteq Lines
  /\ Heading \in Lines /\ Totals \in Lines
<1>1. ASSUME NEW k \in Directories PROVE FileCount[k] \in Nat
  BY SlotsType, ActiveFinite, FS_CardinalityType
<1>2. QED
  BY <1>1, CatalogAssumption DEF CatalogAssumption, Lines

\* An element that comes after all that are listed is listed too.
LEMMA ListsAppend ==
  ASSUME NEW T, NEW s \in Seq(T), NEW e \in T, NEW S, Lists(s, Len(s), S), Len(s) >= 1,
         \A p \in S : Before(p, e)
  PROVE  Lists(Append(s, e), Len(s) + 1, S \cup {e})
<1> DEFINE t == Append(s, e)
           n == Len(s)
<1>1. n \in Nat /\ t[n + 1] = e /\ \A i \in 1 .. n : t[i] = s[i]
  BY AppendElements
<1> HIDE DEF t, n
<1>2. \A i \in 2 .. n : t[i] \in S /\ t[i] = s[i]
  BY <1>1 DEF Lists, n
<1>3. \A i \in 2 .. n + 1 : t[i] \in S \cup {e}
  BY <1>1, <1>2
<1>4. ASSUME NEW p \in S \cup {e} PROVE \E i \in 2 .. n + 1 : t[i] = p
  <2>1. CASE p = e
    <3>1. n + 1 \in 2 .. n + 1
      BY <1>1 DEF n
    <3>2. QED
      BY <1>1, <2>1, <3>1
  <2>2. CASE p \in S
    <3>1. PICK i \in 2 .. n : s[i] = p
      BY <2>2 DEF Lists, n
    <3>2. QED
      BY <1>1, <1>2, <3>1
  <2>3. QED
    BY <2>1, <2>2
<1>5. ASSUME NEW i \in 2 .. n + 1, NEW j \in 2 .. n + 1, i < j PROVE Before(t[i], t[j])
  <2>1. CASE j = n + 1
    BY <1>1, <1>2, <1>5, <2>1
  <2>2. CASE j # n + 1
    BY <1>1, <1>2, <1>5, <2>2 DEF Lists, n
  <2>3. QED
    BY <2>1, <2>2
<1>6. QED
  BY <1>3, <1>4, <1>5 DEF Lists, t, n

LEMMA ListsKept ==
  ASSUME NEW T, NEW s \in Seq(T), NEW e \in T, NEW S, Lists(s, Len(s), S)
  PROVE  Lists(Append(s, e), Len(s), S)
<1>1. Len(s) \in Nat /\ \A i \in 2 .. Len(s) : Append(s, e)[i] = s[i]
  BY AppendElements
<1>2. QED
  BY <1>1 DEF Lists

\* What std::string::copy gives is the piece from the offset, and nothing only at the end.
LEMMA CopyFacts ==
  ASSUME NEW T, NEW s, NEW size, NEW off,
         s \in Seq(T), size \in Nat \ {0}, off \in Nat, ~OutOfRange(s, off)
  PROVE  /\ Copy(s, size, off) \in Seq(T) /\ Len(Copy(s, size, off)) \in Nat
         /\ off + Len(Copy(s, size, off)) <= Len(s)
         /\ \A i \in 1 .. Len(Copy(s, size, off)) : Copy(s, size, off)[i] = s[off + i]
         /\ Copy(s, size, off) = <<>> => off = Len(s)
<1> DEFINE m == IF off + size <= Len(s) THEN off + size ELSE Len(s)
<1>1. Len(s) \in Nat /\ off <= Len(s) /\ \A i \in 1 .. Len(s) : s[i] \in T
  BY LenProperties, ElementOfSeq DEF OutOfRange
<1>2. m \in Nat /\ off <= m /\ m <= Len(s) /\ (m = off => off = Len(s))
  BY <1>1
<1>3. Copy(s, size, off) = SubSeq(s, off + 1, m)
  BY DEF Copy
<1> HIDE DEF m
<1>4. \A i \in off + 1 .. m : s[i] \in T
  BY <1>1, <1>2
<1>5. off + 1 \in Int /\ m \in Int
  BY <1>2
<1>6. /\ SubSeq(s, off + 1, m) \in Seq(T)
      /\ Len(SubSeq(s, off + 1, m)) = IF off + 1 <= m THEN m - (off + 1) + 1 ELSE 0
      /\ \A i \in 1 .. m - (off + 1) + 1 : SubSeq(s, off + 1, m)[i] = s[off + 1 + i - 1]
  BY <1>4, <1>5, SubSeqProperties
<1>7. Len(SubSeq(s, off + 1, m)) = m - off
  BY <1>2, <1>6
<1>8. \A i \in 1 .. m - off : SubSeq(s, off + 1, m)[i] = s[off + i]
  BY <1>2, <1>6
<1>9. SubSeq(s, off + 1, m) = <<>> => m = off
  BY <1>2, <1>7
<1>10. m - off \in Nat /\ off + (m - off) = m
  BY <1>2
<1>11. QED
  BY <1>2, <1>3, <1>6, <1>7, <1>8, <1>9, <1>10

\* Only the handle that a step is about changes.
Same(g) ==
  /\ dir'[g] = dir[g] /\ cursor'[g] = cursor[g] /\ data'[g] = data[g]
  /\ offset'[g] = offset[g] /\ start'[g] = start[g] /\ got'[g] = got[g] /\ ended'[g] = ended[g]

LEMMA OneHandle ==
  ASSUME CatalogInv, NEW h \in Handles, TypeOK', TextInv(h)', ReaderInv(h)',
         \A g \in Handles \ {h} : Same(g)
  PROVE  CatalogInv'
<1>1. ASSUME NEW g \in Handles \ {h} PROVE TextInv(g)' /\ ReaderInv(g)'
  <2>1. TextInv(g) /\ ReaderInv(g) /\ Same(g)
    BY DEF CatalogInv
  <2>2. TextInv(g)'
    BY <2>1 DEF TextInv, Ready, Writing, Written, Same
  <2>3. ReaderInv(g)'
    BY <2>1 DEF ReaderInv, Ready, Same
  <2>4. QED
    BY <2>2, <2>3
<1>2. QED
  BY <1>1 DEF CatalogInv

\* As long as the reader has not begun, the text may change.
LEMMA NotBegun ==
  ASSUME NEW h \in Handles, offset'[h] = 0, start'[h] = 0, got'[h] = <<>>, ended'[h] = FALSE
  PROVE  ReaderInv(h)'
BY DEF ReaderInv

-----------------------------------------------------------------------------
(* The steps *)

LEMMA InitInv == Init => CatalogInv
<1> SUFFICES ASSUME Init PROVE CatalogInv
  OBVIOUS
<1>1. TypeOK
  <2>1. <<>> \in Seq(Lines)
    OBVIOUS
  <2>2. 0 \in 0 .. FILE_SIZE_MAX
    BY NullFacts
  <2>3. QED
    BY <2>1, <2>2 DEF Init, TypeOK
<1>2. ASSUME NEW h \in Handles PROVE TextInv(h) /\ ReaderInv(h)
  BY DEF Init, TextInv, ReaderInv, Ready
<1>3. QED
  BY <1>1, <1>2 DEF CatalogInv

LEMMA OpenInv ==
  ASSUME CatalogInv, NEW h \in Handles, NEW k \in Directories, Open(h, k)
  PROVE  CatalogInv'
<1>1. /\ dir' = [dir EXCEPT ![h] = k] /\ cursor' = [cursor EXCEPT ![h] = OpenCursor(k)]
      /\ data' = [data EXCEPT ![h] = <<Heading>>] /\ UNCHANGED <<readerVars, terminated>>
      /\ dir[h] = NULL
  BY DEF Open
<1>2. TypeOK /\ ReaderInv(h)
  BY DEF CatalogInv
<1>3. /\ Counting(OpenCursor(k)) /\ OpenCursor(k).key = k /\ Passed(OpenCursor(k)) = {}
      /\ OpenCursor(k) \in Cursors /\ OpenCursor(k).count = 0
  BY OpenCounts DEF Counting, Standing, OpenCursor
<1>4. TypeOK'
  <2>1. <<Heading>> \in Seq(Lines)
    BY NullFacts
  <2>2. QED
    BY <1>1, <1>2, <1>3, <2>1 DEF TypeOK, readerVars
<1>5. /\ dir'[h] = k /\ cursor'[h] = OpenCursor(k) /\ data'[h] = <<Heading>>
      /\ k # NULL /\ OpenCursor(k) # NULL
  BY <1>1, <1>2, <1>3, NullFacts DEF TypeOK
<1>6. TextInv(h)'
  <2>1. Len(<<Heading>>) = 1 /\ <<Heading>>[1] = Heading
    OBVIOUS
  <2>2. Lists(<<Heading>>, 1, {})
    BY DEF Lists
  <2>3. Writing(h)'
    BY <1>3, <1>5, <2>1, <2>2 DEF Writing
  <2>4. QED
    BY <1>5, <2>3 DEF TextInv, Ready
<1>7. ReaderInv(h)'
  BY <1>1, <1>2, NotBegun DEF ReaderInv, Ready, readerVars
<1>8. \A g \in Handles \ {h} : Same(g)
  BY <1>1, <1>2 DEF Same, TypeOK, readerVars
<1>9. QED
  BY <1>4, <1>6, <1>7, <1>8, OneHandle

\* What holds of a handle whose catalog is being written.
LEMMA WritingFacts ==
  ASSUME CatalogInv, NEW h \in Handles, cursor[h] # NULL
  PROVE  /\ dir[h] \in Directories /\ Writing(h) /\ Counting(cursor[h]) /\ ~Ready(h)
         /\ offset[h] = 0 /\ start[h] = 0 /\ got[h] = <<>> /\ ended[h] = FALSE
         /\ data[h] \in Seq(Lines) /\ Len(data[h]) \in Nat /\ Len(data[h]) >= 1
<1>1. TypeOK /\ TextInv(h) /\ ReaderInv(h)
  BY DEF CatalogInv
<1>2. dir[h] \in Directories /\ Writing(h) /\ Counting(cursor[h]) /\ ~Ready(h)
  BY <1>1 DEF TextInv, TypeOK, Writing, Ready
<1>3. data[h] \in Seq(Lines) /\ Len(data[h]) \in Nat
  BY <1>1, LenProperties DEF TypeOK
<1>4. Len(data[h]) >= 1
  BY <1>2, <1>3 DEF Writing, Counting, Standing, Cursors
<1>5. QED
  BY <1>1, <1>2, <1>3, <1>4 DEF ReaderInv

LEMMA SkipInactiveInv ==
  ASSUME CatalogInv, NEW h \in Handles, SkipInactive(h)
  PROVE  CatalogInv'
<1> DEFINE c == cursor[h]
<1>1. /\ c # NULL /\ ~AtEnd(c) /\ EntryAt(c.key, Place(c)) = Inactive
      /\ UNCHANGED <<dir, data, readerVars>>
  BY DEF SkipInactive
<1>2. /\ TypeOK /\ Writing(h) /\ Counting(c) /\ dir[h] \in Directories
      /\ offset[h] = 0 /\ start[h] = 0 /\ got[h] = <<>> /\ ended[h] = FALSE
  BY <1>1, WritingFacts DEF CatalogInv
<1>3. ~NoMoreBlocks(c)
  BY <1>1, <1>2, BlocksSuffice
<1>4. cursor' = [cursor EXCEPT ![h] = NextCursor(c)] /\ UNCHANGED terminated
  BY <1>3 DEF SkipInactive
<1>5. /\ Counting(NextCursor(c)) /\ NextCursor(c).key = c.key /\ NextCursor(c).count = c.count
      /\ Passed(NextCursor(c)) = Passed(c) /\ NextCursor(c) \in Cursors
  <2>1. /\ Counting(NextCursor(c)) /\ NextCursor(c).key = c.key
        /\ Passed(NextCursor(c)) = Passed(c)
    BY <1>1, <1>2, <1>3, SkipCounts
  <2>2. QED
    BY <1>2, <2>1 DEF Counting, Standing
<1>6. cursor'[h] = NextCursor(c) /\ NextCursor(c) # NULL
  BY <1>2, <1>4, <1>5, NullFacts DEF TypeOK
<1>7. TypeOK'
  BY <1>1, <1>2, <1>4, <1>5 DEF TypeOK, readerVars
<1>8. TextInv(h)'
  <2>1. Writing(h)'
    BY <1>1, <1>2, <1>5, <1>6 DEF Writing
  <2>2. QED
    BY <1>1, <1>2, <1>6, <2>1, NullFacts DEF TextInv, Ready
<1>9. ReaderInv(h)'
  BY <1>1, <1>2, NotBegun DEF readerVars
<1>10. \A g \in Handles \ {h} : Same(g)
  BY <1>1, <1>2, <1>4 DEF Same, TypeOK, readerVars
<1>11. QED
  BY <1>7, <1>8, <1>9, <1>10, OneHandle

LEMMA AppendLineInv ==
  ASSUME CatalogInv, NEW h \in Handles, AppendLine(h)
  PROVE  CatalogInv'
<1> DEFINE c == cursor[h]
<1>1. /\ c # NULL /\ ~AtEnd(c) /\ EntryAt(c.key, Place(c)) # Inactive
      /\ UNCHANGED <<dir, readerVars>>
  BY DEF AppendLine
<1>2. /\ TypeOK /\ Writing(h) /\ Counting(c) /\ dir[h] \in Directories
      /\ offset[h] = 0 /\ start[h] = 0 /\ got[h] = <<>> /\ ended[h] = FALSE
      /\ data[h] \in Seq(Lines) /\ Len(data[h]) \in Nat /\ Len(data[h]) >= 1
  BY <1>1, WritingFacts DEF CatalogInv
<1>3. ~NoMoreBlocks(c)
  BY <1>1, <1>2, BlocksSuffice
<1>4. /\ cursor' = [cursor EXCEPT ![h] = Taken(c)]
      /\ data' = [data EXCEPT ![h] = Append(@, Place(c))] /\ UNCHANGED terminated
  BY <1>3 DEF AppendLine
<1>5. /\ Counting(Taken(c)) /\ Taken(c).key = c.key /\ Taken(c).count = c.count + 1
      /\ Place(c) \in ActivePlaces(c.key) /\ Passed(Taken(c)) = Passed(c) \cup {Place(c)}
      /\ Taken(c) \in Cursors
  <2>1. /\ Counting(Taken(c)) /\ Taken(c).key = c.key
        /\ Place(c) \in ActivePlaces(c.key) \ Passed(c)
        /\ Passed(Taken(c)) = Passed(c) \cup {Place(c)}
    BY <1>1, <1>2, <1>3, TakeCounts
  <2>2. Cardinality(Passed(c) \cup {Place(c)}) = Cardinality(Passed(c)) + 1
    BY <1>2, <2>1, PassedFinite, FS_AddElement DEF Counting
  <2>3. QED
    BY <1>2, <2>1, <2>2 DEF Counting, Standing
<1>6. Place(c) \in Lines
  BY <1>2, <1>5, NullFacts DEF Writing
<1>7. /\ cursor'[h] = Taken(c) /\ Taken(c) # NULL /\ data'[h] = Append(data[h], Place(c))
  BY <1>2, <1>4, <1>5, NullFacts DEF TypeOK
<1>8. /\ Append(data[h], Place(c)) \in Seq(Lines)
      /\ Len(Append(data[h], Place(c))) = Len(data[h]) + 1
      /\ Append(data[h], Place(c))[1] = data[h][1]
  BY <1>2, <1>6, AppendElements
<1>9. TypeOK'
  BY <1>1, <1>2, <1>4, <1>5, <1>8 DEF TypeOK, readerVars
<1>10. TextInv(h)'
  <2>1. \A p \in Passed(c) : Before(p, Place(c))
    BY DEF Passed
  <2>2. Lists(Append(data[h], Place(c)), Len(data[h]) + 1, Passed(c) \cup {Place(c)})
    BY <1>2, <1>6, <2>1, ListsAppend DEF Writing
  <2>3. Writing(h)'
    BY <1>1, <1>2, <1>5, <1>7, <1>8, <2>2 DEF Writing
  <2>4. QED
    BY <1>1, <1>2, <1>7, <2>3, NullFacts DEF TextInv, Ready
<1>11. ReaderInv(h)'
  BY <1>1, <1>2, NotBegun DEF readerVars
<1>12. \A g \in Handles \ {h} : Same(g)
  BY <1>1, <1>2, <1>4 DEF Same, TypeOK, readerVars
<1>13. QED
  BY <1>9, <1>10, <1>11, <1>12, OneHandle

LEMMA AppendTotalsInv ==
  ASSUME CatalogInv, NEW h \in Handles, AppendTotals(h)
  PROVE  CatalogInv'
<1> DEFINE c == cursor[h]
<1>1. /\ c # NULL /\ AtEnd(c) /\ cursor' = [cursor EXCEPT ![h] = NULL]
      /\ data' = [data EXCEPT ![h] = Append(@, Totals)] /\ UNCHANGED <<dir, readerVars, terminated>>
  BY DEF AppendTotals
<1>2. /\ TypeOK /\ Writing(h) /\ Counting(c) /\ dir[h] \in Directories
      /\ offset[h] = 0 /\ start[h] = 0 /\ got[h] = <<>> /\ ended[h] = FALSE
      /\ data[h] \in Seq(Lines) /\ Len(data[h]) \in Nat /\ Len(data[h]) >= 1
  BY <1>1, WritingFacts DEF CatalogInv
<1>3. Passed(c) = ActivePlaces(dir[h]) /\ c.count = FileCount[dir[h]]
  BY <1>1, <1>2, AtEndPassedAll DEF Writing, AtEnd
<1>4. cursor'[h] = NULL /\ data'[h] = Append(data[h], Totals) /\ dir'[h] = dir[h]
  BY <1>1, <1>2 DEF TypeOK
<1>5. /\ Append(data[h], Totals) \in Seq(Lines)
      /\ Len(Append(data[h], Totals)) = Len(data[h]) + 1
      /\ Append(data[h], Totals)[Len(data[h]) + 1] = Totals
      /\ Append(data[h], Totals)[1] = data[h][1]
  BY <1>2, NullFacts, AppendElements
<1>6. TypeOK'
  BY <1>1, <1>2, <1>5 DEF TypeOK, readerVars
<1>7. TextInv(h)'
  <2>1. Lists(Append(data[h], Totals), Len(data[h]), ActivePlaces(dir[h]))
    BY <1>2, <1>3, NullFacts, ListsKept DEF Writing
  <2>2. Len(data[h]) = FileCount[dir[h]] + 1 /\ FileCount[dir[h]] \in Nat
    BY <1>2, <1>3, NullFacts DEF Writing
  <2>3. Written(h)'
    <3>1. Len(data[h]) + 1 - 1 = Len(data[h])
      BY <1>2
    <3>2. data'[h][1] = Heading
      BY <1>2, <1>4, <1>5 DEF Writing
    <3>3. QED
      BY <1>4, <1>5, <2>1, <2>2, <3>1, <3>2 DEF Written
  <2>4. QED
    BY <1>2, <1>4, <2>3, NullFacts DEF TextInv
<1>8. ReaderInv(h)'
  BY <1>1, <1>2, NotBegun DEF readerVars
<1>9. \A g \in Handles \ {h} : Same(g)
  BY <1>1, <1>2 DEF Same, TypeOK, readerVars
<1>10. QED
  BY <1>6, <1>7, <1>8, <1>9, OneHandle

\* What holds of a handle whose catalog is there to read.
LEMMA ReadyFacts ==
  ASSUME CatalogInv, NEW h \in Handles, Ready(h)
  PROVE  /\ TypeOK /\ dir[h] \in Directories /\ Written(h) /\ ReaderInv(h)
         /\ data[h] \in Seq(Lines) /\ Len(data[h]) \in Nat
         /\ 2 <= Len(data[h]) /\ Len(data[h]) <= FILE_SIZE_MAX
         /\ got[h] \in Seq(Lines) /\ Len(got[h]) \in Nat
         /\ offset[h] \in Nat /\ start[h] \in Nat
<1>1. TypeOK /\ TextInv(h) /\ ReaderInv(h)
  BY DEF CatalogInv
<1>2. /\ dir[h] \in Directories /\ Written(h) /\ data[h] \in Seq(Lines) /\ got[h] \in Seq(Lines)
      /\ offset[h] \in 0 .. FILE_SIZE_MAX /\ start[h] \in Offsets \cup {0}
  BY <1>1 DEF TextInv, TypeOK, Ready
<1>3. 2 <= Len(data[h]) /\ Len(data[h]) <= FILE_SIZE_MAX
  BY <1>2, NullFacts DEF Written
<1>4. Len(data[h]) \in Nat /\ Len(got[h]) \in Nat
  BY <1>2, LenProperties
<1>5. offset[h] \in Nat /\ start[h] \in Nat
  <2>1. \A n \in 0 .. FILE_SIZE_MAX : n \in Nat
    BY NullFacts
  <2>2. Offsets \cup {0} \subseteq Nat
    BY <2>1, CatalogAssumption DEF CatalogAssumption
  <2>3. QED
    BY <1>2, <2>1, <2>2
<1>6. QED
  BY <1>1, <1>2, <1>3, <1>4, <1>5

LEMMA SeekInv ==
  ASSUME CatalogInv, NEW h \in Handles, NEW off \in Offsets, Seek(h, off)
  PROVE  CatalogInv'
<1>1. /\ Ready(h) /\ offset[h] = 0
      /\ offset' = [offset EXCEPT ![h] = off] /\ start' = [start EXCEPT ![h] = off]
      /\ UNCHANGED <<textVars, got, ended, terminated>>
  BY DEF Seek
<1>2. /\ TypeOK /\ ReaderInv(h) /\ TextInv(h)
      /\ Len(got[h]) \in Nat /\ start[h] \in Nat /\ 2 <= Len(data[h]) /\ got[h] \in Seq(Lines)
  BY <1>1, ReadyFacts DEF CatalogInv
<1>3. off \in 0 .. FILE_SIZE_MAX
  BY CatalogAssumption DEF CatalogAssumption
<1>4. TypeOK'
  BY <1>1, <1>2, <1>3 DEF TypeOK, textVars
<1>5. TextInv(h)'
  BY <1>1, <1>2 DEF TextInv, Ready, Writing, Written, textVars
<1>6. ReaderInv(h)'
  <2>1. got[h] = <<>> /\ ~ended[h]
    <3>1. Len(got[h]) = 0 /\ ~ended[h]
      BY <1>1, <1>2 DEF ReaderInv
    <3>2. QED
      BY <1>2, <3>1, EmptySeq
  <2>2. offset'[h] = off /\ start'[h] = off /\ Ready(h)'
    BY <1>1, <1>2 DEF TypeOK, Ready, textVars
  <2>3. QED
    BY <1>1, <1>3, <2>1, <2>2 DEF ReaderInv
<1>7. \A g \in Handles \ {h} : Same(g)
  BY <1>1, <1>2 DEF Same, TypeOK, textVars
<1>8. QED
  BY <1>4, <1>5, <1>6, <1>7, OneHandle

LEMMA ReadInv ==
  ASSUME CatalogInv, NEW h \in Handles, NEW size \in Sizes, Read(h, size)
  PROVE  CatalogInv'
<1> DEFINE r == Copy(data[h], size, offset[h])
<1>1. Ready(h) /\ ended[h] = FALSE /\ UNCHANGED <<textVars, start>>
  BY DEF Read, CatalogInv, TypeOK
<1>2. /\ TypeOK /\ ReaderInv(h) /\ TextInv(h)
      /\ data[h] \in Seq(Lines) /\ Len(data[h]) \in Nat /\ Len(data[h]) <= FILE_SIZE_MAX
      /\ got[h] \in Seq(Lines) /\ Len(got[h]) \in Nat
      /\ offset[h] \in Nat /\ start[h] \in Nat
  BY <1>1, ReadyFacts DEF CatalogInv
<1>3. TextInv(h)'
  BY <1>1, <1>2 DEF TextInv, Ready, Writing, Written, textVars
<1>4. CASE OutOfRange(data[h], offset[h])
  <2>1. terminated' = TRUE /\ UNCHANGED <<offset, got, ended>>
    BY <1>4 DEF Read
  <2>2. TypeOK'
    BY <1>1, <1>2, <2>1 DEF TypeOK, textVars
  <2>3. ReaderInv(h)'
    BY <1>1, <1>2, <2>1 DEF ReaderInv, Ready, textVars
  <2>4. \A g \in Handles \ {h} : Same(g)
    BY <1>1, <2>1 DEF Same, textVars
  <2>5. QED
    BY <1>3, <2>2, <2>3, <2>4, OneHandle
<1>5. CASE ~OutOfRange(data[h], offset[h])
  <2>1. /\ got' = [got EXCEPT ![h] = @ \o r] /\ offset' = [offset EXCEPT ![h] = @ + Len(r)]
        /\ ended' = [ended EXCEPT ![h] = (r = <<>>)] /\ UNCHANGED terminated
    BY <1>5 DEF Read
  <2>2. size \in Nat \ {0}
    BY CatalogAssumption DEF CatalogAssumption
  <2>3. /\ r \in Seq(Lines) /\ Len(r) \in Nat /\ offset[h] + Len(r) <= Len(data[h])
        /\ \A i \in 1 .. Len(r) : r[i] = data[h][offset[h] + i]
        /\ r = <<>> => offset[h] = Len(data[h])
    <3>1. data[h] \in Seq(Lines) /\ offset[h] \in Nat
      BY <1>2
    <3>2. QED
      BY <3>1, <1>5, <2>2, CopyFacts
  <2> HIDE DEF r
  <2>4. /\ got[h] \o r \in Seq(Lines) /\ Len(got[h] \o r) = Len(got[h]) + Len(r)
        /\ \A i \in 1 .. Len(got[h]) + Len(r) :
             (got[h] \o r)[i] = IF i <= Len(got[h]) THEN got[h][i] ELSE r[i - Len(got[h])]
    BY <1>2, <2>3, ConcatProperties
  <2>5. /\ got'[h] = got[h] \o r /\ offset'[h] = offset[h] + Len(r)
        /\ ended'[h] <=> r = <<>>
    BY <1>2, <2>1 DEF TypeOK
  <2>6. TypeOK'
    <3>1. offset[h] + Len(r) \in 0 .. FILE_SIZE_MAX
      BY <1>2, <2>3, NullFacts
    <3>2. QED
      BY <1>1, <1>2, <2>1, <2>4, <3>1 DEF TypeOK, textVars
  <2>7. ReaderInv(h)'
    <3>1. start[h] <= offset[h] /\ Len(got[h]) = offset[h] - start[h]
      BY <1>2 DEF ReaderInv
    <3>2. ASSUME NEW i \in 1 .. Len(got[h]) + Len(r)
          PROVE  (got[h] \o r)[i] = data[h][start[h] + i]
      <4>1. CASE i <= Len(got[h])
        BY <1>2, <2>4, <4>1 DEF ReaderInv
      <4>2. CASE ~(i <= Len(got[h]))
        <5>1. i - Len(got[h]) \in 1 .. Len(r)
          BY <1>2, <2>3, <4>2
        <5>2. offset[h] + (i - Len(got[h])) = start[h] + i
          BY <1>2, <3>1
        <5>3. QED
          BY <2>3, <2>4, <4>2, <5>1, <5>2
      <4>3. QED
        BY <4>1, <4>2
    <3>3. r = <<>> => Len(r) = 0
      OBVIOUS
    <3>4. Ready(h)' /\ data' = data /\ start' = start
      BY <1>1 DEF Ready, textVars
    <3>5. ended'[h] => offset'[h] = Len(data[h])
      BY <1>2, <2>3, <2>5, <3>3
    <3>6. start[h] <= offset'[h] /\ Len(got'[h]) = offset'[h] - start[h]
      BY <1>2, <2>3, <2>4, <2>5, <3>1
    <3>7. QED
      BY <2>3, <2>4, <2>5, <3>2, <3>4, <3>5, <3>6 DEF ReaderInv
  <2>8. \A g \in Handles \ {h} : Same(g)
    BY <1>1, <1>2, <2>1 DEF Same, TypeOK, textVars
  <2>9. QED
    BY <1>3, <2>6, <2>7, <2>8, OneHandle
<1>6. QED
  BY <1>4, <1>5

LEMMA CloseInv ==
  ASSUME CatalogInv, NEW h \in Handles, Close(h)
  PROVE  CatalogInv'
<1>1. /\ Ready(h) /\ UNCHANGED <<cursor, terminated>> /\ TypeOK
      /\ dir' = [dir EXCEPT ![h] = NULL] /\ data' = [data EXCEPT ![h] = <<>>]
      /\ offset' = [offset EXCEPT ![h] = 0] /\ start' = [start EXCEPT ![h] = 0]
      /\ got' = [got EXCEPT ![h] = <<>>] /\ ended' = [ended EXCEPT ![h] = FALSE]
  BY DEF Close, CatalogInv
<1>2. TypeOK'
  <2>1. <<>> \in Seq(Lines)
    OBVIOUS
  <2>2. QED
    BY <1>1, <2>1, NullFacts DEF TypeOK
<1>3. /\ dir'[h] = NULL /\ data'[h] = <<>> /\ cursor'[h] = NULL
      /\ offset'[h] = 0 /\ start'[h] = 0 /\ got'[h] = <<>> /\ ended'[h] = FALSE
  BY <1>1 DEF TypeOK, Ready
<1>4. TextInv(h)' /\ ReaderInv(h)'
  BY <1>3, NotBegun DEF TextInv, Ready
<1>5. \A g \in Handles \ {h} : Same(g)
  BY <1>1 DEF Same, TypeOK
<1>6. QED
  BY <1>2, <1>4, <1>5, OneHandle

LEMMA StepInv == CatalogInv /\ [Next]_vars => CatalogInv'
<1> SUFFICES ASSUME CatalogInv, [Next]_vars PROVE CatalogInv'
  OBVIOUS
<1>1. CASE UNCHANGED vars
  <2>1. ASSUME NEW h \in Handles PROVE TextInv(h)' /\ ReaderInv(h)'
    BY <1>1 DEF CatalogInv, vars, textVars, readerVars, TextInv, ReaderInv, Ready, Writing, Written
  <2>2. TypeOK'
    BY <1>1 DEF CatalogInv, vars, textVars, readerVars, TypeOK
  <2>3. QED
    BY <2>1, <2>2 DEF CatalogInv
<1>2. QED
  BY <1>1, OpenInv, SkipInactiveInv, AppendLineInv, AppendTotalsInv, SeekInv, ReadInv, CloseInv
     DEF Next

LEMMA Invariant == Spec => []CatalogInv
BY InitInv, StepInv, PTL DEF Spec

-----------------------------------------------------------------------------
(* Theorems *)

\* Every variable keeps its type; no catalog grows to the size that getattr reports.
THEOREM TypeCorrect == Spec => []TypeOK
BY Invariant, PTL DEF CatalogInv

\* What is open to be read has the heading, every active entry once and in the order on
\* disk, and the totals (Catalog, NextEntry).
THEOREM CatalogIsComplete == Spec => []CatalogComplete
<1>1. ASSUME CatalogInv PROVE CatalogComplete
  <2>1. ASSUME NEW h \in Handles, Ready(h)
        PROVE  LET n == Len(data[h]) IN
               /\ data[h][1] = Heading /\ data[h][n] = Totals
               /\ {data[h][i] : i \in 2 .. n - 1} = ActivePlaces(dir[h])
               /\ \A i, j \in 2 .. n - 1 : i < j => Before(data[h][i], data[h][j])
    <3>1. Written(h)
      BY <1>1, <2>1, ReadyFacts
    <3>2. QED
      BY <3>1 DEF Written, Lists
  <2>2. QED
    BY <2>1 DEF CatalogComplete
<1>2. QED
  BY <1>1, Invariant, PTL

\* Whatever pieces a reader asks for, it has at the end what lies between where it started
\* and the end of the catalog (prodosfs_read).
THEOREM ReadersGetTheRest == Spec => []RestIsRead
<1>1. ASSUME CatalogInv PROVE RestIsRead
  <2>1. ASSUME NEW h \in Handles, ended[h]
        PROVE  got[h] = SubSeq(data[h], start[h] + 1, Len(data[h]))
    <3>1. Ready(h)
      BY <1>1, <2>1 DEF CatalogInv, ReaderInv
    <3>2. /\ ReaderInv(h) /\ data[h] \in Seq(Lines) /\ Len(data[h]) \in Nat
          /\ got[h] \in Seq(Lines) /\ Len(got[h]) \in Nat
          /\ offset[h] \in Nat /\ start[h] \in Nat
      BY <1>1, <3>1, ReadyFacts
    <3>3. /\ offset[h] = Len(data[h]) /\ start[h] <= Len(data[h])
          /\ Len(got[h]) = Len(data[h]) - start[h]
          /\ \A i \in 1 .. Len(got[h]) : got[h][i] = data[h][start[h] + i]
      BY <2>1, <3>2 DEF ReaderInv
    <3> DEFINE s == SubSeq(data[h], start[h] + 1, Len(data[h]))
    <3>4. \A i \in start[h] + 1 .. Len(data[h]) : data[h][i] \in Lines
      <4>1. \A i \in 1 .. Len(data[h]) : data[h][i] \in Lines
        BY <3>2, ElementOfSeq
      <4>2. QED
        BY <3>2, <4>1
    <3>5. start[h] + 1 \in Int /\ Len(data[h]) \in Int
      BY <3>2
    <3>6. /\ s \in Seq(Lines)
          /\ Len(s) = IF start[h] + 1 <= Len(data[h]) THEN Len(data[h]) - (start[h] + 1) + 1 ELSE 0
          /\ \A i \in 1 .. Len(data[h]) - (start[h] + 1) + 1 :
               s[i] = data[h][start[h] + 1 + i - 1]
      BY <3>4, <3>5, SubSeqProperties
    <3> HIDE DEF s
    <3>7. Len(s) = Len(got[h])
      BY <3>2, <3>3, <3>6
    <3>8. \A i \in 1 .. Len(got[h]) : got[h][i] = s[i]
      <4>1. ASSUME NEW i \in 1 .. Len(got[h])
            PROVE  /\ i \in 1 .. Len(data[h]) - (start[h] + 1) + 1
                   /\ start[h] + 1 + i - 1 = start[h] + i
        BY <3>2, <3>3
      <4>2. QED
        BY <3>3, <3>6, <4>1
    <3>9. got[h] = s
      BY <3>2, <3>6, <3>7, <3>8, SeqEqual
    <3>10. QED
      BY <3>9 DEF s
  <2>2. QED
    BY <2>1 DEF RestIsRead
<1>2. QED
  BY <1>1, Invariant, PTL

\* A reader that starts within the shortest catalog never makes prodosfs_read throw: that
\* takes an offset that only the size in getattr allows.
THEOREM ReadersInRangeAreSafe ==
  ASSUME \A k \in Directories, off \in Offsets : off <= FileCount[k] + 2
  PROVE  Spec => []NeverTerminates
<1> DEFINE Inv == CatalogInv /\ ~terminated /\ \A h \in Handles : Ready(h) => offset[h] <= Len(data[h])
<1>1. Init => Inv
  BY InitInv DEF Init, Ready
<1>2. Inv /\ [Next]_vars => Inv'
  <2> SUFFICES ASSUME Inv, [Next]_vars PROVE Inv'
    OBVIOUS
  <2>1. CatalogInv' /\ TypeOK
    BY StepInv DEF CatalogInv
  <2>2. ASSUME NEW h \in Handles, SkipInactive(h) \/ AppendLine(h) PROVE ~terminated'
    <3>1. ~AtEnd(cursor[h]) /\ Counting(cursor[h])
      BY <2>2, WritingFacts DEF SkipInactive, AppendLine
    <3>2. QED
      BY <2>2, <3>1, BlocksSuffice DEF SkipInactive, AppendLine
  <2>3. ~terminated'
    <3>1. ASSUME NEW h \in Handles, NEW size \in Sizes, Read(h, size) PROVE ~terminated'
      <4>1. Ready(h) /\ offset[h] <= Len(data[h])
        BY <3>1 DEF Read
      <4>2. ~OutOfRange(data[h], offset[h])
        BY <4>1, ReadyFacts DEF OutOfRange
      <4>3. QED
        BY <3>1, <4>2 DEF Read
    <3>2. QED
      BY <2>2, <3>1 DEF Next, Open, AppendTotals, Seek, Close, vars
  <2>4. ASSUME NEW h \in Handles, Ready(h)' PROVE offset'[h] <= Len(data'[h])
    <3>1. /\ Len(data'[h]) \in Nat /\ dir'[h] \in Directories
          /\ Len(data'[h]) = FileCount[dir'[h]] + 2
      <4>1. TypeOK' /\ TextInv(h)'
        BY <2>1 DEF CatalogInv
      <4>2. data'[h] \in Seq(Lines) /\ dir'[h] \in Directories /\ Written(h)'
        BY <2>4, <4>1 DEF TypeOK, TextInv, Ready
      <4>3. QED
        BY <4>2, LenProperties DEF Written
    <3>2. offset'[h] = 0 => offset'[h] <= Len(data'[h])
      BY <3>1
    <3>3. ~Ready(h) => offset[h] = 0
      BY DEF CatalogInv, ReaderInv
    <3>4. ASSUME NEW g \in Handles,
                 \/ \E k \in Directories : Open(g, k)
                 \/ SkipInactive(g) \/ AppendLine(g) \/ AppendTotals(g)
          PROVE  offset'[h] <= Len(data'[h])
      <4>1. UNCHANGED offset
        BY <3>4 DEF Open, SkipInactive, AppendLine, AppendTotals, readerVars
      <4>2. Ready(h) => data'[h] = data[h]
        BY <2>1, <3>4 DEF Open, SkipInactive, AppendLine, AppendTotals, Ready, TypeOK
      <4>3. QED
        BY <3>2, <3>3, <4>1, <4>2
    <3>5. ASSUME NEW g \in Handles, NEW off \in Offsets, Seek(g, off)
          PROVE  offset'[h] <= Len(data'[h])
      <4>1. UNCHANGED textVars /\ offset'[h] \in {offset[h], off}
        BY <2>1, <3>5 DEF Seek, TypeOK
      <4>2. off <= Len(data'[h])
        BY <3>1
      <4>3. QED
        BY <3>2, <3>3, <4>1, <4>2 DEF textVars
    <3>6. ASSUME NEW g \in Handles, NEW size \in Sizes, Read(g, size)
          PROVE  offset'[h] <= Len(data'[h])
      <4>1. CASE g = h
        <5>1. UNCHANGED textVars /\ Ready(h) /\ offset[h] <= Len(data[h])
          BY <3>6, <4>1 DEF Read
        <5>2. /\ ~OutOfRange(data[h], offset[h]) /\ data[h] \in Seq(Lines) /\ offset[h] \in Nat
              /\ size \in Nat \ {0}
          BY <5>1, ReadyFacts, CatalogAssumption DEF OutOfRange, CatalogAssumption
        <5>3. offset'[h] = offset[h] + Len(Copy(data[h], size, offset[h]))
          BY <2>1, <3>6, <4>1, <5>2 DEF Read, TypeOK
        <5>4. offset[h] + Len(Copy(data[h], size, offset[h])) <= Len(data[h])
          BY <5>2, CopyFacts
        <5>5. QED
          BY <5>1, <5>3, <5>4 DEF textVars
      <4>2. CASE g # h
        BY <2>1, <2>4, <3>6, <4>2 DEF Read, TypeOK, textVars, Ready
      <4>3. QED
        BY <4>1, <4>2
    <3>7. ASSUME NEW g \in Handles, Close(g) PROVE offset'[h] <= Len(data'[h])
      BY <2>1, <2>4, <3>7 DEF Close, TypeOK, Ready
    <3>8. CASE UNCHANGED vars
      BY <2>4, <3>8 DEF vars, textVars, readerVars, Ready
    <3>9. QED
      BY <3>4, <3>5, <3>6, <3>7, <3>8 DEF Next
  <2>5. QED
    BY <2>1, <2>3, <2>4
<1>3. Inv => NeverTerminates
  BY DEF NeverTerminates
<1>4. QED
  BY <1>1, <1>2, <1>3, PTL DEF Spec
=============================================================================
