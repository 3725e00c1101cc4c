------------------------------ MODULE CatalogFile ------------------------------
(***************************************************************************)
(* The virtual file .CATALOG: prodosfs_getattr, prodosfs_open,             *)
(* prodosfs_read and prodosfs_close (main.cxx) for a file whose text       *)
(* volume_t::Catalog (source/volume.cxx) writes when it is opened.         *)
(*                                                                         *)
(* getattr cannot know the size and reports the largest, so readers ask    *)
(* for bytes until a reply is short, or seek to where they like.  The text *)
(* is counted in lines, each a byte: a heading, the entries, the totals.   *)
(***************************************************************************)
EXTENDS Directory

CONSTANTS
  FILE_SIZE_MAX,   \* the size that getattr reports (2^24 - 1)
  Handles,         \* open files, each with its reader
  Sizes,           \* bytes that a reader asks for at a time
  Offsets,         \* where a reader may start (tail and pread seek)
  NULL

\* Lines of the text; the line of an entry is named by the entry's place.
Heading == <<0, 0>>
Totals == <<0, 1>>

ASSUME CatalogAssumption ==
  /\ FILE_SIZE_MAX \in Nat
  /\ \A k \in Directories : FileCount[k] + 2 < FILE_SIZE_MAX
  /\ Sizes \subseteq Nat \ {0}
  /\ Offsets \subseteq 0 .. FILE_SIZE_MAX
  /\ NULL \notin Directories \cup Cursors

VARIABLES
  dir,          \* dir[h]: the directory whose catalog h is, NULL if h is closed
  cursor,       \* cursor[h]: Catalog's directory_handle_t, NULL when it has returned
  data,         \* data[h]: the std::string that fi->fh points to
  offset,       \* offset[h]: where the reader of h reads next
  start,        \* start[h]: where the reader of h read first
  got,          \* got[h]: what the reader has read since it opened h
  ended,        \* ended[h]: the reader has seen the end of the file
  terminated    \* an exception left a callback: std::terminate

textVars == <<dir, cursor, data>>
readerVars == <<offset, start, got, ended>>
vars == <<textVars, readerVars, terminated>>

Lines == {Heading, Totals} \cup UNION {ActivePlaces(k) : k \in Directories}

TypeOK ==
  /\ dir \in [Handles -> Directories \cup {NULL}]
  /\ cursor \in [Handles -> Cursors \cup {NULL}]
  /\ data \in [Handles -> Seq(Lines)]
  /\ offset \in [Handles -> 0 .. FILE_SIZE_MAX]
  /\ start \in [Handles -> Offsets \cup {0}]
  /\ got \in [Handles -> Seq(Lines)]
  /\ ended \in [Handles -> BOOLEAN]
  /\ terminated \in BOOLEAN

Init ==
  /\ dir = [h \in Handles |-> NULL]
  /\ cursor = [h \in Handles |-> NULL]
  /\ data = [h \in Handles |-> <<>>]
  /\ offset = [h \in Handles |-> 0]
  /\ start = [h \in Handles |-> 0]
  /\ got = [h \in Handles |-> <<>>]
  /\ ended = [h \in Handles |-> FALSE]
  /\ terminated = FALSE

-----------------------------------------------------------------------------
(* prodosfs_open and volume_t::Catalog *)

\* Catalog's OpenDirectory finds the directory, and its nullptr is never returned: the
\* kernel opens a file only after getattr has found its parent, under the same name and in
\* an image that does not change, and a pathname with a colon, which getattr erases with
\* -e, loses its ".CATALOG" in prodosfs_open and does not get here.
Open(h, k) ==
  /\ dir[h] = NULL
  /\ dir' = [dir EXCEPT ![h] = k]
  /\ cursor' = [cursor EXCEPT ![h] = OpenCursor(k)]
  /\ data' = [data EXCEPT ![h] = <<Heading>>]
  /\ UNCHANGED <<readerVars, terminated>>

\* NextEntry's loop passes over an inactive slot.
SkipInactive(h) ==
  LET c == cursor[h] IN
  /\ c # NULL
  /\ ~AtEnd(c)
  /\ EntryAt(c.key, Place(c)) = Inactive
  /\ IF NoMoreBlocks(c)
     THEN terminated' = TRUE /\ UNCHANGED cursor
     ELSE cursor' = [cursor EXCEPT ![h] = NextCursor(c)] /\ UNCHANGED terminated
  /\ UNCHANGED <<dir, data, readerVars>>

\* NextEntry returns an entry, and its line is appended.
AppendLine(h) ==
  LET c == cursor[h] IN
  /\ c # NULL
  /\ ~AtEnd(c)
  /\ EntryAt(c.key, Place(c)) # Inactive
  /\ IF NoMoreBlocks(c)
     THEN terminated' = TRUE /\ UNCHANGED <<cursor, data>>
     ELSE /\ cursor' = [cursor EXCEPT ![h] = Taken(c)]
          /\ data' = [data EXCEPT ![h] = Append(@, Place(c))]
          /\ UNCHANGED terminated
  /\ UNCHANGED <<dir, readerVars>>

\* NextEntry returns nullptr.
AppendTotals(h) ==
  /\ cursor[h] # NULL
  /\ AtEnd(cursor[h])
  /\ cursor' = [cursor EXCEPT ![h] = NULL]
  /\ data' = [data EXCEPT ![h] = Append(@, Totals)]
  /\ UNCHANGED <<dir, readerVars, terminated>>

\* prodosfs_open has returned.
Ready(h) == dir[h] # NULL /\ cursor[h] = NULL

-----------------------------------------------------------------------------
(* Reading *)

\* A reader seeks before its first read, anywhere in the size that getattr gave.
Seek(h, off) ==
  /\ Ready(h)
  /\ offset[h] = 0
  /\ offset' = [offset EXCEPT ![h] = off]
  /\ start' = [start EXCEPT ![h] = off]
  /\ UNCHANGED <<textVars, got, ended, terminated>>

\* Mutant: the count of bytes is taken for the offset of the last.
CopyOneLess(s, size, off) ==
  SubSeq(s, off + 1, IF off + size < Len(s) THEN off + size ELSE Len(s) - 1)

\* std::string::copy
Copy(s, size, off) ==
  SubSeq(s, off + 1, IF off + size <= Len(s) THEN off + size ELSE Len(s))

\* std::string::copy throws std::out_of_range.
OutOfRange(s, off) == off > Len(s)

\* prodosfs_read
Read(h, size) ==
  LET reply == Copy(data[h], size, offset[h]) IN
  /\ Ready(h) /\ ~ended[h]
  /\ IF OutOfRange(data[h], offset[h])
     THEN terminated' = TRUE /\ UNCHANGED <<offset, got, ended>>
     ELSE /\ got' = [got EXCEPT ![h] = @ \o reply]
          /\ offset' = [offset EXCEPT ![h] = @ + Len(reply)]
          /\ ended' = [ended EXCEPT ![h] = (reply = <<>>)]
          /\ UNCHANGED terminated
  /\ UNCHANGED <<textVars, start>>

\* prodosfs_close
Close(h) ==
  /\ Ready(h)
  /\ dir' = [dir EXCEPT ![h] = NULL]
  /\ data' = [data EXCEPT ![h] = <<>>]
  /\ offset' = [offset EXCEPT ![h] = 0]
  /\ start' = [start EXCEPT ![h] = 0]
  /\ got' = [got EXCEPT ![h] = <<>>]
  /\ ended' = [ended EXCEPT ![h] = FALSE]
  /\ UNCHANGED <<cursor, terminated>>

Next ==
  /\ ~terminated
  /\ \E h \in Handles :
       \/ \E k \in Directories : Open(h, k)
       \/ SkipInactive(h)
       \/ AppendLine(h)
       \/ AppendTotals(h)
       \/ \E off \in Offsets : Seek(h, off)
       \/ \E size \in Sizes : Read(h, size)
       \/ Close(h)

Spec == Init /\ [][Next]_vars

-----------------------------------------------------------------------------
(* Properties *)

\* What a reader opens is the whole catalog: the heading, every active entry of the
\* directory once and in the order on disk, and the totals (Catalog, NextEntry).
CatalogComplete ==
  \A h \in Handles : Ready(h) =>
    LET n == Len(data[h]) IN
    /\ data[h][1] = Heading /\ data[h][n] = Totals
    /\ {data[h][i] : i \in 2 .. n - 1} = ActivePlaces(dir[h])
    /\ \A i, j \in 2 .. n - 1 : i < j => Before(data[h][i], data[h][j])

\* A reader that goes on to the end has the catalog from where it started, although
\* getattr told it that the file is longer, and whatever pieces it asks for.
RestIsRead ==
  \A h \in Handles :
    ended[h] => got[h] = SubSeq(data[h], start[h] + 1, Len(data[h]))

\* No exception leaves a callback.  It does when a read starts behind the catalog,
\* though within the size that getattr reports.
NeverTerminates == ~terminated
=============================================================================
