------------------------------ MODULE PathLookup ------------------------------
(***************************************************************************)
(* Finding the entry that a pathname names: volume_t::GetEntry, OpenFile   *)
(* and OpenDirectory (source/volume.cxx), for the callbacks getattr, open, *)
(* opendir, getxattr and listxattr (main.cxx).                             *)
(*                                                                         *)
(* A pathname is the sequence of its components; every pathname that FUSE  *)
(* passes begins with a slash and does not end with one, the root's apart. *)
(* A walk uses a cursor of its own and a thread-local error, so one walk   *)
(* at a time is enough.  NextEntry is one step here; ReadDirectory has its *)
(* inner loop.                                                             *)
(***************************************************************************)
EXTENDS Directory

CONSTANTS
  Root,            \* key block of the volume directory
  Fold,            \* Fold[n]: name n in the case that strcasecmp compares
  Types,           \* file types, as filename extensions
  Paths,           \* pathnames that are looked up
  ExtensionMode,   \* option -e: is ":<type>" part of the name of a file?
  NoName,          \* the empty name
  Garbled,         \* a component that runs over the slash behind it
  NULL

Kinds == {"file", "directory", "other"}

\* key: the directory's key block; type: the file's type.
EntryType == [name: DOMAIN Fold, kind: Kinds, key: Directories \cup {NULL}, type: Types]

\* A component of a pathname, with the ":<type>" at its end if it has one.
Components == [name: DOMAIN Fold, type: Types \cup {NULL}]

\* The volume directory's header.
RootEntry == [kind |-> "root", key |-> Root]

ASSUME VolumeAssumption ==
  /\ Root \in Directories
  /\ Entries \subseteq EntryType
  /\ NULL \notin Directories /\ NULL \notin Types
  /\ NULL \notin Entries \cup {RootEntry}
  /\ \A e \in Entries : e.kind = "directory" => e.key \in Directories \ {Root}

\* ProDOS allows one entry of a name in a directory.
ASSUME NamesAssumption ==
  \A k \in Directories : \A p, q \in ActivePlaces(k) :
    Fold[EntryAt(k, p).name] = Fold[EntryAt(k, q).name] => p = q

\* No component is empty, but one may be ":<type>" alone.
ASSUME PathsAssumption ==
  /\ Paths \subseteq Seq(Components) /\ Garbled \notin Components
  /\ NoName \in DOMAIN Fold
  /\ \A e \in Entries : Fold[e.name] # Fold[NoName]
  /\ \A p \in Paths : \A i \in 1 .. Len(p) : p[i].name = NoName => p[i].type # NULL

-----------------------------------------------------------------------------
(* What a pathname names, independently of the walk *)

\* The entry of directory k with name n, or NULL.
Named(k, n) ==
  IF \E p \in ActivePlaces(k) : Fold[EntryAt(k, p).name] = Fold[n]
  THEN EntryAt(k, CHOOSE p \in ActivePlaces(k) : Fold[EntryAt(k, p).name] = Fold[n])
  ELSE NULL

\* Where component c leads from the entry e, or NULL.  With -e a component may have an
\* extension, which nothing compares with the type of the entry.
Below(e, c) ==
  IF e # NULL /\ e.kind \in {"root", "directory"} /\ (c.type = NULL \/ ExtensionMode)
  THEN Named(e.key, c.name)
  ELSE NULL

\* Where path p leads.
Resolve(p) ==
  LET to[i \in 0 .. Len(p)] == IF i = 0 THEN RootEntry ELSE Below(to[i - 1], p[i])
  IN  to[Len(p)]

-----------------------------------------------------------------------------
(* Strings *)

\* The components that hold a colon.
Typed(p) == {i \in 1 .. Len(p) : p[i].type # NULL}

\* A pathname that ends in an empty name.
Nameless == [name |-> NoName, type |-> NULL]

\* S_ProdosFilename: the pathname is erased from its last colon on, wherever in it that
\* is, so that the components behind are lost.  Of "/:<type>" the slash is left.
ProdosFilename(p) ==
  IF ExtensionMode /\ Typed(p) # {}
  THEN LET last == CHOOSE i \in Typed(p) : \A j \in Typed(p) : j <= i
           left == [i \in 1 .. last |-> IF i = last THEN [p[i] EXCEPT !.type = NULL] ELSE p[i]]
       IN  IF left = <<Nameless>> THEN <<>> ELSE left
  ELSE p

\* Mutant: the last component is forgotten.
SplitPathNoLast(p) == SubSeq(p, 1, Len(p) - 1)

\* S_SplitPath: substr is given an end where it takes a length, which is right for
\* the first component alone; the last one has no length.
SplitPath(p) ==
  [i \in 1 .. Len(p) |-> IF i \in {1, Len(p)} THEN p[i] ELSE Garbled]

\* entry_t::NameMatches.  No ProDOS name holds a slash or a colon.
NameMatches(e, c) == c # Garbled /\ c.type = NULL /\ Fold[c.name] = Fold[e.name]

-----------------------------------------------------------------------------
VARIABLES
  pc,          \* where the callback is
  op,          \* which callback
  asked,       \* the pathname FUSE passed
  path,        \* GetEntry's path
  itr,         \* GetEntry's itr, a position in path
  cursor,      \* GetEntry's handle
  entry,       \* GetEntry's entry
  error,       \* volume_t::Error(), which outlives the callback
  answer,      \* what the callback returns: an entry or an error number
  terminated   \* an exception left the callback

vars == <<pc, op, asked, path, itr, cursor, entry, error, answer, terminated>>

Ops == {"getattr", "open", "opendir", "getxattr", "listxattr"}

Errors == {"none", "directory_not_found", "file_not_found",
           "unsupported_storage_type", "end_of_file"}

\* S_ToError
ToError(e) ==
  [errno |-> CASE e \in {"none", "end_of_file"} -> "OK"
               [] e = "directory_not_found"     -> "ENOTDIR"
               [] e = "file_not_found"          -> "ENOENT"
               [] OTHER                         -> "EIO"]

\* The error numbers that a callback returns; "OK" is 0.
ErrorNumbers == [errno: {"OK", "ENOTDIR", "ENOENT", "EIO"}]

Answers == Entries \cup {RootEntry, NULL} \cup ErrorNumbers

TypeOK ==
  /\ pc \in {"idle", "next", "match", "found", "failed", "reply"}
  /\ op \in Ops \cup {NULL}
  /\ asked \in Paths \cup {NULL}
  /\ path \in Seq(Components \cup {Garbled})
  /\ itr \in Nat /\ (pc \in {"next", "match"} => itr \in 1 .. Len(path))
  /\ cursor \in Cursors \cup {NULL}
  /\ entry \in Entries \cup {RootEntry, NULL}
  /\ error \in Errors
  /\ answer \in Answers
  /\ terminated \in BOOLEAN

Init ==
  /\ pc = "idle"
  /\ op = NULL
  /\ asked = NULL
  /\ path = <<>>
  /\ itr = 0
  /\ cursor = NULL
  /\ entry = NULL
  /\ error = "none"
  /\ answer = NULL
  /\ terminated = FALSE

\* prodosfs_getxattr and prodosfs_opendir pass the pathname on as it is.
Filename(o, p) == IF o \in {"getxattr", "opendir"} THEN p ELSE ProdosFilename(p)

\* A callback is called.  GetEntry and OpenDirectory know "/" without a walk.
Call(o, p) ==
  /\ pc = "idle"
  /\ op' = o
  /\ asked' = p
  /\ IF Filename(o, p) = <<>>
     THEN pc' = "found" /\ entry' = RootEntry /\ UNCHANGED <<path, itr, cursor>>
     ELSE /\ pc' = "next"
          /\ path' = SplitPath(Filename(o, p))
          /\ itr' = 1
          /\ cursor' = OpenCursor(Root)
          /\ UNCHANGED entry
  /\ UNCHANGED <<error, answer, terminated>>

-----------------------------------------------------------------------------
(* GetEntry *)

\* The first active entry ahead, if there is one.
FirstAhead(c) == CHOOSE p \in Ahead(c) : \A q \in Ahead(c) : ~Before(q, p)

At(c, p) == [c EXCEPT !.block = p[1], !.slot = p[2]]

\* NextEntry
NextEntry ==
  LET stop == At(cursor, FirstAhead(cursor)) IN
  /\ pc = "next"
  /\ ~AtEnd(cursor)
  /\ IF Ahead(cursor) = {} \/ NoMoreBlocks(stop)
     THEN terminated' = TRUE /\ UNCHANGED <<pc, cursor, entry>>
     ELSE /\ entry' = EntryAt(cursor.key, Place(stop))
          /\ cursor' = Taken(stop)
          /\ pc' = "match"
          /\ UNCHANGED terminated
  /\ UNCHANGED <<op, asked, path, itr, error, answer>>

\* Mutant: the error that NextEntry left is returned.
ErrorAtEndOfWalkKept == "end_of_file"

\* GetEntry's last assignment replaces NextEntry's err_end_of_file.
ErrorAtEndOfWalk == "file_not_found"

NoMoreEntries ==
  /\ pc = "next"
  /\ AtEnd(cursor)
  /\ error' = ErrorAtEndOfWalk
  /\ pc' = "failed"
  /\ UNCHANGED <<op, asked, path, itr, cursor, entry, answer, terminated>>

\* The loop goes round.
OtherName ==
  /\ pc = "match"
  /\ ~NameMatches(entry, path[itr])
  /\ pc' = "next"
  /\ UNCHANGED <<op, asked, path, itr, cursor, entry, error, answer, terminated>>

LastName ==
  /\ pc = "match"
  /\ NameMatches(entry, path[itr])
  /\ itr = Len(path)
  /\ pc' = "found"
  /\ UNCHANGED <<op, asked, path, itr, cursor, entry, error, answer, terminated>>

NotADirectory ==
  /\ pc = "match"
  /\ NameMatches(entry, path[itr])
  /\ itr < Len(path)
  /\ entry.kind # "directory"
  /\ error' = "directory_not_found"
  /\ pc' = "failed"
  /\ UNCHANGED <<op, asked, path, itr, cursor, entry, answer, terminated>>

\* _Open on the subdirectory's key block.
Descended(c, k) == OpenCursor(k)

Descend ==
  /\ pc = "match"
  /\ NameMatches(entry, path[itr])
  /\ itr < Len(path)
  /\ entry.kind = "directory"
  /\ itr' = itr + 1
  /\ cursor' = Descended(cursor, entry.key)
  /\ pc' = "next"
  /\ UNCHANGED <<op, asked, path, entry, error, answer, terminated>>

-----------------------------------------------------------------------------
(* What each callback does with the entry *)

\* Is the entry of a kind that the callback can serve?
Served == CASE op = "open"    -> entry.kind = "file"
            [] op = "opendir" -> entry.kind \in {"root", "directory"}
            [] OTHER          -> entry.kind # "other"

Found ==
  /\ pc = "found"
  /\ Served
  /\ answer' = entry
  /\ pc' = "reply"
  /\ UNCHANGED <<op, asked, path, itr, cursor, entry, error, terminated>>

\* OpenFile and OpenDirectory refuse the entry.
WrongKind ==
  /\ pc = "found"
  /\ ~Served
  /\ op \in {"open", "opendir"}
  /\ error' = IF op = "open" THEN "unsupported_storage_type" ELSE "directory_not_found"
  /\ pc' = "failed"
  /\ UNCHANGED <<op, asked, path, itr, cursor, entry, answer, terminated>>

\* getattr and S_GetAttributes throw for a Pascal area.
UnexpectedKind ==
  /\ pc = "found"
  /\ ~Served
  /\ op \notin {"open", "opendir"}
  /\ terminated' = TRUE
  /\ UNCHANGED <<pc, op, asked, path, itr, cursor, entry, error, answer>>

Failed ==
  /\ pc = "failed"
  /\ answer' = ToError(error)
  /\ pc' = "reply"
  /\ UNCHANGED <<op, asked, path, itr, cursor, entry, error, terminated>>

\* The callback returns and its locals are gone.
Reply ==
  /\ pc = "reply"
  /\ pc' = "idle"
  /\ op' = NULL
  /\ asked' = NULL
  /\ path' = <<>>
  /\ itr' = 0
  /\ cursor' = NULL
  /\ entry' = NULL
  /\ answer' = NULL
  /\ UNCHANGED <<error, terminated>>

-----------------------------------------------------------------------------
Work ==
  \/ NextEntry
  \/ NoMoreEntries
  \/ OtherName
  \/ LastName
  \/ NotADirectory
  \/ Descend
  \/ Found
  \/ WrongKind
  \/ UnexpectedKind
  \/ Failed
  \/ Reply

Next ==
  /\ ~terminated
  /\ (\E o \in Ops, p \in Paths : Call(o, p)) \/ Work

Spec == Init /\ [][Next]_vars /\ WF_vars(~terminated /\ Work)

-----------------------------------------------------------------------------
(* Properties *)

\* What the callback should answer for the entry e that its pathname names.
Expected(o, e) ==
  IF e = NULL
  THEN {[errno |-> "ENOENT"], [errno |-> "ENOTDIR"]}
  ELSE CASE o = "open" /\ e.kind # "file" -> {[errno |-> "EIO"]}
         [] o = "opendir" /\ e.kind \notin {"root", "directory"} -> {[errno |-> "ENOTDIR"]}
         [] OTHER -> {e}

Answered == answer \in Expected(op, Resolve(asked))

\* Only an extension behind a name in the last component is erased, if anything is.
Whole(o, p) ==
  ExtensionMode /\ o \notin {"getxattr", "opendir"} =>
    \A i \in Typed(p) : i = Len(p) /\ (p[i].name = NoName => i > 1)

\* No extension is left over.
Regular(o, p) ==
  /\ Whole(o, p)
  /\ ExtensionMode /\ o \in {"getxattr", "opendir"} => Typed(p) = {}

\* A regular pathname of at most two components finds the entry that it names, whatever
\* lies before that entry in its directory; one that names nothing fails, and its
\* error is the one of this call (GetEntry, OpenFile, OpenDirectory).
ShortPathsResolve ==
  pc = "reply" /\ Regular(op, asked) /\ Len(asked) <= 2 => Answered

\* The same for every regular pathname.
EveryPathResolves == pc = "reply" /\ Regular(op, asked) => Answered

\* The same for the short pathnames with an extension on a directory: a directory is
\* found under "/D:TXT" too, and so the entry G in it should be under "/D:TXT/G".
TypedPathsResolve ==
  /\ pc = "reply" /\ op \notin {"getxattr", "opendir"} /\ Len(asked) <= 2
  /\ \A i \in 1 .. Len(asked) : asked[i].name # NoName
  => Answered

\* The attributes of what getattr finds can be read, and a directory can be opened, by
\* the same name.
NamesAccepted ==
  /\ pc = "reply" /\ op \in {"getxattr", "opendir"} /\ Len(asked) <= 2
  /\ Resolve(asked) # NULL /\ (op = "opendir" => Resolve(asked).kind = "directory")
  => Answered

\* The walk never runs out of blocks, and the one thing that ends the process is
\* asking for the attributes of an entry that is no file and no directory.
TerminatesOnlyOnOtherKinds ==
  terminated => pc = "found" /\ entry.kind = "other" /\ op \notin {"open", "opendir"}

\* Every walk ends.
EveryCallReturns == pc = "next" ~> (pc = "idle" \/ terminated)
=============================================================================
