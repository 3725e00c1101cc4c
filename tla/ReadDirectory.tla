----------------------------- MODULE ReadDirectory -----------------------------
(***************************************************************************)
(* Listing directories: prodosfs_opendir, prodosfs_readdir and             *)
(* prodosfs_closedir (main.cxx) over directory_handle_t (directory.cxx),   *)
(* with the thread-local error that the callbacks of the other modules     *)
(* leave behind.                                                           *)
(*                                                                         *)
(* libfuse serves an open directory under a lock, so one readdir moves a   *)
(* handle at a time; the process may rewind the directory, and libfuse then *)
(* calls prodosfs_readdir again on a handle that nothing resets.           *)
(***************************************************************************)
EXTENDS Directory

CONSTANTS
  Handles,    \* directory_handle_t objects
  Threads,    \* worker threads of the FUSE loop
  Failures,   \* errors with which another callback may fail
  NULL

\* err_t, the members that some callback sets.
Errors == {"none", "directory_not_found", "file_not_found",
           "unsupported_storage_type", "end_of_file", "position_out_of_range"}

\* What prodosfs_readdir returns.
Results == {"OK", "EBADF", "ENOTDIR", "ENOENT", "EIO"}

\* NULL is no value that a variable, here or in DirectoryService, holds beside it.
ASSUME NullAssumption ==
  /\ NULL \notin Handles \cup Cursors \cup Results
  /\ \A k \in Directories : \A s \in SUBSET ActivePlaces(k) : s # NULL
  /\ \A c \in [handle: Handles, refused: BOOLEAN, answer: Results \cup {NULL}] : c # NULL

ASSUME FailureAssumption == Failures \subseteq Errors \ {"none", "end_of_file"}

VARIABLES
  cursor,      \* cursor[h]: the fields of handle h, NULL while it is closed
  error,       \* error[t]: volume_t::Error() in thread t
  pc,          \* where each worker thread is
  serving,     \* serving[t]: the handle prodosfs_readdir was called with
  entry,       \* entry[t]: what NextEntry returned, as <<block, slot>>
  result,      \* result[t]: what prodosfs_readdir returns
  full,        \* full[t]: the filler has refused an entry in this call
  given,       \* given[h]: the entries the filler took since opendir, in order
  lost,        \* lost[h]: the filler has refused an entry since opendir
  terminated   \* an exception left a callback: std::terminate

handleVars == <<cursor, given, lost>>
threadVars == <<error, pc, serving, entry, result, full>>
vars == <<handleVars, threadVars, terminated>>

\* Mutant: the map has no pair for the end of a directory.
ToErrorWithoutEnd(e) ==
  CASE e = "none"                  -> "OK"
    [] e = "position_out_of_range" -> "EBADF"
    [] e = "directory_not_found"   -> "ENOTDIR"
    [] e = "file_not_found"        -> "ENOENT"
    [] OTHER                       -> "EIO"

\* S_ToError.  The map is built from a list that names position_out_of_range
\* twice, and the first pair counts.
ToError(e) ==
  CASE e \in {"none", "end_of_file"} -> "OK"
    [] e = "position_out_of_range"   -> "EBADF"
    [] e = "directory_not_found"     -> "ENOTDIR"
    [] e = "file_not_found"          -> "ENOENT"
    [] OTHER                         -> "EIO"

TypeOK ==
  /\ cursor \in [Handles -> Cursors \cup {NULL}]
  /\ \A h \in Handles :
       cursor[h] # NULL => cursor[h].block \in 1 .. Len(Slots[cursor[h].key])
  /\ given \in [Handles -> Seq((Nat \ {0}) \X SlotNumbers)]
  /\ lost \in [Handles -> BOOLEAN]
  /\ error \in [Threads -> Errors]
  /\ pc \in [Threads -> {"idle", "next", "fill", "end", "reply"}]
  /\ serving \in [Threads -> Handles \cup {NULL}]
  /\ entry \in [Threads -> ((Nat \ {0}) \X SlotNumbers) \cup {NULL}]
  /\ result \in [Threads -> Results]
  /\ full \in [Threads -> BOOLEAN]
  /\ terminated \in BOOLEAN

Init ==
  /\ cursor = [h \in Handles |-> NULL]
  /\ given = [h \in Handles |-> <<>>]
  /\ lost = [h \in Handles |-> FALSE]
  /\ error = [t \in Threads |-> "none"]
  /\ pc = [t \in Threads |-> "idle"]
  /\ serving = [t \in Threads |-> NULL]
  /\ entry = [t \in Threads |-> NULL]
  /\ result = [t \in Threads |-> "OK"]
  /\ full = [t \in Threads |-> FALSE]
  /\ terminated = FALSE

Busy(h) == \E t \in Threads : pc[t] # "idle" /\ serving[t] = h

\* Mutant: the error is a plain global.
ErrorSetEverywhere(t, e) == [s \in Threads |-> e]

\* The last error is one variable for each thread (thread_local err_t error).
ErrorSet(t, e) == [error EXCEPT ![t] = e]

-----------------------------------------------------------------------------
(* prodosfs_opendir, prodosfs_closedir and the other callbacks *)

OpenDir(t, h, k) ==
  /\ pc[t] = "idle"
  /\ cursor[h] = NULL
  /\ cursor' = [cursor EXCEPT ![h] = OpenCursor(k)]
  /\ given' = [given EXCEPT ![h] = <<>>]
  /\ lost' = [lost EXCEPT ![h] = FALSE]
  /\ UNCHANGED <<threadVars, terminated>>

\* The kernel sends a releasedir once no readdir of the handle is outstanding.
CloseDir(t, h) ==
  /\ pc[t] = "idle"
  /\ cursor[h] # NULL
  /\ ~Busy(h)
  /\ cursor' = [cursor EXCEPT ![h] = NULL]
  /\ given' = [given EXCEPT ![h] = <<>>]
  /\ lost' = [lost EXCEPT ![h] = FALSE]
  /\ UNCHANGED <<threadVars, terminated>>

\* Any other callback that thread t serves and that fails (GetEntry, OpenFile,
\* OpenDirectory, Seek).  Nothing clears the error afterwards.
OtherCallback(t, e) ==
  /\ pc[t] = "idle"
  /\ error' = ErrorSet(t, e)
  /\ UNCHANGED <<handleVars, pc, serving, entry, result, full, terminated>>

-----------------------------------------------------------------------------
(* prodosfs_readdir *)

StartReadDir(t, h) ==
  /\ pc[t] = "idle"
  /\ cursor[h] # NULL
  /\ ~Busy(h)
  /\ serving' = [serving EXCEPT ![t] = h]
  /\ pc' = [pc EXCEPT ![t] = "next"]
  /\ UNCHANGED <<handleVars, error, entry, result, full, terminated>>

\* NextEntry returns nullptr and the loop ends.
NextEntryAtEnd(t) ==
  LET c == cursor[serving[t]] IN
  /\ pc[t] = "next"
  /\ AtEnd(c)
  /\ error' = ErrorSet(t, "end_of_file")
  /\ pc' = [pc EXCEPT ![t] = "end"]
  /\ UNCHANGED <<handleVars, serving, entry, result, full, terminated>>

\* Mutant: the loop looks at the same slot again.
SkipInactiveNever(t) ==
  LET c == cursor[serving[t]] IN
  /\ pc[t] = "next"
  /\ ~AtEnd(c)
  /\ EntryAt(c.key, Place(c)) = Inactive
  /\ UNCHANGED vars

\* NextEntry's loop passes over an inactive slot.
SkipInactive(t) ==
  LET c == cursor[serving[t]] IN
  /\ pc[t] = "next"
  /\ ~AtEnd(c)
  /\ EntryAt(c.key, Place(c)) = Inactive
  /\ IF NoMoreBlocks(c)
     THEN terminated' = TRUE /\ UNCHANGED cursor
     ELSE cursor' = [cursor EXCEPT ![serving[t]] = NextCursor(@)] /\ UNCHANGED terminated
  /\ UNCHANGED <<given, lost, threadVars>>

\* NextEntry returns the entry under the cursor and moves on.
TakeEntry(t) ==
  LET c == cursor[serving[t]] IN
  /\ pc[t] = "next"
  /\ ~AtEnd(c)
  /\ EntryAt(c.key, Place(c)) # Inactive
  /\ IF NoMoreBlocks(c)
     THEN terminated' = TRUE /\ UNCHANGED <<cursor, entry, pc>>
     ELSE /\ cursor' = [cursor EXCEPT ![serving[t]] = Taken(@)]
          /\ entry' = [entry EXCEPT ![t] = Place(c)]
          /\ pc' = [pc EXCEPT ![t] = "fill"]
          /\ UNCHANGED terminated
  /\ UNCHANGED <<given, lost, error, serving, result, full>>

\* The filler takes the entry.
Fill(t) ==
  /\ pc[t] = "fill"
  /\ given' = [given EXCEPT ![serving[t]] = Append(@, entry[t])]
  /\ entry' = [entry EXCEPT ![t] = NULL]
  /\ pc' = [pc EXCEPT ![t] = "next"]
  /\ UNCHANGED <<cursor, lost, error, serving, result, full, terminated>>

\* The filler has no memory for the entry, which the cursor has already passed.
FillerFull(t) ==
  /\ pc[t] = "fill"
  /\ full' = [full EXCEPT ![t] = TRUE]
  /\ lost' = [lost EXCEPT ![serving[t]] = TRUE]
  /\ entry' = [entry EXCEPT ![t] = NULL]
  /\ pc' = [pc EXCEPT ![t] = "end"]
  /\ UNCHANGED <<cursor, given, error, serving, result, terminated>>

\* After the loop: the error of the thread, whoever set it.
Finish(t) ==
  /\ pc[t] = "end"
  /\ result' = [result EXCEPT ![t] = ToError(error[t])]
  /\ pc' = [pc EXCEPT ![t] = "reply"]
  /\ UNCHANGED <<handleVars, error, serving, entry, full, terminated>>

Reply(t) ==
  /\ pc[t] = "reply"
  /\ pc' = [pc EXCEPT ![t] = "idle"]
  /\ serving' = [serving EXCEPT ![t] = NULL]
  /\ result' = [result EXCEPT ![t] = "OK"]
  /\ full' = [full EXCEPT ![t] = FALSE]
  /\ UNCHANGED <<handleVars, error, entry, terminated>>

-----------------------------------------------------------------------------
Work(t) ==
  \/ NextEntryAtEnd(t)
  \/ SkipInactive(t)
  \/ TakeEntry(t)
  \/ Fill(t)
  \/ FillerFull(t)
  \/ Finish(t)
  \/ Reply(t)

Next ==
  /\ ~terminated
  /\ \E t \in Threads :
       \/ \E h \in Handles, k \in Directories : OpenDir(t, h, k)
       \/ \E h \in Handles : CloseDir(t, h) \/ StartReadDir(t, h)
       \/ \E e \in Failures : OtherCallback(t, e)
       \/ Work(t)

\* The operating system goes on scheduling every worker thread.
Fairness == \A t \in Threads : WF_vars(~terminated /\ Work(t))

Spec == Init /\ [][Next]_vars /\ Fairness

-----------------------------------------------------------------------------
(* Properties *)

InOrder(s) == \A i, j \in 1 .. Len(s) : i < j => Before(s[i], s[j])

\* Every slot of the header's count is found before the blocks run out, so NextEntry
\* never throws "no more directory blocks" on a volume that ProDOS wrote.
NeverTerminates == ~terminated

\* However often a directory is rewound, and whatever the filler refuses, a handle
\* never lists an entry twice nor out of disk order, and lists only active entries.
ListedOnce ==
  \A h \in Handles :
    /\ InOrder(given[h])
    /\ cursor[h] # NULL =>
         \A i \in 1 .. Len(given[h]) : given[h][i] \in ActivePlaces(cursor[h].key)

\* When prodosfs_readdir returns and the filler has refused nothing, it returns 0
\* and every active entry has been listed since opendir: no error that another
\* callback left in a thread turns a complete listing into a failure.
ListingComplete ==
  \A t \in Threads :
    (pc[t] = "reply" /\ ~lost[serving[t]]) =>
      /\ result[t] = "OK"
      /\ {given[serving[t]][i] : i \in 1 .. Len(given[serving[t]])}
           = ActivePlaces(cursor[serving[t]].key)

\* Every call of prodosfs_readdir returns.
EveryReadDirReturns == \A t \in Threads : pc[t] = "next" ~> pc[t] = "idle"

-----------------------------------------------------------------------------
(* Refinement of DirectoryService *)

\* The entry that NextEntry has returned and the filler has not seen yet.
InFlight(h) == {entry[t] : t \in {u \in Threads : pc[u] = "fill" /\ serving[u] = h}}

Left(h) == IF cursor[h] = NULL THEN NULL ELSE Ahead(cursor[h]) \cup InFlight(h)

PendingCall(t) ==
  IF pc[t] = "idle"
  THEN NULL
  ELSE [handle |-> serving[t], refused |-> full[t],
        answer |-> IF pc[t] = "reply" THEN result[t] ELSE NULL]

Service == INSTANCE DirectoryService WITH
  left <- [h \in Handles |-> Left(h)],
  call <- [t \in Threads |-> PendingCall(t)],
  Errors <- Results,
  Listed <- ActivePlaces,
  Precedes <- Before

\* The slots that NextEntry looks at one by one, the count it goes by and the error that
\* it leaves together list a directory, and to the end if nothing is refused
\* (prodosfs_readdir, NextEntry).
ImplementsService == Service!Spec
=============================================================================
