------------------------------- MODULE Diskutil -------------------------------
(***************************************************************************)
(* The one program that writes disk images: diskutil rename and diskutil   *)
(* normalize (util/diskutil.cxx), with volume_t::Rename and disk_t::Save,  *)
(* which writes a temporary file and renames it over the image.            *)
(*                                                                         *)
(* The file system is a table of names and the contents of inodes.  Every  *)
(* system call of Save is a step and may fail; a process may be killed     *)
(* between any two, and started again.  A power failure is not modelled:   *)
(* what a process has written stays written.                               *)
(***************************************************************************)
EXTENDS Integers, FiniteSets

CONSTANTS
  Names,        \* volume names
  Processes,    \* processes that may run diskutil
  Mounts,       \* processes of prodosfs that may mount the image meanwhile
  Inodes,       \* files that may exist at a time, with a name or without
  Empty,        \* what a file holds that Save has just created or truncated
  Torn,         \* what a file holds that has part of an image
  NULL

\* Where an image is read from and written to.
Targets == {"image", "out"}

\* The names in the directory: each target, and pathname + ".tmp".
Paths == Targets \X {"", ".tmp"}

Path(target) == <<target, "">>

\* A complete image: the name of its volume, and whether disk_t must be changed in
\* memory to get at it ("protected": block 2 is deciphered; "dos": Convert).
Volumes == [name: Names, form: {"prodos", "protected", "dos"}]

\* The form that a volume has in memory.
Plain == {v \in Volumes : v.form = "prodos"}

Contents == Volumes \cup {Empty, Torn}

Commands == {"rename", "normalize"}

ASSUME ProcessAssumption ==
  /\ NULL \notin Inodes \cup Names \cup Commands \cup Contents
  /\ {Empty, Torn} \cap Volumes = {}
  /\ IsFiniteSet(Inodes)
  /\ Processes \cap Mounts = {}

VARIABLES
  directory,   \* directory[path]: the inode, NULL if there is no such file
  content,     \* content[i]: what inode i holds
  pc,          \* where each process is
  command,     \* argv[1]
  memory,      \* volume_t: the volume in memory, NULL if none is open
  dirty,       \* disk_t::_dirty
  target,      \* Save's pathname
  fd,          \* Save's fd: the inode it is open on
  mapped       \* mapped[p]: the inode that disk_t has mapped, NULL if none

fileVars == <<directory, content>>
processVars == <<pc, command, memory, dirty, target, fd>>
vars == <<fileVars, processVars, mapped>>

TypeOK ==
  /\ directory \in [Paths -> Inodes \cup {NULL}]
  /\ content \in [Inodes -> Contents]
  /\ pc \in [Processes -> {"idle", "menu", "open", "write", "rename", "saved",
                           "success", "failure", "terminated"}]
  /\ command \in [Processes -> Commands \cup {NULL}]
  /\ memory \in [Processes -> Plain \cup {NULL}]
  /\ dirty \in [Processes -> BOOLEAN]
  /\ target \in [Processes -> Targets]
  /\ fd \in [Processes -> Inodes \cup {NULL}]
  /\ mapped \in [Processes \cup Mounts -> Inodes \cup {NULL}]

\* There is an image, and nothing else.
Init ==
  /\ \E i \in Inodes, v \in Volumes :
       /\ directory = [p \in Paths |-> IF p = Path("image") THEN i ELSE NULL]
       /\ content = [j \in Inodes |-> IF j = i THEN v ELSE Empty]
  /\ pc = [p \in Processes |-> "idle"]
  /\ command = [p \in Processes |-> NULL]
  /\ memory = [p \in Processes |-> NULL]
  /\ dirty = [p \in Processes |-> FALSE]
  /\ target = [p \in Processes |-> "image"]
  /\ fd = [p \in Processes |-> NULL]
  /\ mapped = [p \in Processes \cup Mounts |-> NULL]

\* What the file called path holds, NULL if there is none.
Held(path) == IF directory[path] = NULL THEN NULL ELSE content[directory[path]]

Image == Held(Path("image"))

\* No name, no open file and no mapping refers to inode i.
Free(i) ==
  /\ \A p \in Paths : directory[p] # i
  /\ \A p \in Processes : fd[p] # i
  /\ \A p \in Processes \cup Mounts : mapped[p] # i

Goto(p, label) == pc' = [pc EXCEPT ![p] = label]

-----------------------------------------------------------------------------
(* volume_t's constructor *)

Started(p, c) ==
  /\ pc[p] = "idle"
  /\ command' = [command EXCEPT ![p] = c]

\* Mutant: the image is read as it is when it is not protected.
InMemoryUnconverted(v) == IF v.form = "protected" THEN [v EXCEPT !.form = "prodos"] ELSE v

\* A protected image is deciphered, one in DOS 3.3 format converted; only the former
\* sets _dirty.
InMemory(v) == [v EXCEPT !.form = "prodos"]

\* Convert makes a copy of the image and unmaps it.
Mapping == IF Image.form = "dos" THEN NULL ELSE directory[Path("image")]

\* normalize saves a volume that is dirty, at once, to its second argument.
Start(p, c) ==
  /\ Started(p, c)
  /\ Image \in Volumes
  /\ memory' = [memory EXCEPT ![p] = InMemory(Image)]
  /\ dirty' = [dirty EXCEPT ![p] = (Image.form = "protected")]
  /\ mapped' = [mapped EXCEPT ![p] = Mapping]
  /\ IF c = "rename"
     THEN Goto(p, "menu") /\ UNCHANGED target
     ELSE /\ Goto(p, IF dirty'[p] THEN "open" ELSE "failure")
          /\ \E t \in Targets : target' = [target EXCEPT ![p] = t]
  /\ UNCHANGED <<fileVars, fd>>

\* The file cannot be opened or mapped, or (always when it is empty or torn) has not
\* as many blocks as the volume.  S_OpenVolume catches that, S_Normalize does not.
StartFails(p, c) ==
  /\ Started(p, c)
  /\ Goto(p, IF c = "rename" THEN "failure" ELSE "terminated")
  /\ UNCHANGED <<fileVars, memory, dirty, target, fd, mapped>>

-----------------------------------------------------------------------------
(* S_Rename's menu.  An invalid option or name only shows the menu again. *)

\* Option 1: volume_t::Rename, which leaves block 2 written, and then Save.
RenameVolume(p, n) ==
  /\ pc[p] = "menu"
  /\ memory' = [memory EXCEPT ![p].name = n]
  /\ dirty' = [dirty EXCEPT ![p] = TRUE]
  /\ target' = [target EXCEPT ![p] = "image"]
  /\ Goto(p, "open")
  /\ UNCHANGED <<fileVars, command, fd, mapped>>

\* Option 2: remove_filename() changes pathname itself, so that rename() is asked to
\* give the new name to the directory that holds the image, and cannot.
RenameImage(p) ==
  /\ pc[p] = "menu"
  /\ Goto(p, "failure")
  /\ UNCHANGED <<fileVars, command, memory, dirty, target, fd, mapped>>

\* Option 3.
Exit(p) ==
  /\ pc[p] = "menu"
  /\ Goto(p, "success")
  /\ UNCHANGED <<fileVars, command, memory, dirty, target, fd, mapped>>

-----------------------------------------------------------------------------
(* disk_t::Save *)

\* Mutant: the image itself is written.
TempNameSame(t) == Path(t)

TempName(t) == <<t, ".tmp">>

\* open(tempname, O_CREAT | O_TRUNC | O_WRONLY)
SaveOpen(p) ==
  LET temp == TempName(target[p])
      opened(i) == /\ directory' = [directory EXCEPT ![temp] = i]
                   /\ content' = [content EXCEPT ![i] = Empty]
                   /\ fd' = [fd EXCEPT ![p] = i]
  IN
  /\ pc[p] = "open"
  /\ \/ directory[temp] # NULL /\ opened(directory[temp])
     \/ directory[temp] = NULL /\ \E i \in Inodes : Free(i) /\ opened(i)
  /\ Goto(p, "write")
  /\ UNCHANGED <<command, memory, dirty, target, mapped>>

\* Mutant: S_Rename shows the menu again after a failure.
AfterOpenFailedMenu(p) == IF command[p] = "rename" THEN "menu" ELSE "failure"

\* Both commands end when Save returns false.
AfterOpenFailed(p) == "failure"

SaveOpenFails(p) ==
  /\ pc[p] = "open"
  /\ Goto(p, AfterOpenFailed(p))
  /\ UNCHANGED <<fileVars, command, memory, dirty, target, fd, mapped>>

SaveWrite(p) ==
  /\ pc[p] = "write"
  /\ content' = [content EXCEPT ![fd[p]] = memory[p]]
  /\ Goto(p, "rename")
  /\ UNCHANGED <<directory, command, memory, dirty, target, fd, mapped>>

\* Mutant: the number of bytes written is not looked at.
AfterShortWriteIgnored(p) == "rename"

\* n != _size: Save throws, and nothing catches it.
AfterShortWrite(p) == "terminated"

\* The disk is full, say.  Over what another process has written, part of an image
\* is either image.
SaveWriteShort(p) ==
  /\ pc[p] = "write"
  /\ \E c \in IF content[fd[p]] \in Volumes THEN {content[fd[p]], memory[p]} ELSE {Empty, Torn} :
       content' = [content EXCEPT ![fd[p]] = c]
  /\ Goto(p, AfterShortWrite(p))
  /\ UNCHANGED <<directory, command, memory, dirty, target, fd, mapped>>

\* close(fd) and rename(tempname, pathname)
SaveRename(p) ==
  LET temp == TempName(target[p])
      to == Path(target[p])
  IN
  /\ pc[p] = "rename"
  /\ directory[temp] # NULL
  /\ directory' = [directory EXCEPT ![temp] = NULL, ![to] = directory[temp]]
  /\ fd' = [fd EXCEPT ![p] = NULL]
  /\ Goto(p, "saved")
  /\ UNCHANGED <<content, command, memory, dirty, target, mapped>>

\* rename() fails: always when another process has taken the file away.
SaveRenameFails(p) ==
  /\ pc[p] = "rename"
  /\ fd' = [fd EXCEPT ![p] = NULL]
  /\ Goto(p, "terminated")
  /\ UNCHANGED <<fileVars, command, memory, dirty, target, mapped>>

\* Save has returned true.
AfterSave(p) ==
  /\ pc[p] = "saved"
  /\ Goto(p, IF command[p] = "rename" THEN "menu" ELSE "success")
  /\ UNCHANGED <<fileVars, command, memory, dirty, target, fd, mapped>>

-----------------------------------------------------------------------------
(* The end of a process *)

Gone(p) ==
  /\ Goto(p, "idle")
  /\ command' = [command EXCEPT ![p] = NULL]
  /\ memory' = [memory EXCEPT ![p] = NULL]
  /\ dirty' = [dirty EXCEPT ![p] = FALSE]
  /\ target' = [target EXCEPT ![p] = "image"]
  /\ fd' = [fd EXCEPT ![p] = NULL]
  /\ mapped' = [mapped EXCEPT ![p] = NULL]
  /\ UNCHANGED fileVars

Ended(p) == pc[p] \in {"success", "failure", "terminated"} /\ Gone(p)

Killed(p) == pc[p] \in {"menu", "open", "write", "rename", "saved"} /\ Gone(p)

-----------------------------------------------------------------------------
(* prodosfs, which maps the image for as long as it is mounted *)

MountImage(m) ==
  /\ mapped[m] = NULL
  /\ Image \in Volumes
  /\ mapped' = [mapped EXCEPT ![m] = Mapping]
  /\ UNCHANGED <<fileVars, processVars>>

UnmountImage(m) ==
  /\ mapped[m] # NULL
  /\ mapped' = [mapped EXCEPT ![m] = NULL]
  /\ UNCHANGED <<fileVars, processVars>>

Work(p) ==
  \/ \E c \in Commands : Start(p, c) \/ StartFails(p, c)
  \/ \E n \in Names : RenameVolume(p, n)
  \/ RenameImage(p)
  \/ Exit(p)
  \/ SaveOpen(p)
  \/ SaveOpenFails(p)
  \/ SaveWrite(p)
  \/ SaveWriteShort(p)
  \/ SaveRename(p)
  \/ SaveRenameFails(p)
  \/ AfterSave(p)
  \/ Ended(p)
  \/ Killed(p)

Next ==
  \/ \E p \in Processes : Work(p)
  \/ \E m \in Mounts : MountImage(m) \/ UnmountImage(m)

Spec == Init /\ [][Next]_vars

-----------------------------------------------------------------------------
(* Properties *)

\* At every instant the image can be opened, whichever system call fails and wherever
\* a process is killed and started again (disk_t::Save).
ImageOpens == Image \in Volumes

\* The menu shows the volume as the file holds it: every change is saved, or ends the
\* program (S_Rename).
MenuShowsImage ==
  \A p \in Processes : pc[p] = "menu" => InMemory(Image) = memory[p]

\* When Save returns true, its file holds the volume (disk_t::Save).
SaveWritesVolume ==
  [][\A p \in Processes :
       pc[p] = "rename" /\ pc'[p] = "saved" => Held(Path(target[p]))' = memory[p]]_vars

\* No file changes while a process has it mapped, neither a mounted file system nor
\* diskutil's own volume, of which each page that was not written is the file's: Save
\* writes to files of its own (disk_t::disk_t, Save).
MappedUnchanged ==
  [][\A p \in Processes \cup Mounts :
       mapped[p] # NULL => content'[mapped[p]] = content[mapped[p]]]_vars

\* A failure of Save is reported by its result.
SaveReturnsFalse == \A p \in Processes : pc[p] # "terminated"

\* Option 2 of the menu gives the image file the volume's name, so that no file is
\* called as it was before.
ImageRenamed ==
  [][\A p \in Processes : RenameImage(p) => directory'[Path("image")] = NULL]_vars
=============================================================================
