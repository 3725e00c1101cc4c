----------------------------- MODULE DiskutilProofs -----------------------------
(***************************************************************************)
(* Saving an image safely, for any volumes, files and order of failures,   *)
(* when one process at a time works on the image.                          *)
(***************************************************************************)
EXTENDS Diskutil, TLAPS

\* One process at a time runs diskutil.
OneProcess == \A p, q \in Processes : p = q

\* No file has two names.
Distinct ==
  \A a, b \in Paths : directory[a] # NULL /\ directory[a] = directory[b] => a = b

Working == {"menu", "open", "write", "rename", "saved"}

\* What is in memory is a volume that needs no more changes.
MemoryInv(p) == pc[p] \in Working => memory[p] \in Plain /\ InMemory(memory[p]) = memory[p]

\* The temporary file is the open one until it is renamed, and then holds the volume.
TempInv(p) ==
  /\ pc[p] \in {"write", "rename"} =>
       fd[p] # NULL /\ directory[TempName(target[p])] = fd[p]
  /\ pc[p] = "rename" => content[fd[p]] = memory[p]

\* rename works on the image, and what it has saved is the image.
RenameInv(p) ==
  /\ pc[p] = "idle" \/ command[p] = "rename" => target[p] = "image"
  /\ pc[p] = "menu" => command[p] = "rename" /\ InMemory(Image) = memory[p]
  /\ pc[p] = "saved" /\ command[p] = "rename" => Image = memory[p]

\* What is mapped is no temporary file, so Save does not write to it.
MapInv ==
  \A p \in Processes \cup Mounts, t \in Targets :
    mapped[p] # NULL => directory[TempName(t)] # mapped[p]

DiskInv ==
  /\ TypeOK
  /\ Distinct
  /\ ImageOpens
  /\ MapInv
  /\ \A p \in Processes : MemoryInv(p) /\ TempInv(p) /\ RenameInv(p)

-----------------------------------------------------------------------------
(* Names *)

LEMMA PathFacts ==
  /\ Path("image") \in Paths
  /\ \A t \in Targets : Path(t) \in Paths /\ TempName(t) \in Paths
  /\ \A t, u \in Targets : Path(t) # TempName(u)
  /\ \A t, u \in Targets : TempName(t) = TempName(u) \/ Path(t) = Path(u) => t = u
BY DEF Path, Paths, Targets, TempName

LEMMA InMemoryFacts ==
  ASSUME NEW v \in Volumes
  PROVE  InMemory(v) \in Plain /\ InMemory(InMemory(v)) = InMemory(v)
BY DEF InMemory, Volumes, Plain

LEMMA RenamedFacts ==
  ASSUME NEW v \in Volumes, NEW n \in Names, InMemory(v) = v
  PROVE  LET w == [v EXCEPT !.name = n] IN w \in Plain /\ InMemory(w) = w
BY DEF InMemory, Volumes, Plain

\* NULL is none of the values that a variable holds beside it.
LEMMA NullFacts == NULL \notin Inodes /\ NULL \notin Contents /\ NULL \notin Commands
BY ProcessAssumption DEF ProcessAssumption

-----------------------------------------------------------------------------
(* The invariant *)

LEMMA InitInv == Init => DiskInv
<1> SUFFICES ASSUME Init PROVE DiskInv
  OBVIOUS
<1>1. PICK i \in Inodes, v \in Volumes :
        /\ directory = [a \in Paths |-> IF a = Path("image") THEN i ELSE NULL]
        /\ content = [j \in Inodes |-> IF j = i THEN v ELSE Empty]
  BY DEF Init
<1>2. TypeOK
  BY <1>1 DEF Init, TypeOK, Contents, Targets
<1>3. Distinct
  BY <1>1 DEF Distinct
<1>4. ImageOpens
  BY <1>1, PathFacts, NullFacts DEF ImageOpens, Image, Held
<1>5. ASSUME NEW p \in Processes PROVE MemoryInv(p) /\ TempInv(p) /\ RenameInv(p)
  BY NullFacts DEF Init, MemoryInv, TempInv, RenameInv, Working, Commands
<1>6. MapInv
  BY DEF Init, MapInv
<1>7. QED
  BY <1>2, <1>3, <1>4, <1>5, <1>6 DEF DiskInv

LEMMA FilesUnchanged ==
  ASSUME UNCHANGED fileVars
  PROVE  /\ Distinct => Distinct'
         /\ Image' = Image
         /\ ImageOpens => ImageOpens'
<1>1. directory' = directory /\ content' = content
  BY DEF fileVars
<1>2. Image' = Image
  BY <1>1 DEF Image, Held
<1>3. QED
  BY <1>1, <1>2 DEF Distinct, ImageOpens

LEMMA MapUnchanged ==
  ASSUME MapInv, UNCHANGED <<fileVars, mapped>>
  PROVE  MapInv'
BY DEF MapInv, fileVars

\* mapped[p] becomes NULL or the image's inode, which is no temporary file's.
LEMMA MapStep ==
  ASSUME DiskInv, NEW p \in Processes \cup Mounts, NEW i \in {NULL, directory[Path("image")]},
         UNCHANGED fileVars, mapped' = [mapped EXCEPT ![p] = i]
  PROVE  MapInv'
<1>1. SUFFICES ASSUME NEW q \in Processes \cup Mounts, NEW t \in Targets, mapped'[q] # NULL
               PROVE  directory[TempName(t)] # mapped'[q]
  BY DEF MapInv, fileVars
<1>2. CASE mapped'[q] = mapped[q]
  BY <1>1, <1>2 DEF DiskInv, MapInv
<1>3. CASE mapped'[q] # mapped[q]
  <2>1. mapped'[q] = directory[Path("image")]
    BY <1>1, <1>3 DEF DiskInv, TypeOK
  <2>2. TempName(t) \in Paths /\ Path("image") \in Paths /\ TempName(t) # Path("image")
    <3>1. "image" \in Targets
      BY DEF Targets
    <3>2. QED
      BY <3>1, PathFacts
  <2>3. QED
    BY <1>1, <2>1, <2>2 DEF DiskInv, Distinct
<1>4. QED
  BY <1>2, <1>3

\* A step of one process alone that leaves the files as they are keeps the invariant
\* if it keeps its parts about that process.
LEMMA ProcessStep ==
  ASSUME OneProcess, DiskInv, NEW p \in Processes, UNCHANGED fileVars, TypeOK', UNCHANGED mapped \/ MapInv',
         MemoryInv(p)', TempInv(p)', RenameInv(p)'
  PROVE  DiskInv'
<1>1. Distinct' /\ ImageOpens'
  BY FilesUnchanged DEF DiskInv
<1>2. ASSUME NEW q \in Processes PROVE (MemoryInv(q) /\ TempInv(q) /\ RenameInv(q))'
  <2>1. q = p
    BY DEF OneProcess
  <2>2. QED
    BY <2>1
<1>3. MapInv'
  BY MapUnchanged DEF DiskInv
<1>4. QED
  BY <1>1, <1>2, <1>3 DEF DiskInv

\* What a step of process p that goes to label l leaves of the types.
LEMMA GotoFacts ==
  ASSUME TypeOK, NEW p \in Processes,
         NEW l \in {"idle", "menu", "open", "write", "rename", "saved",
                    "success", "failure", "terminated"},
         Goto(p, l)
  PROVE  pc'[p] = l /\ (UNCHANGED <<fileVars, command, memory, dirty, target, fd, mapped>> => TypeOK')
<1>1. pc' = [pc EXCEPT ![p] = l]
  BY DEF Goto
<1>2. pc'[p] = l
  BY <1>1 DEF TypeOK
<1>3. QED
  BY <1>1, <1>2 DEF TypeOK, fileVars

LEMMA StartInv ==
  ASSUME OneProcess, DiskInv, NEW p \in Processes, NEW c \in Commands, Start(p, c)
  PROVE  DiskInv'
<1>1. /\ pc[p] = "idle" /\ target[p] = "image"
      /\ UNCHANGED fileVars /\ fd' = fd
      /\ command' = [command EXCEPT ![p] = c]
      /\ Image \in Volumes
      /\ memory' = [memory EXCEPT ![p] = InMemory(Image)]
      /\ dirty' = [dirty EXCEPT ![p] = (Image.form = "protected")]
      /\ mapped' = [mapped EXCEPT ![p] = Mapping]
  BY DEF Start, Started, DiskInv, RenameInv
<1>2. InMemory(Image) \in Plain /\ InMemory(InMemory(Image)) = InMemory(Image)
  BY <1>1, InMemoryFacts
<1>3. memory'[p] = InMemory(Image) /\ command'[p] = c /\ Image' = Image
  BY <1>1, FilesUnchanged DEF DiskInv, TypeOK
<1>4. PICK l \in {"menu", "open", "failure"}, t \in Targets :
        /\ Goto(p, l)
        /\ target' = [target EXCEPT ![p] = t]
        /\ IF c = "rename" THEN l = "menu" /\ t = "image" ELSE l # "menu"
  <2>1. CASE c = "rename"
    <3>1. Goto(p, "menu") /\ target' = [target EXCEPT ![p] = "image"]
      BY <1>1, <2>1 DEF Start, DiskInv, TypeOK
    <3>2. QED
      BY <2>1, <3>1 DEF Targets
  <2>2. CASE c # "rename"
    BY <2>2 DEF Start
  <2>3. QED
    BY <2>1, <2>2
<1>5. pc' = [pc EXCEPT ![p] = l] /\ pc'[p] = l /\ target'[p] = t
  BY <1>4 DEF Goto, DiskInv, TypeOK
<1>6. TypeOK' /\ MapInv'
  <2>1. Mapping \in {NULL, directory[Path("image")]}
    BY DEF Mapping
  <2>2. Mapping \in Inodes \cup {NULL}
    BY <2>1, PathFacts DEF DiskInv, TypeOK
  <2>3. MapInv'
    BY <1>1, <2>1, MapStep
  <2>4. QED
    BY <1>1, <1>2, <1>4, <1>5, <2>2, <2>3 DEF DiskInv, TypeOK, fileVars
<1>7. MemoryInv(p)'
  BY <1>2, <1>3 DEF MemoryInv
<1>8. TempInv(p)'
  BY <1>5 DEF TempInv
<1>9. RenameInv(p)'
  BY <1>3, <1>4, <1>5 DEF RenameInv
<1>10. QED
  BY <1>1, <1>6, <1>7, <1>8, <1>9, ProcessStep

LEMMA StartFailsInv ==
  ASSUME OneProcess, DiskInv, NEW p \in Processes, NEW c \in Commands, StartFails(p, c)
  PROVE  DiskInv'
<1>1. /\ pc[p] = "idle" /\ target[p] = "image"
      /\ UNCHANGED fileVars /\ UNCHANGED <<memory, dirty, target, fd, mapped>>
      /\ command' = [command EXCEPT ![p] = c]
  BY DEF StartFails, Started, DiskInv, RenameInv
<1>2. PICK l \in {"failure", "terminated"} : Goto(p, l)
  BY DEF StartFails
<1>3. pc' = [pc EXCEPT ![p] = l] /\ pc'[p] = l
  BY <1>2 DEF Goto, DiskInv, TypeOK
<1>4. TypeOK'
  BY <1>1, <1>3 DEF DiskInv, TypeOK, fileVars
<1>5. MemoryInv(p)' /\ TempInv(p)' /\ RenameInv(p)'
  BY <1>1, <1>3 DEF MemoryInv, TempInv, RenameInv, Working
<1>6. QED
  BY <1>1, <1>4, <1>5, ProcessStep

LEMMA RenameVolumeInv ==
  ASSUME OneProcess, DiskInv, NEW p \in Processes, NEW n \in Names, RenameVolume(p, n)
  PROVE  DiskInv'
<1> DEFINE v == [memory[p] EXCEPT !.name = n]
<1>1. /\ pc[p] = "menu" /\ command[p] = "rename" /\ target[p] = "image"
      /\ memory' = [memory EXCEPT ![p] = v]
      /\ dirty' = [dirty EXCEPT ![p] = TRUE]
      /\ target' = [target EXCEPT ![p] = "image"]
      /\ pc' = [pc EXCEPT ![p] = "open"]
      /\ UNCHANGED fileVars /\ UNCHANGED <<command, fd, mapped>>
  BY DEF RenameVolume, Goto, DiskInv, RenameInv
<1>2. v \in Plain /\ InMemory(v) = v
  BY <1>1, RenamedFacts DEF DiskInv, MemoryInv, Working, Plain
<1>3. memory'[p] = v /\ pc'[p] = "open" /\ target'[p] = "image"
  BY <1>1 DEF DiskInv, TypeOK, Targets
<1> HIDE DEF v
<1>4. TypeOK'
  BY <1>1, <1>2 DEF DiskInv, TypeOK, fileVars, Targets
<1>5. MemoryInv(p)' /\ TempInv(p)' /\ RenameInv(p)'
  BY <1>1, <1>2, <1>3 DEF MemoryInv, TempInv, RenameInv
<1>6. QED
  BY <1>1, <1>4, <1>5, ProcessStep

\* Steps that only change pc, to the end of the process.
LEMMA StopInv ==
  ASSUME OneProcess, DiskInv, NEW p \in Processes,
         NEW l \in {"success", "failure", "terminated"}, Goto(p, l),
         UNCHANGED <<fileVars, command, memory, dirty, target, fd, mapped>>, pc[p] # "idle"
  PROVE  DiskInv'
<1>1. pc'[p] = l /\ TypeOK'
  BY GotoFacts DEF DiskInv
<1>2. MemoryInv(p)' /\ TempInv(p)' /\ RenameInv(p)'
  BY <1>1 DEF DiskInv, MemoryInv, TempInv, RenameInv, Working
<1>3. UNCHANGED fileVars /\ UNCHANGED mapped
  OBVIOUS
<1>4. QED
  BY <1>1, <1>2, <1>3, ProcessStep

LEMMA AfterSaveInv ==
  ASSUME OneProcess, DiskInv, NEW p \in Processes, AfterSave(p)
  PROVE  DiskInv'
<1>1. pc[p] = "saved" /\ UNCHANGED fileVars /\ UNCHANGED <<command, memory, dirty, target, fd, mapped>>
  BY DEF AfterSave
<1>2. CASE command[p] = "rename"
  <2>1. Goto(p, "menu")
    BY <1>2 DEF AfterSave
  <2>2. pc'[p] = "menu" /\ TypeOK'
    BY <1>1, <2>1, GotoFacts DEF DiskInv
  <2>3. Image = memory[p] /\ InMemory(Image) = memory[p] /\ Image' = Image
    BY <1>1, <1>2, FilesUnchanged DEF DiskInv, RenameInv, MemoryInv, Working
  <2>4. MemoryInv(p)' /\ TempInv(p)' /\ RenameInv(p)'
    BY <1>1, <1>2, <2>2, <2>3 DEF DiskInv, MemoryInv, TempInv, RenameInv, Working
  <2>5. QED
    BY <1>1, <2>2, <2>4, ProcessStep
<1>3. CASE command[p] # "rename"
  BY <1>1, <1>3, StopInv DEF AfterSave
<1>4. QED
  BY <1>2, <1>3

LEMMA GoneInv ==
  ASSUME OneProcess, DiskInv, NEW p \in Processes, Gone(p)
  PROVE  DiskInv'
<1>1. /\ pc' = [pc EXCEPT ![p] = "idle"]
      /\ command' = [command EXCEPT ![p] = NULL]
      /\ memory' = [memory EXCEPT ![p] = NULL]
      /\ dirty' = [dirty EXCEPT ![p] = FALSE]
      /\ target' = [target EXCEPT ![p] = "image"]
      /\ fd' = [fd EXCEPT ![p] = NULL]
      /\ mapped' = [mapped EXCEPT ![p] = NULL]
      /\ UNCHANGED fileVars
  BY DEF Gone, Goto
<1>2. pc'[p] = "idle" /\ target'[p] = "image"
  BY <1>1 DEF DiskInv, TypeOK, Targets
<1>3. TypeOK'
  BY <1>1 DEF DiskInv, TypeOK, fileVars, Targets
<1>4. MemoryInv(p)' /\ TempInv(p)' /\ RenameInv(p)'
  BY <1>2 DEF MemoryInv, TempInv, RenameInv, Working
<1>5. MapInv'
  BY <1>1, MapStep
<1>6. QED
  BY <1>1, <1>3, <1>4, <1>5, ProcessStep

-----------------------------------------------------------------------------
(* The system calls of Save *)

\* Only the temporary file is written: the image's inode is another one.
LEMMA TempIsNotImage ==
  ASSUME DiskInv, NEW p \in Processes, directory[TempName(target[p])] # NULL
  PROVE  directory[TempName(target[p])] # directory[Path("image")]
<1>1. target[p] \in Targets /\ "image" \in Targets
  BY DEF DiskInv, TypeOK, Targets
<1>2. TempName(target[p]) \in Paths /\ Path("image") \in Paths /\ TempName(target[p]) # Path("image")
  BY <1>1, PathFacts
<1>3. QED
  BY <1>2 DEF DiskInv, Distinct

LEMMA ImageInode ==
  ASSUME DiskInv
  PROVE  directory[Path("image")] \in Inodes /\ content[directory[Path("image")]] = Image
<1>1. Image # NULL
  BY NullFacts DEF DiskInv, ImageOpens, Contents
<1>2. directory[Path("image")] # NULL
  BY <1>1 DEF Image, Held
<1>3. QED
  BY <1>2, PathFacts DEF DiskInv, TypeOK, Image, Held

\* A step of Save that writes content c to inode i, which is not the image's.
LEMMA WriteKeepsImage ==
  ASSUME DiskInv, NEW i \in Inodes, i # directory[Path("image")], NEW c,
         content' = [content EXCEPT ![i] = c],
         directory'[Path("image")] = directory[Path("image")]
  PROVE  Image' = Image /\ ImageOpens'
<1>1. content'[directory[Path("image")]] = content[directory[Path("image")]]
  BY ImageInode DEF DiskInv, TypeOK
<1>2. Image' = Image
  BY <1>1, ImageInode, NullFacts DEF Image, Held
<1>3. QED
  BY <1>2 DEF DiskInv, ImageOpens

LEMMA SaveOpenInv ==
  ASSUME OneProcess, DiskInv, NEW p \in Processes, SaveOpen(p)
  PROVE  DiskInv'
<1> DEFINE temp == TempName(target[p])
<1>1. PICK i \in Inodes :
        /\ directory[temp] = i \/ Free(i)
        /\ directory' = [directory EXCEPT ![temp] = i]
        /\ content' = [content EXCEPT ![i] = Empty]
        /\ fd' = [fd EXCEPT ![p] = i]
  <2>1. target[p] \in Targets
    BY DEF DiskInv, TypeOK
  <2>2. directory[temp] \in Inodes \cup {NULL}
    BY <2>1, PathFacts DEF DiskInv, TypeOK
  <2>3. QED
    BY <2>2 DEF SaveOpen
<1>2. /\ pc[p] = "open" /\ Goto(p, "write") /\ UNCHANGED <<command, memory, dirty, target, mapped>>
      /\ target[p] \in Targets /\ temp \in Paths /\ temp # Path("image")
  <2>1. target[p] \in Targets /\ "image" \in Targets
    BY DEF DiskInv, TypeOK, Targets
  <2>2. QED
    BY <2>1, PathFacts DEF SaveOpen
<1>3. pc' = [pc EXCEPT ![p] = "write"] /\ pc'[p] = "write" /\ fd'[p] = i
  BY <1>1, <1>2 DEF Goto, DiskInv, TypeOK
<1>4. directory'[temp] = i /\ \A a \in Paths \ {temp} : directory'[a] = directory[a]
  BY <1>1, <1>2 DEF DiskInv, TypeOK
<1>5. \A a \in Paths \ {temp} : directory[a] # i
  BY <1>1, <1>2, NullFacts DEF DiskInv, Distinct, Free
<1>6. Distinct'
  BY <1>4, <1>5 DEF DiskInv, Distinct
<1>7. Image' = Image /\ ImageOpens'
  BY <1>1, <1>2, <1>4, <1>5, PathFacts, WriteKeepsImage
<1>8. TypeOK'
  BY <1>1, <1>2, <1>3 DEF DiskInv, TypeOK, Contents
<1>9. MemoryInv(p)' /\ RenameInv(p)'
  BY <1>2, <1>3 DEF DiskInv, MemoryInv, RenameInv, Working
<1>10. TempInv(p)'
  <2>1. TempName(target'[p]) = temp
    BY <1>2
  <2>2. QED
    BY <1>3, <1>4, <2>1, NullFacts DEF TempInv
<1>11. \A q \in Processes : q = p
  BY DEF OneProcess
<1>12. MapInv'
  <2>1. \A q \in Processes \cup Mounts : mapped[q] # NULL => mapped[q] # i
    BY <1>1, <1>2 DEF DiskInv, MapInv, Free
  <2>2. SUFFICES ASSUME NEW q \in Processes \cup Mounts, NEW t \in Targets, mapped[q] # NULL
                 PROVE  directory'[TempName(t)] # mapped[q]
    BY <1>2 DEF MapInv
  <2>3. TempName(t) \in Paths
    BY PathFacts
  <2>4. QED
    BY <1>4, <2>1, <2>2, <2>3 DEF DiskInv, MapInv
<1>13. QED
  BY <1>6, <1>7, <1>8, <1>9, <1>10, <1>11, <1>12 DEF DiskInv

\* write(), whole or short: after it, the open file holds c.
LEMMA WriteInv ==
  ASSUME OneProcess, DiskInv, NEW p \in Processes, pc[p] = "write",
         NEW c \in Contents, NEW l \in {"rename", "terminated"},
         l = "rename" => c = memory[p],
         content' = [content EXCEPT ![fd[p]] = c], Goto(p, l),
         UNCHANGED <<directory, command, memory, dirty, target, fd, mapped>>
  PROVE  DiskInv'
<1>1. /\ fd[p] # NULL /\ fd[p] \in Inodes
      /\ directory[TempName(target[p])] = fd[p]
  BY DEF DiskInv, TempInv, TypeOK
<1>2. fd[p] # directory[Path("image")]
  BY <1>1, TempIsNotImage
<1>3. Image' = Image /\ ImageOpens'
  BY <1>1, <1>2, WriteKeepsImage
<1>4. pc' = [pc EXCEPT ![p] = l] /\ pc'[p] = l /\ content'[fd[p]] = c
  BY <1>1 DEF Goto, DiskInv, TypeOK
<1>5. TypeOK'
  BY <1>1, <1>4 DEF DiskInv, TypeOK
<1>6. MemoryInv(p)' /\ RenameInv(p)'
  BY <1>4 DEF DiskInv, MemoryInv, RenameInv, Working
<1>7. TempInv(p)'
  BY <1>1, <1>4 DEF TempInv
<1>8. Distinct'
  BY DEF DiskInv, Distinct
<1>9. \A q \in Processes : q = p
  BY DEF OneProcess
<1>10. MapInv'
  BY DEF DiskInv, MapInv
<1>11. QED
  BY <1>3, <1>5, <1>6, <1>7, <1>8, <1>9, <1>10 DEF DiskInv

LEMMA SaveWriteInv ==
  ASSUME OneProcess, DiskInv, NEW p \in Processes, SaveWrite(p)
  PROVE  DiskInv'
<1>1. pc[p] = "write" /\ memory[p] \in Contents
  BY DEF SaveWrite, DiskInv, MemoryInv, Working, Contents, Plain
<1>2. QED
  BY <1>1, WriteInv DEF SaveWrite

LEMMA SaveWriteShortInv ==
  ASSUME OneProcess, DiskInv, NEW p \in Processes, SaveWriteShort(p)
  PROVE  DiskInv'
<1>1. pc[p] = "write" /\ memory[p] \in Contents
  BY DEF SaveWriteShort, DiskInv, MemoryInv, Working, Contents, Plain
<1>2. PICK c \in Contents : content' = [content EXCEPT ![fd[p]] = c]
  BY <1>1 DEF SaveWriteShort, Contents
<1>3. QED
  BY <1>1, <1>2, WriteInv DEF SaveWriteShort, AfterShortWrite

\* After rename() the target holds what the temporary file held: the volume in memory.
LEMMA SaveRenameWrites ==
  ASSUME DiskInv, NEW p \in Processes, SaveRename(p)
  PROVE  Held(Path(target[p]))' = memory[p] /\ memory[p] \in Volumes
<1> DEFINE temp == TempName(target[p])
           to == Path(target[p])
<1>1. /\ pc[p] = "rename" /\ content' = content /\ target' = target
      /\ directory' = [directory EXCEPT ![temp] = NULL, ![to] = directory[temp]]
      /\ directory[temp] # NULL
  BY DEF SaveRename
<1>2. temp \in Paths /\ to \in Paths /\ temp # to
  BY PathFacts DEF DiskInv, TypeOK
<1>3. directory'[to] = directory[temp]
  BY <1>1, <1>2 DEF DiskInv, TypeOK
<1>4. directory[temp] = fd[p] /\ content[fd[p]] = memory[p]
  BY <1>1 DEF DiskInv, TempInv
<1>5. memory[p] \in Volumes
  BY <1>1 DEF DiskInv, MemoryInv, Working, Plain
<1>6. Held(Path(target[p]))' = content'[directory'[to]]
  BY <1>1, <1>3 DEF Held
<1>7. QED
  BY <1>1, <1>3, <1>4, <1>5, <1>6

LEMMA SaveRenameInv ==
  ASSUME OneProcess, DiskInv, NEW p \in Processes, SaveRename(p)
  PROVE  DiskInv'
<1> DEFINE temp == TempName(target[p])
           to == Path(target[p])
<1>1. /\ pc[p] = "rename" /\ directory[temp] # NULL
      /\ directory' = [directory EXCEPT ![temp] = NULL, ![to] = directory[temp]]
      /\ fd' = [fd EXCEPT ![p] = NULL]
      /\ pc' = [pc EXCEPT ![p] = "saved"]
      /\ UNCHANGED <<content, command, memory, dirty, target, mapped>>
  BY DEF SaveRename, Goto
<1>2. /\ target[p] \in Targets
      /\ temp \in Paths /\ to \in Paths /\ temp # to /\ temp # Path("image")
      /\ Path("image") \in Paths
  <2>1. target[p] \in Targets /\ "image" \in Targets
    BY DEF DiskInv, TypeOK, Targets
  <2>2. QED
    BY <2>1, PathFacts
<1>3. /\ directory'[temp] = NULL /\ directory'[to] = directory[temp]
      /\ \A a \in Paths \ {temp, to} : directory'[a] = directory[a]
  BY <1>1, <1>2 DEF DiskInv, TypeOK
<1>4. pc'[p] = "saved"
  BY <1>1 DEF DiskInv, TypeOK
<1>5. Held(to)' = memory[p] /\ memory[p] \in Volumes
  <2>1. Held(Path(target[p]))' = memory[p] /\ memory[p] \in Volumes
    BY SaveRenameWrites
  <2>2. QED
    BY <1>1, <2>1
<1>6. Distinct'
  BY <1>1, <1>2, <1>3 DEF DiskInv, Distinct
<1>7. ImageOpens' /\ (target[p] = "image" => Image' = memory[p])
  <2>1. CASE target[p] = "image"
    BY <1>1, <1>5, <2>1 DEF ImageOpens, Image
  <2>2. CASE target[p] # "image"
    <3>1. Path("image") \notin {temp, to}
      <4>1. target[p] \in Targets /\ "image" \in Targets
        BY <1>2 DEF Targets
      <4>2. QED
        BY <1>2, <2>2, <4>1, PathFacts
    <3>2. directory'[Path("image")] = directory[Path("image")]
      BY <1>2, <1>3, <3>1
    <3>3. Image' = Image
      BY <1>1, <3>2 DEF Image, Held
    <3>4. QED
      BY <2>2, <3>3 DEF DiskInv, ImageOpens
  <2>3. QED
    BY <2>1, <2>2
<1>8. directory[temp] \in Inodes
  BY <1>1, <1>2 DEF DiskInv, TypeOK
<1>9. TypeOK'
  BY <1>1, <1>2, <1>8 DEF DiskInv, TypeOK
<1>10. MemoryInv(p)' /\ TempInv(p)'
  BY <1>1, <1>4 DEF DiskInv, MemoryInv, TempInv, Working
<1>11. RenameInv(p)'
  BY <1>1, <1>4, <1>7 DEF DiskInv, RenameInv
<1>12. \A q \in Processes : q = p
  BY DEF OneProcess
<1>13. MapInv'
  <2>1. SUFFICES ASSUME NEW q \in Processes \cup Mounts, NEW t \in Targets, mapped[q] # NULL
                 PROVE  directory'[TempName(t)] # mapped[q]
    BY <1>1 DEF MapInv
  <2>2. TempName(t) \in Paths /\ TempName(t) # to
    BY <1>2, PathFacts
  <2>3. QED
    BY <1>3, <2>1, <2>2 DEF DiskInv, MapInv
<1>14. QED
  BY <1>6, <1>7, <1>9, <1>10, <1>11, <1>12, <1>13 DEF DiskInv

LEMMA SaveRenameFailsInv ==
  ASSUME OneProcess, DiskInv, NEW p \in Processes, SaveRenameFails(p)
  PROVE  DiskInv'
<1>1. /\ pc[p] = "rename" /\ UNCHANGED fileVars /\ UNCHANGED <<command, memory, dirty, target, mapped>>
      /\ fd' = [fd EXCEPT ![p] = NULL]
      /\ pc' = [pc EXCEPT ![p] = "terminated"]
  BY DEF SaveRenameFails, Goto
<1>2. pc'[p] = "terminated" /\ TypeOK'
  BY <1>1 DEF DiskInv, TypeOK, fileVars
<1>3. MemoryInv(p)' /\ TempInv(p)' /\ RenameInv(p)'
  BY <1>1, <1>2 DEF DiskInv, MemoryInv, TempInv, RenameInv, Working
<1>4. QED
  BY <1>1, <1>2, <1>3, ProcessStep

-----------------------------------------------------------------------------
(* prodosfs, and steps of others *)

\* A step that changes mapped only.
LEMMA StutterInv ==
  ASSUME DiskInv, UNCHANGED <<fileVars, processVars>>,
         mapped' \in [Processes \cup Mounts -> Inodes \cup {NULL}],
         UNCHANGED mapped \/ MapInv'
  PROVE  DiskInv'
<1>1. Image' = Image /\ Distinct' /\ ImageOpens'
  BY FilesUnchanged DEF DiskInv
<1>2. TypeOK'
  BY DEF DiskInv, TypeOK, fileVars, processVars
<1>3. ASSUME NEW p \in Processes PROVE (MemoryInv(p) /\ TempInv(p) /\ RenameInv(p))'
  BY <1>1 DEF DiskInv, MemoryInv, TempInv, RenameInv, fileVars, processVars
<1>4. MapInv'
  BY MapUnchanged DEF DiskInv
<1>5. QED
  BY <1>1, <1>2, <1>3, <1>4 DEF DiskInv

LEMMA MappingInv ==
  ASSUME DiskInv, NEW m \in Mounts, MountImage(m) \/ UnmountImage(m)
  PROVE  DiskInv'
<1>1. PICK i \in {NULL, directory[Path("image")]} : mapped' = [mapped EXCEPT ![m] = i]
  BY DEF MountImage, UnmountImage, Mapping
<1>2. UNCHANGED fileVars /\ UNCHANGED processVars
  BY DEF MountImage, UnmountImage
<1>3. MapInv'
  BY <1>1, <1>2, MapStep
<1>4. i \in Inodes \cup {NULL}
  BY PathFacts DEF DiskInv, TypeOK
<1>5. mapped' \in [Processes \cup Mounts -> Inodes \cup {NULL}]
  BY <1>1, <1>4 DEF DiskInv, TypeOK
<1>6. QED
  BY <1>2, <1>3, <1>5, StutterInv

-----------------------------------------------------------------------------
(* The theorems *)

LEMMA StepInv ==
  ASSUME OneProcess, DiskInv, [Next]_vars
  PROVE  DiskInv'
<1>1. ASSUME NEW p \in Processes, NEW c \in Commands, Start(p, c) PROVE DiskInv'
  BY <1>1, StartInv
<1>2. ASSUME NEW p \in Processes, NEW c \in Commands, StartFails(p, c) PROVE DiskInv'
  BY <1>2, StartFailsInv
<1>3. ASSUME NEW p \in Processes, NEW n \in Names, RenameVolume(p, n) PROVE DiskInv'
  BY <1>3, RenameVolumeInv
<1>4. ASSUME NEW p \in Processes, RenameImage(p) PROVE DiskInv'
  BY <1>4, StopInv DEF RenameImage
<1>5. ASSUME NEW p \in Processes, Exit(p) PROVE DiskInv'
  BY <1>5, StopInv DEF Exit
<1>6. ASSUME NEW p \in Processes, SaveOpen(p) PROVE DiskInv'
  BY <1>6, SaveOpenInv
<1>7. ASSUME NEW p \in Processes, SaveOpenFails(p) PROVE DiskInv'
  BY <1>7, StopInv DEF SaveOpenFails, AfterOpenFailed
<1>8. ASSUME NEW p \in Processes, SaveWrite(p) PROVE DiskInv'
  BY <1>8, SaveWriteInv
<1>9. ASSUME NEW p \in Processes, SaveWriteShort(p) PROVE DiskInv'
  BY <1>9, SaveWriteShortInv
<1>10. ASSUME NEW p \in Processes, SaveRename(p) PROVE DiskInv'
  BY <1>10, SaveRenameInv
<1>11. ASSUME NEW p \in Processes, SaveRenameFails(p) PROVE DiskInv'
  BY <1>11, SaveRenameFailsInv
<1>12. ASSUME NEW p \in Processes, AfterSave(p) PROVE DiskInv'
  BY <1>12, AfterSaveInv
<1>13. ASSUME NEW p \in Processes, Ended(p) \/ Killed(p) PROVE DiskInv'
  BY <1>13, GoneInv DEF Ended, Killed
<1>14. ASSUME NEW m \in Mounts, MountImage(m) \/ UnmountImage(m) PROVE DiskInv'
  BY <1>14, MappingInv
<1>15. CASE UNCHANGED vars
  <2>1. UNCHANGED fileVars /\ UNCHANGED processVars /\ UNCHANGED mapped
    BY <1>15 DEF vars
  <2>2. mapped' \in [Processes \cup Mounts -> Inodes \cup {NULL}]
    BY <2>1 DEF DiskInv, TypeOK
  <2>3. QED
    BY <2>1, <2>2, StutterInv
<1>16. QED
  BY <1>1, <1>2, <1>3, <1>4, <1>5, <1>6, <1>7, <1>8, <1>9, <1>10, <1>11, <1>12, <1>13, <1>14,
     <1>15 DEF Next, Work

\* With one process at a time, the invariant holds throughout.
LEMMA Invariant == ASSUME OneProcess PROVE Spec => []DiskInv
<1>1. Init => DiskInv
  BY InitInv
<1>2. DiskInv /\ [Next]_vars => DiskInv'
  BY StepInv
<1>3. QED
  BY <1>1, <1>2, PTL DEF Spec

\* Every variable of diskutil keeps its type.
THEOREM TypeCorrect == ASSUME OneProcess PROVE Spec => []TypeOK
<1>1. DiskInv => TypeOK
  BY DEF DiskInv
<1>2. QED
  BY <1>1, Invariant, PTL

\* Whatever system call of Save fails and wherever diskutil is killed and started again,
\* the image can be opened.
THEOREM ImageAlwaysOpens == ASSUME OneProcess PROVE Spec => []ImageOpens
<1>1. DiskInv => ImageOpens
  BY DEF DiskInv
<1>2. QED
  BY <1>1, Invariant, PTL

\* Whenever S_Rename shows its menu, the image holds the volume that the menu shows.
THEOREM MenuIsCurrent == ASSUME OneProcess PROVE Spec => []MenuShowsImage
<1>1. DiskInv => MenuShowsImage
  BY DEF DiskInv, MenuShowsImage, RenameInv
<1>2. QED
  BY <1>1, Invariant, PTL

\* When Save returns true, the file it was given holds the volume in memory.
THEOREM SaveIsComplete == ASSUME OneProcess PROVE Spec => SaveWritesVolume
<1> DEFINE Written == \A p \in Processes :
                        pc[p] = "rename" /\ pc'[p] = "saved" => Held(Path(target[p]))' = memory[p]
<1>1. DiskInv /\ [Next]_vars => [Written]_vars
  <2> SUFFICES ASSUME DiskInv, Next, NEW p \in Processes,
                      pc[p] = "rename", pc'[p] = "saved"
               PROVE  Held(Path(target[p]))' = memory[p]
    BY DEF Written
  <2>1. PICK q \in Processes : Work(q)
    BY DEF Next, MountImage, UnmountImage, processVars
  <2>2. q = p
    BY DEF OneProcess
  <2>3. SaveRename(p)
    <3>1. Killed(p) => pc'[p] = "idle"
      BY DEF Killed, Gone, Goto, DiskInv, TypeOK
    <3>2. SaveRenameFails(p) => pc'[p] = "terminated"
      BY DEF SaveRenameFails, Goto, DiskInv, TypeOK
    <3>3. QED
      BY <2>1, <2>2, <3>1, <3>2 DEF Work, Start, StartFails, Started, RenameVolume, RenameImage,
         Exit, SaveOpen, SaveOpenFails, SaveWrite, SaveWriteShort, AfterSave, Ended
  <2>4. QED
    BY <2>3, SaveRenameWrites
<1>2. QED
  BY <1>1, Invariant, PTL DEF Spec, SaveWritesVolume

\* No file changes while diskutil or a mounted file system has it mapped.
THEOREM MappedFilesKept == ASSUME OneProcess PROVE Spec => MappedUnchanged
<1> DEFINE Kept == \A p \in Processes \cup Mounts :
                     mapped[p] # NULL => content'[mapped[p]] = content[mapped[p]]
<1>1. DiskInv /\ [Next]_vars => [Kept]_vars
  <2> SUFFICES ASSUME DiskInv, Next, NEW m \in Processes \cup Mounts, mapped[m] # NULL
               PROVE  content'[mapped[m]] = content[mapped[m]]
    BY DEF Kept
  <2>1. CASE content' = content
    BY <2>1
  <2>2. CASE content' # content
    <3>1. PICK p \in Processes : SaveOpen(p) \/ SaveWrite(p) \/ SaveWriteShort(p)
      BY <2>2 DEF Next, Work, Start, StartFails, RenameVolume, RenameImage, Exit, SaveOpenFails,
         SaveRename, SaveRenameFails, AfterSave, Ended, Killed, Gone, MountImage, UnmountImage,
         fileVars
    <3>2. target[p] \in Targets /\ TempName(target[p]) \in Paths /\ mapped[m] \in Inodes
      BY PathFacts DEF DiskInv, TypeOK
    <3>3. PICK i \in Inodes :
            /\ \A j \in Inodes \ {i} : content'[j] = content[j]
            /\ i = directory[TempName(target[p])] \/ Free(i)
      <4>1. CASE SaveOpen(p)
        <5>1. directory[TempName(target[p])] \in Inodes \cup {NULL}
          BY <3>2 DEF DiskInv, TypeOK
        <5>2. PICK i \in Inodes :
                /\ content' = [content EXCEPT ![i] = Empty]
                /\ i = directory[TempName(target[p])] \/ Free(i)
          BY <4>1, <5>1 DEF SaveOpen
        <5>3. \A j \in Inodes \ {i} : content'[j] = content[j]
          BY <5>2 DEF DiskInv, TypeOK
        <5>4. QED
          BY <5>2, <5>3
      <4>2. CASE SaveWrite(p) \/ SaveWriteShort(p)
        <5>1. pc[p] = "write"
          BY <4>2 DEF SaveWrite, SaveWriteShort
        <5>2. fd[p] \in Inodes /\ directory[TempName(target[p])] = fd[p]
          BY <5>1 DEF DiskInv, TempInv, TypeOK
        <5>3. \A j \in Inodes \ {fd[p]} : content'[j] = content[j]
          BY <4>2, <5>2 DEF SaveWrite, SaveWriteShort, DiskInv, TypeOK
        <5>4. QED
          BY <5>2, <5>3
      <4>3. QED
        BY <3>1, <4>1, <4>2
    <3>4. i # mapped[m]
      BY <3>2, <3>3 DEF DiskInv, MapInv, Free
    <3>5. QED
      BY <3>2, <3>3, <3>4 DEF DiskInv, TypeOK
  <2>3. QED
    BY <2>1, <2>2
<1>2. QED
  BY <1>1, Invariant, PTL DEF Spec, MappedUnchanged
=============================================================================
