------------------------------ MODULE MountProofs ------------------------------
(***************************************************************************)
(* The directories that prodosfs makes and removes, for any number of      *)
(* processes, volumes and suffixes.                                        *)
(***************************************************************************)
EXTENDS Mount, TLAPS

Searching == {"stat", "retry", "mkdir"}
Mounting == {"log", "fuse", "init", "serving", "ending"}

\* What a process has made, mounted and registered, at each stage.
StageInv(p) ==
  /\ pc[p] # "idle" => options[p] \in Options
  /\ pc[p] = "idle" => mount_dir[p] = Elsewhere /\ i[p] = 1
  /\ pc[p] \in Searching => options[p].use_name /\ mount_dir[p] # Elsewhere
  /\ pc[p] \in {"idle"} \cup Searching => ~made[p]
  /\ pc[p] \in Mounting =>
       /\ made[p] <=> options[p].use_name
       /\ ~made[p] => mount_dir[p] = Elsewhere
  /\ attached[p] <=> pc[p] \in {"init", "serving"}
  /\ atexit[p] <=> pc[p] \in {"serving", "ending"} /\ made[p]

\* A directory that a process has made is there, and is its alone.
OwnInv(p) ==
  made[p] =>
    /\ mount_dir[p] \in dirs
    /\ mount_dir[p] \notin users \cup abandoned
    /\ \A q \in Processes : made[q] /\ mount_dir[q] = mount_dir[p] => q = p

\* What was left behind is there, and what is still mounted there was left behind, or is
\* the user's.
LeftInv ==
  /\ Elsewhere \in users
  /\ abandoned \subseteq dirs
  /\ abandoned \cap users = {}
  /\ dead \subseteq abandoned \cup {Elsewhere}

MountInv ==
  /\ TypeOK
  /\ LeftInv
  /\ NothingLeftBehind
  /\ \A p \in Processes : StageInv(p) /\ OwnInv(p)

-----------------------------------------------------------------------------
(* Lemmas *)

LEMMA DirectoryFacts ==
  /\ Elsewhere \in Directories
  /\ \A v \in ValidNames, s \in Suffixes :
       Named(v, s) \in Directories /\ Named(v, s) # Elsewhere
  /\ \A d \in Directories : d # Elsewhere =>
       /\ d.volume \in ValidNames /\ d.suffix \in Suffixes
       /\ \A s \in Suffixes : [d EXCEPT !.suffix = s] = Named(d.volume, s)
BY MountAssumption DEF MountAssumption, Directories, Named, Elsewhere

LEMMA InitInv == Init => MountInv
<1> SUFFICES ASSUME Init PROVE MountInv
  OBVIOUS
<1>1. PICK e \in Existing : dirs = e \cup {Elsewhere}
  BY DEF Init
<1>2. e \subseteq Directories
  BY MountAssumption DEF MountAssumption
<1>3. TypeOK
  BY <1>1, <1>2, DirectoryFacts, MountAssumption DEF Init, TypeOK, Errnos, MountAssumption
<1>4. LeftInv /\ NothingLeftBehind
  BY <1>1 DEF Init, LeftInv, NothingLeftBehind
<1>5. ASSUME NEW p \in Processes PROVE StageInv(p) /\ OwnInv(p)
  <2>1. pc[p] = "idle" /\ ~made[p] /\ mount_dir[p] = Elsewhere /\ i[p] = 1
    BY DEF Init
  <2>2. attached[p] = FALSE /\ atexit[p] = FALSE
    BY DEF Init
  <2>3. QED
    BY <2>1, <2>2 DEF StageInv, OwnInv, Searching, Mounting
<1>6. QED
  BY <1>3, <1>4, <1>5 DEF MountInv

\* No process but p moves.
Alone(p) ==
  \A q \in Processes \ {p} :
    /\ pc'[q] = pc[q] /\ options'[q] = options[q] /\ mount_dir'[q] = mount_dir[q]
    /\ errno'[q] = errno[q] /\ i'[q] = i[q]
    /\ attached'[q] = attached[q] /\ atexit'[q] = atexit[q] /\ made'[q] = made[q]


\* A step that makes and removes no directory keeps the invariant if it keeps what the
\* process's stage says.
LEMMA QuietStep ==
  ASSUME MountInv, NEW p \in Processes, TypeOK', Alone(p),
         UNCHANGED <<dirs, dead, users, abandoned, made>>,
         made[p] => mount_dir'[p] = mount_dir[p],
         StageInv(p)'
  PROVE  MountInv'
<1>1. \A q \in Processes : made'[q] = made[q]
  OBVIOUS
<1>2. \A q \in Processes : made[q] => mount_dir'[q] = mount_dir[q]
  BY DEF Alone
<1>3. LeftInv'
  BY DEF MountInv, LeftInv
<1>4. NothingLeftBehind'
  BY <1>1, <1>2 DEF MountInv, NothingLeftBehind
<1>5. ASSUME NEW q \in Processes PROVE OwnInv(q)'
  BY <1>1, <1>2 DEF MountInv, OwnInv
<1>6. ASSUME NEW q \in Processes PROVE StageInv(q)'
  BY DEF MountInv, StageInv, Alone
<1>7. QED
  BY <1>3, <1>4, <1>5, <1>6 DEF MountInv

-----------------------------------------------------------------------------
(* The steps that make and remove no directory *)

LEMMA StartInv ==
  ASSUME MountInv, NEW p \in Processes, NEW v \in Volumes, NEW o \in Options,
         NEW e \in LeftErrnos, Start(p, v, o, e)
  PROVE  MountInv'
<1>1. pc[p] = "idle" /\ StageInv(p) /\ TypeOK
  BY DEF Start, MountInv
<1>2. TypeOK'
  <2>1. e \in Errnos
    BY MountAssumption DEF MountAssumption
  <2>2. v \in ValidNames => Named(v, 0) \in Directories
    BY DirectoryFacts, MountAssumption DEF Suffixes, MountAssumption
  <2>3. QED
    BY <1>1, <2>1, <2>2 DEF TypeOK, Start, Goto, mountVars, dirVars
<1>3. StageInv(p)'
  <2>1. v \in ValidNames => Named(v, 0) # Elsewhere
    BY DirectoryFacts, MountAssumption DEF Suffixes, MountAssumption
  <2>2. QED
    BY <1>1, <2>1 DEF StageInv, TypeOK, Start, Goto, mountVars, Searching, Mounting, Options
<1>4. Alone(p)
  BY <1>1 DEF Alone, TypeOK, Start, Goto, mountVars
<1>5. UNCHANGED <<dirs, dead, users, abandoned, made>> /\ ~made[p]
  BY <1>1 DEF Start, StageInv, mountVars, dirVars
<1>6. QED
  BY <1>2, <1>3, <1>4, <1>5, QuietStep

LEMMA StatInv ==
  ASSUME MountInv, NEW p \in Processes, Stat(p)
  PROVE  MountInv'
<1>1. pc[p] = "stat" /\ StageInv(p) /\ TypeOK
  BY DEF Stat, MountInv
<1>2. TypeOK'
  <2>1. AfterStat(mount_dir[p], errno[p]) \in Errnos
    BY <1>1 DEF TypeOK, AfterStat, Errnos
  <2>2. QED
    BY <1>1, <2>1 DEF TypeOK, Stat, Goto, mountVars, dirVars
<1>3. StageInv(p)'
  BY <1>1 DEF StageInv, TypeOK, Stat, Goto, mountVars, Searching, Mounting
<1>4. Alone(p)
  BY <1>1 DEF Alone, TypeOK, Stat, Goto, mountVars
<1>5. UNCHANGED <<dirs, dead, users, abandoned, made, mount_dir>>
  BY DEF Stat, mountVars, dirVars
<1>6. QED
  BY <1>2, <1>3, <1>4, <1>5, QuietStep

LEMMA RetryInv ==
  ASSUME MountInv, NEW p \in Processes, Retry(p)
  PROVE  MountInv'
<1>1. pc[p] = "retry" /\ StageInv(p) /\ TypeOK
  BY DEF Retry, MountInv
<1> DEFINE d == [mount_dir[p] EXCEPT !.suffix = i[p]]
<1>2. d \in Directories /\ d # Elsewhere
  <2>1. mount_dir[p] \in Directories /\ mount_dir[p] # Elsewhere
    BY <1>1 DEF TypeOK, StageInv, Searching
  <2>2. i[p] \in Suffixes
    BY <1>1, MountAssumption DEF TypeOK, Retry, TryAgain, Suffixes, MountAssumption
  <2>3. QED
    BY <2>1, <2>2, DirectoryFacts
<1>3. TypeOK'
  <2>1. AfterStat(d, "0") \in Errnos
    BY DEF AfterStat, Errnos
  <2>2. i[p] + 1 \in 1 .. MaxSuffix + 1
    BY <1>1, MountAssumption DEF TypeOK, Retry, TryAgain, MountAssumption
  <2>3. QED
    BY <1>1, <1>2, <2>1, <2>2 DEF TypeOK, Retry, mountVars, dirVars
<1>4. StageInv(p)'
  BY <1>1, <1>2 DEF StageInv, TypeOK, Retry, mountVars, Searching, Mounting
<1>5. Alone(p)
  BY <1>1 DEF Alone, TypeOK, Retry, mountVars
<1>6. UNCHANGED <<dirs, dead, users, abandoned, made>> /\ ~made[p]
  BY <1>1 DEF Retry, StageInv, mountVars, dirVars, Searching
<1>7. QED
  BY <1>3, <1>4, <1>5, <1>6, QuietStep

\* The steps of the process p that only move on, mount or register.
MovesOn(p) ==
  \/ RetryEnds(p) \/ MkdirFails(p) \/ OpenLog(p) \/ MainFails(p)
  \/ FuseMount(p) \/ InitCallback(p) \/ Unmount(p)

LEMMA MovesOnInv ==
  ASSUME MountInv, NEW p \in Processes, MovesOn(p)
  PROVE  MountInv'
<1> USE DEF MovesOn, RetryEnds, MkdirFails, OpenLog, MainFails, FuseMount, InitCallback,
            Unmount, Goto, choiceVars, mountVars, dirVars
<1>1. StageInv(p) /\ TypeOK
  BY DEF MountInv
<1>2. TypeOK'
  <2>1. pc' \in [Processes -> {"idle", "stat", "retry", "mkdir", "log", "fuse", "init",
                               "serving", "ending", "failed"}]
    BY <1>1 DEF TypeOK
  <2>2. errno' \in [Processes -> Errnos]
    BY <1>1 DEF TypeOK, Errnos
  <2>3. atexit' \in [Processes -> BOOLEAN] /\ attached' \in [Processes -> BOOLEAN]
    <3>1. pc[p] = "init" => options[p].use_name \in BOOLEAN
      BY <1>1 DEF StageInv, Options
    <3>2. QED
      BY <1>1, <3>1 DEF TypeOK, Registers
  <2>4. UNCHANGED <<dirs, dead, options, mount_dir, i, made, users, abandoned, disturbed>>
    OBVIOUS
  <2>5. QED
    BY <1>1, <2>1, <2>2, <2>3, <2>4 DEF TypeOK
<1>3. StageInv(p)'
  BY <1>1 DEF StageInv, TypeOK, Searching, Mounting, Registers, Options
<1>4. Alone(p)
  BY <1>1 DEF Alone, TypeOK
<1>5. UNCHANGED <<dirs, dead, users, abandoned, made, mount_dir>>
  OBVIOUS
<1>6. QED
  BY <1>2, <1>3, <1>4, <1>5, QuietStep

-----------------------------------------------------------------------------
(* The steps that make a directory, or end a process *)

LEMMA MkdirInv ==
  ASSUME MountInv, NEW p \in Processes, Mkdir(p)
  PROVE  MountInv'
<1>1. /\ TypeOK /\ LeftInv /\ NothingLeftBehind
      /\ \A q \in Processes : StageInv(q) /\ OwnInv(q)
  BY DEF MountInv
<1>2. /\ pc[p] = "mkdir" /\ mount_dir[p] \notin dirs /\ dirs' = dirs \cup {mount_dir[p]}
      /\ UNCHANGED <<options, mount_dir, attached, atexit, dead, users, abandoned>>
  BY DEF Mkdir, MkdirSucceeds
<1>3. made' = [made EXCEPT ![p] = TRUE] /\ ~made[p]
  BY <1>1, <1>2 DEF Mkdir, StageInv, Searching
<1>4. TypeOK'
  <2>1. disturbed' \in [Processes -> BOOLEAN]
    BY <1>1 DEF TypeOK, Mkdir, DisturbedBy, Choosing
  <2>2. i' \in [Processes -> 1 .. MaxSuffix + 1]
    BY <1>1, MountAssumption DEF TypeOK, Mkdir, MountAssumption
  <2>3. errno' \in [Processes -> Errnos]
    BY <1>1 DEF TypeOK, Mkdir, Errnos
  <2>4. pc' \in [Processes -> {"idle", "stat", "retry", "mkdir", "log", "fuse", "init",
                               "serving", "ending", "failed"}]
    BY <1>1 DEF TypeOK, Mkdir, Goto
  <2>5. QED
    BY <1>1, <1>2, <1>3, <2>1, <2>2, <2>3, <2>4 DEF TypeOK
<1>5. LeftInv' /\ NothingLeftBehind'
  <2>1. made'[p] /\ \A q \in Processes : made[q] => made'[q]
    BY <1>1, <1>3 DEF TypeOK
  <2>2. NothingLeftBehind'
    BY <1>1, <1>2, <2>1 DEF NothingLeftBehind
  <2>3. QED
    BY <1>1, <1>2, <2>2 DEF LeftInv
<1>6. ASSUME NEW q \in Processes PROVE OwnInv(q)'
  <2>1. \A r \in Processes \ {p} : made'[r] = made[r]
    BY <1>1, <1>3 DEF TypeOK
  <2>2. \A r \in Processes : made[r] => mount_dir[r] \in dirs
    BY <1>1 DEF OwnInv
  <2>3. mount_dir[p] \notin users \cup abandoned
    BY <1>1, <1>2 DEF TypeOK, LeftInv
  <2>4. \A r \in Processes : r # p /\ made'[r] => mount_dir[r] # mount_dir[p]
    BY <1>2, <2>1, <2>2
  <2>5. CASE q = p
    BY <1>2, <2>3, <2>4, <2>5 DEF OwnInv
  <2>6. CASE q # p
    BY <1>1, <1>2, <2>1, <2>4, <2>6 DEF OwnInv
  <2>7. QED
    BY <2>5, <2>6
<1>7. ASSUME NEW q \in Processes PROVE StageInv(q)'
  <2>1. CASE q = p
    <3>1. pc'[p] \in {"log", "fuse"} /\ made'[p] = TRUE
      BY <1>1, <1>3 DEF TypeOK, Mkdir, Goto
    <3>2. ~attached[p] /\ ~atexit[p] /\ options[p] \in Options /\ options[p].use_name
      BY <1>1, <1>2 DEF StageInv, Searching
    <3>3. QED
      BY <1>2, <2>1, <3>1, <3>2 DEF StageInv, Searching, Mounting
  <2>2. CASE q # p
    <3>1. pc'[q] = pc[q] /\ made'[q] = made[q] /\ i'[q] = i[q]
      BY <1>1, <1>3, <2>2 DEF TypeOK, Mkdir, Goto
    <3>2. QED
      BY <1>1, <1>2, <3>1 DEF StageInv
  <2>3. QED
    BY <2>1, <2>2
<1>8. QED
  BY <1>4, <1>5, <1>6, <1>7 DEF MountInv

LEMMA GoneFacts ==
  ASSUME TypeOK, NEW p \in Processes, Gone(p)
  PROVE  /\ Alone(p) /\ StageInv(p)' /\ made'[p] = FALSE
         /\ pc' \in [Processes -> {"idle", "stat", "retry", "mkdir", "log", "fuse", "init",
                                   "serving", "ending", "failed"}]
         /\ options' \in [Processes -> Options \cup {NULL}]
         /\ mount_dir' \in [Processes -> Directories]
         /\ errno' \in [Processes -> Errnos]
         /\ i' \in [Processes -> 1 .. MaxSuffix + 1]
         /\ {attached', atexit', made'} \subseteq [Processes -> BOOLEAN]
<1> USE DEF Gone, Goto
<1>1. Alone(p)
  BY DEF Alone, TypeOK
<1>2. StageInv(p)' /\ made'[p] = FALSE
  BY DEF StageInv, TypeOK, Searching, Mounting
<1>3. i' \in [Processes -> 1 .. MaxSuffix + 1]
  BY MountAssumption DEF TypeOK, MountAssumption
<1>4. QED
  BY <1>1, <1>2, <1>3, DirectoryFacts DEF TypeOK, Errnos

LEMMA EndInv ==
  ASSUME MountInv, NEW p \in Processes, End(p)
  PROVE  MountInv'
<1>1. /\ TypeOK /\ LeftInv /\ NothingLeftBehind
      /\ \A q \in Processes : StageInv(q) /\ OwnInv(q)
  BY DEF MountInv
<1>2. /\ pc[p] = "ending" /\ Gone(p) /\ UNCHANGED <<dead, users, abandoned>>
      /\ dirs' = IF atexit[p] THEN Removed(mount_dir[p]) ELSE dirs
  BY DEF End
<1>3. /\ Alone(p) /\ StageInv(p)' /\ made'[p] = FALSE
  BY <1>1, <1>2, GoneFacts
\* The directory of the process is no longer a mount point, so it is removed.
<1>4. made[p] => ~Busy(mount_dir[p])
  <2>1. SUFFICES ASSUME made[p] PROVE ~Busy(mount_dir[p])
    OBVIOUS
  <2>2. mount_dir[p] \notin users /\ mount_dir[p] \notin abandoned
    BY <1>1, <2>1 DEF OwnInv
  <2>3. mount_dir[p] \notin dead
    BY <1>1, <2>2 DEF LeftInv
  <2>4. ASSUME NEW q \in Processes, attached[q] PROVE mount_dir[q] # mount_dir[p]
    <3>1. q # p /\ pc[q] \in Mounting
      BY <1>1, <1>2, <2>4 DEF StageInv, Mounting
    <3>2. CASE made[q]
      BY <1>1, <2>1, <3>1, <3>2 DEF OwnInv
    <3>3. CASE ~made[q]
      BY <1>1, <2>2, <3>1, <3>3 DEF StageInv, LeftInv
    <3>4. QED
      BY <3>2, <3>3
  <2>5. QED
    BY <2>3, <2>4 DEF Busy
<1>5. dirs' = IF made[p] THEN dirs \ {mount_dir[p]} ELSE dirs
  BY <1>1, <1>2, <1>4 DEF StageInv, Removed
<1>6. \A q \in Processes : made'[q] => q # p /\ made[q] /\ mount_dir'[q] = mount_dir[q]
  BY <1>3 DEF Alone
<1>7. TypeOK'
  <2>1. disturbed' \in [Processes -> BOOLEAN]
    BY <1>1 DEF TypeOK, End, DisturbedBy, Choosing
  <2>2. users' \subseteq dirs'
    BY <1>1, <1>2, <1>5 DEF TypeOK, OwnInv
  <2>3. QED
    BY <1>1, <1>2, <1>5, <2>1, <2>2, GoneFacts DEF TypeOK
<1>8. LeftInv' /\ NothingLeftBehind'
  <2>1. abandoned' \subseteq dirs'
    BY <1>1, <1>2, <1>5 DEF LeftInv, OwnInv
  <2>2. \A q \in Processes : q # p /\ made[q] => made'[q] /\ mount_dir'[q] = mount_dir[q]
    BY <1>3 DEF Alone
  <2>3. NothingLeftBehind'
    BY <1>1, <1>2, <1>5, <2>2 DEF NothingLeftBehind
  <2>4. QED
    BY <1>1, <1>2, <2>1, <2>3 DEF LeftInv
<1>9. ASSUME NEW q \in Processes PROVE OwnInv(q)'
  BY <1>1, <1>2, <1>5, <1>6 DEF OwnInv
<1>10. ASSUME NEW q \in Processes PROVE StageInv(q)'
  BY <1>1, <1>3 DEF StageInv, Alone
<1>11. QED
  BY <1>7, <1>8, <1>9, <1>10 DEF MountInv

\* A process that fails or is killed leaves its directory, and perhaps its mount.
LEMMA AbandonInv ==
  ASSUME MountInv, NEW p \in Processes, Gone(p), Abandon(p), UNCHANGED <<dirs, users>>,
         dead' \subseteq dead \cup (IF attached[p] THEN {mount_dir[p]} ELSE {}),
         disturbed' = [disturbed EXCEPT ![p] = FALSE]
  PROVE  MountInv'
<1>1. /\ TypeOK /\ LeftInv /\ NothingLeftBehind
      /\ \A q \in Processes : StageInv(q) /\ OwnInv(q)
  BY DEF MountInv
<1>2. /\ Alone(p) /\ StageInv(p)' /\ made'[p] = FALSE
  BY <1>1, GoneFacts
<1>3. abandoned' = IF made[p] THEN abandoned \cup {mount_dir[p]} ELSE abandoned
  BY DEF Abandon
<1>4. TypeOK'
  <2>1. mount_dir[p] \in Directories
    BY <1>1 DEF TypeOK
  <2>2. disturbed' \in [Processes -> BOOLEAN]
    BY <1>1 DEF TypeOK
  <2>3. dead' \subseteq Directories /\ abandoned' \subseteq Directories
    BY <1>1, <1>3, <2>1 DEF TypeOK
  <2>4. QED
    BY <1>1, <2>2, <2>3, GoneFacts DEF TypeOK
<1>5. LeftInv' /\ NothingLeftBehind'
  <2>1. attached[p] => made[p] \/ mount_dir[p] = Elsewhere
    BY <1>1 DEF StageInv, Mounting
  <2>2. LeftInv'
    BY <1>1, <1>3, <2>1 DEF LeftInv, OwnInv
  <2>3. \A q \in Processes : q # p /\ made[q] => made'[q] /\ mount_dir'[q] = mount_dir[q]
    BY <1>2 DEF Alone
  <2>4. QED
    BY <1>1, <1>3, <2>2, <2>3 DEF NothingLeftBehind
<1>6. ASSUME NEW q \in Processes PROVE OwnInv(q)'
  <2>1. \A r \in Processes : made'[r] => r # p /\ made[r] /\ mount_dir'[r] = mount_dir[r]
    BY <1>2 DEF Alone
  <2>2. made'[q] /\ made[p] => mount_dir[q] # mount_dir[p]
    BY <1>1, <2>1 DEF OwnInv
  <2>3. QED
    BY <1>1, <1>3, <2>1, <2>2 DEF OwnInv
<1>7. ASSUME NEW q \in Processes PROVE StageInv(q)'
  BY <1>1, <1>2 DEF StageInv, Alone
<1>8. QED
  BY <1>4, <1>5, <1>6, <1>7 DEF MountInv

LEMMA AutoUnmountInv ==
  ASSUME MountInv, NEW d \in dead, AutoUnmount(d)
  PROVE  MountInv'
<1> USE DEF AutoUnmount, processVars, choiceVars, mountVars
<1>1. TypeOK' /\ LeftInv' /\ NothingLeftBehind'
  BY DEF MountInv, TypeOK, LeftInv, NothingLeftBehind
<1>2. ASSUME NEW q \in Processes PROVE StageInv(q)' /\ OwnInv(q)'
  BY DEF MountInv, StageInv, OwnInv
<1>3. QED
  BY <1>1, <1>2 DEF MountInv

LEMMA UserMakesInv ==
  ASSUME MountInv, NEW d \in Directories, UserMakes(d)
  PROVE  MountInv'
<1> USE DEF UserMakes, processVars, choiceVars, mountVars
<1>1. /\ TypeOK /\ LeftInv /\ NothingLeftBehind
      /\ \A q \in Processes : StageInv(q) /\ OwnInv(q)
  BY DEF MountInv
<1>2. TypeOK'
  <2>1. disturbed' \in [Processes -> BOOLEAN]
    BY <1>1 DEF TypeOK, DisturbedByUser, Choosing
  <2>2. QED
    BY <1>1, <2>1 DEF TypeOK
<1>3. LeftInv' /\ NothingLeftBehind'
  BY <1>1 DEF LeftInv, NothingLeftBehind
<1>4. ASSUME NEW q \in Processes PROVE StageInv(q)' /\ OwnInv(q)'
  BY <1>1 DEF StageInv, OwnInv
<1>5. QED
  BY <1>2, <1>3, <1>4 DEF MountInv

LEMMA UserRemovesInv ==
  ASSUME MountInv, NEW d \in abandoned, UserRemoves(d)
  PROVE  MountInv'
<1> USE DEF UserRemoves, processVars, choiceVars, mountVars
<1>1. /\ TypeOK /\ LeftInv /\ NothingLeftBehind
      /\ \A q \in Processes : StageInv(q) /\ OwnInv(q)
  BY DEF MountInv
<1>2. d \notin users /\ d \notin dead
  BY <1>1 DEF LeftInv, Busy
<1>3. TypeOK'
  <2>1. disturbed' \in [Processes -> BOOLEAN]
    BY <1>1 DEF TypeOK, DisturbedByUser, Choosing
  <2>2. QED
    BY <1>1, <1>2, <2>1 DEF TypeOK
<1>4. LeftInv' /\ NothingLeftBehind'
  BY <1>1, <1>2 DEF LeftInv, NothingLeftBehind
<1>5. ASSUME NEW q \in Processes PROVE StageInv(q)' /\ OwnInv(q)'
  BY <1>1 DEF StageInv, OwnInv
<1>6. QED
  BY <1>3, <1>4, <1>5 DEF MountInv

-----------------------------------------------------------------------------
(* The invariant *)

LEMMA StepInv == MountInv /\ [Next]_vars => MountInv'
<1> SUFFICES ASSUME MountInv, [Next]_vars PROVE MountInv'
  OBVIOUS
<1>1. ASSUME NEW p \in Processes, Fail(p) PROVE MountInv'
  BY <1>1, AbandonInv DEF Fail
<1>2. ASSUME NEW p \in Processes, Kill(p) \/ ForkFails(p) PROVE MountInv'
  <2>1. Dies(p)
    BY <1>2 DEF Kill, ForkFails
  <2>2. dead' \subseteq dead \cup (IF attached[p] THEN {mount_dir[p]} ELSE {})
    BY <2>1 DEF Dies
  <2>3. QED
    BY <2>1, <2>2, AbandonInv DEF Dies
<1>3. ASSUME NEW p \in Processes, Work(p) \/ Unmount(p) PROVE MountInv'
  BY <1>1, <1>2, <1>3, StatInv, RetryInv, MkdirInv, EndInv, MovesOnInv DEF Work, MovesOn
<1>4. CASE UNCHANGED vars
  <2> USE <1>4 DEF vars, processVars, choiceVars, mountVars, dirVars
  <2>1. TypeOK' /\ LeftInv' /\ NothingLeftBehind'
    BY DEF MountInv, TypeOK, LeftInv, NothingLeftBehind
  <2>2. ASSUME NEW q \in Processes PROVE StageInv(q)' /\ OwnInv(q)'
    BY DEF MountInv, StageInv, OwnInv
  <2>3. QED
    BY <2>1, <2>2 DEF MountInv
<1>5. QED
  BY <1>2, <1>3, <1>4, StartInv, AutoUnmountInv, UserMakesInv, UserRemovesInv DEF Next

LEMMA Invariant == Spec => []MountInv
BY InitInv, StepInv, PTL DEF Spec

-----------------------------------------------------------------------------
(* The search for a name *)

\* The volume's name and all suffixes are taken.
Full(p) == \A s \in Suffixes : Named(mount_dir[p].volume, s) \in dirs

\* How far a search has come, and what a search that no one disturbs has found.
SearchInv(p) ==
  /\ pc[p] = "stat" => mount_dir[p].suffix = 0 /\ i[p] = 1 /\ errno[p] # "ENOENT"
  /\ pc[p] = "retry" => mount_dir[p].suffix = i[p] - 1
  /\ pc[p] = "retry" /\ ~disturbed[p] =>
       /\ errno[p] = "ENOENT" <=> mount_dir[p] \notin dirs
       /\ \A s \in 0 .. i[p] - 2 : Named(mount_dir[p].volume, s) \in dirs
  /\ pc[p] = "mkdir" /\ ~disturbed[p] => mount_dir[p] \notin dirs \/ Full(p)
  /\ pc[p] = "failed" /\ mount_dir[p] # Elsewhere /\ ~made[p] /\ errno[p] # "EACCES"
       /\ ~disturbed[p] => Full(p)

SearchesInv == \A p \in Processes : SearchInv(p)

\* realpath leaves EINVAL, not ENOENT, in errno.
NoEntryIsNotLeft == "ENOENT" \notin LeftErrnos

\* What others do is a disturbance, or makes and removes no directory.
LEMMA OthersSearch ==
  ASSUME MountInv, NEW p \in Processes, NEW q \in Processes, q # p, SearchInv(q),
         \/ \E v \in Volumes, o \in Options, e \in LeftErrnos : Start(p, v, o, e)
         \/ Work(p) \/ Unmount(p) \/ Kill(p)
  PROVE  SearchInv(q)'
<1> USE DEF Gone, Goto, choiceVars, mountVars, dirVars
<1>1. TypeOK
  BY DEF MountInv
<1>2. CASE \E v \in Volumes, o \in Options, e \in LeftErrnos : Start(p, v, o, e)
  BY <1>1, <1>2 DEF Start, SearchInv, TypeOK, Full
<1>3. CASE Stat(p) \/ Retry(p)
  BY <1>1, <1>3 DEF Stat, Retry, SearchInv, TypeOK, Full
<1>4. CASE MovesOn(p)
  BY <1>1, <1>4 DEF MovesOn, RetryEnds, MkdirFails, OpenLog, MainFails, FuseMount,
                    InitCallback, Unmount, SearchInv, TypeOK, Full
<1>5. CASE Fail(p) \/ Kill(p) \/ ForkFails(p)
  BY <1>1, <1>5 DEF Fail, Kill, ForkFails, Dies, SearchInv, TypeOK, Full
<1>6. CASE Mkdir(p) \/ End(p)
  <2>1. pc'[q] = pc[q] /\ mount_dir'[q] = mount_dir[q] /\ errno'[q] = errno[q] /\ i'[q] = i[q]
    BY <1>1, <1>6 DEF Mkdir, End, TypeOK
  <2>2. Choosing(q) => disturbed'[q]
    <3>1. disturbed' = [r \in Processes |-> disturbed[r] \/ (Choosing(r) /\ r # p)]
      BY <1>6 DEF Mkdir, End, DisturbedBy
    <3>2. disturbed'[q] = (disturbed[q] \/ (Choosing(q) /\ q # p))
      BY <3>1, Zenon
    <3>3. QED
      BY <3>2
  <2>3. QED
    BY <2>1, <2>2 DEF SearchInv, Choosing
<1>7. QED
  BY <1>2, <1>3, <1>4, <1>5, <1>6 DEF Work, MovesOn

LEMMA OwnSearch ==
  ASSUME NoEntryIsNotLeft, MountInv, NEW p \in Processes, SearchInv(p),
         \/ \E v \in Volumes, o \in Options, e \in LeftErrnos : Start(p, v, o, e)
         \/ Work(p) \/ Unmount(p) \/ Kill(p)
  PROVE  SearchInv(p)'
<1> USE DEF Goto, choiceVars, mountVars, dirVars
<1>1. TypeOK /\ StageInv(p)
  BY DEF MountInv
<1>2. CASE \E v \in Volumes, o \in Options, e \in LeftErrnos : Start(p, v, o, e)
  BY <1>1, <1>2 DEF Start, SearchInv, StageInv, TypeOK, NoEntryIsNotLeft, Named
<1>3. CASE Stat(p)
  <2>1. CASE mount_dir[p] \in dirs
    <3>1. pc'[p] = "retry" /\ errno'[p] # "ENOENT" /\ i'[p] = 1 /\ mount_dir'[p].suffix = 0
      BY <1>1, <1>3, <2>1 DEF Stat, SearchInv, AfterStat, TypeOK
    <3>2. dirs' = dirs /\ mount_dir' = mount_dir
      BY <1>3 DEF Stat
    <3>3. QED
      BY <2>1, <3>1, <3>2 DEF SearchInv
  <2>2. CASE mount_dir[p] \notin dirs
    BY <1>1, <1>3, <2>2 DEF Stat, SearchInv, TypeOK
  <2>3. QED
    BY <2>1, <2>2
<1>4. CASE Retry(p)
  <2> DEFINE v == mount_dir[p].volume
             d == [mount_dir[p] EXCEPT !.suffix = i[p]]
  <2>1. pc[p] = "retry" /\ pc' = pc /\ dirs' = dirs /\ disturbed' = disturbed
    BY <1>4 DEF Retry
  <2>2. mount_dir'[p] = d /\ i'[p] = i[p] + 1 /\ errno'[p] = AfterStat(d, "0")
    BY <1>1, <1>4 DEF Retry, TypeOK
  <2>3. mount_dir[p] \in Directories /\ mount_dir[p] # Elsewhere
    BY <1>1, <2>1 DEF TypeOK, StageInv, Searching
  <2>4. i[p] \in Suffixes /\ i[p] \in Nat \ {0} /\ errno[p] # "ENOENT"
    BY <1>1, <1>4, MountAssumption DEF TypeOK, Retry, TryAgain, Suffixes, MountAssumption
  <2>5. d = Named(v, i[p])
    BY <2>3, <2>4, DirectoryFacts
  <2>6. mount_dir[p] = Named(v, i[p] - 1)
    <3>1. mount_dir[p].suffix = i[p] - 1
      BY <2>1 DEF SearchInv
    <3>2. mount_dir[p] = Named(v, mount_dir[p].suffix)
      BY <2>3 DEF Directories, Named
    <3>3. QED
      BY <3>1, <3>2
  <2>7. d.volume = v /\ d.suffix = i[p]
    BY <2>5 DEF Named
  <2>8. errno'[p] = "ENOENT" <=> d \notin dirs
    BY <2>2 DEF AfterStat
  <2>9. ASSUME ~disturbed[p], NEW s \in 0 .. i[p] - 1 PROVE Named(v, s) \in dirs
    <3>1. s = i[p] - 1 \/ s \in 0 .. i[p] - 2
      BY <2>4
    <3>2. QED
      BY <2>1, <2>4, <2>6, <2>9, <3>1 DEF SearchInv
  <2>10. i'[p] - 1 = i[p] /\ i'[p] - 2 = i[p] - 1
    BY <2>2, <2>4
  <2>11. QED
    BY <2>1, <2>2, <2>7, <2>8, <2>9, <2>10 DEF SearchInv
<1>5. CASE RetryEnds(p)
  <2>1. /\ pc[p] = "retry" /\ pc'[p] = IF errno[p] = "0" THEN "failed" ELSE "mkdir"
        /\ UNCHANGED <<mount_dir, errno, i, dirs, made, disturbed>>
    BY <1>1, <1>5 DEF RetryEnds, TypeOK
  <2>2. errno[p] # "ENOENT" => i[p] = MaxSuffix + 1
    BY <1>1, <1>5, MountAssumption DEF RetryEnds, TryAgain, TypeOK, MountAssumption
  <2>3. ASSUME ~disturbed[p], errno[p] # "ENOENT" PROVE Full(p)
    <3>1. mount_dir[p] = Named(mount_dir[p].volume, MaxSuffix)
      <4>1. mount_dir[p] \in Directories /\ mount_dir[p] # Elsewhere
        BY <1>1, <2>1 DEF TypeOK, StageInv, Searching
      <4>2. mount_dir[p].suffix = MaxSuffix
        BY <2>1, <2>2, <2>3, MountAssumption DEF SearchInv, MountAssumption
      <4>3. QED
        BY <4>1, <4>2 DEF Directories, Named
    <3>2. ASSUME NEW s \in Suffixes PROVE s = MaxSuffix \/ s \in 0 .. i[p] - 2
      BY <2>2, <2>3, MountAssumption DEF Suffixes, MountAssumption
    <3>3. QED
      BY <2>1, <2>3, <3>1, <3>2 DEF SearchInv, Full
  <2>4. ~disturbed[p] /\ errno[p] = "ENOENT" => mount_dir[p] \notin dirs
    BY <2>1 DEF SearchInv
  <2>5. Full(p)' <=> Full(p)
    BY <2>1 DEF Full
  <2>6. QED
    BY <2>1, <2>3, <2>4, <2>5 DEF SearchInv
<1>6. CASE MkdirFails(p)
  <2>1. pc[p] = "mkdir" /\ pc'[p] = "failed" /\ UNCHANGED <<mount_dir, dirs, disturbed>>
    BY <1>1, <1>6 DEF MkdirFails, TypeOK
  <2>2. errno'[p] = "EACCES" \/ mount_dir[p] \in dirs
    BY <1>1, <1>6 DEF MkdirFails, MkdirSucceeds, TypeOK
  <2>3. QED
    BY <2>1, <2>2 DEF SearchInv, Full
<1>7. CASE MainFails(p)
  <2>1. pc[p] \in Mounting /\ pc'[p] = "failed" /\ UNCHANGED <<mount_dir, made>>
    BY <1>1, <1>7 DEF MainFails, TypeOK, Mounting
  <2>2. QED
    BY <1>1, <2>1 DEF StageInv, SearchInv
<1>8. CASE Mkdir(p) \/ OpenLog(p) \/ FuseMount(p) \/ InitCallback(p) \/ Unmount(p)
           \/ End(p) \/ Fail(p) \/ Kill(p) \/ ForkFails(p)
  <2>1. pc'[p] \in {"idle", "log", "fuse", "init", "serving", "ending"}
    BY <1>1, <1>8 DEF Mkdir, OpenLog, FuseMount, InitCallback, Unmount, End, Fail, Kill,
                      ForkFails, Dies, Gone, TypeOK
  <2>2. QED
    BY <2>1 DEF SearchInv
<1>9. QED
  BY <1>2, <1>3, <1>4, <1>5, <1>6, <1>7, <1>8 DEF Work

LEMMA SearchStep ==
  ASSUME NoEntryIsNotLeft, MountInv, SearchesInv, [Next]_vars
  PROVE  SearchesInv'
<1> SUFFICES ASSUME NEW q \in Processes PROVE SearchInv(q)'
  BY DEF SearchesInv
<1>1. SearchInv(q)
  BY DEF SearchesInv
<1>2. ASSUME NEW p \in Processes,
             \/ \E v \in Volumes, o \in Options, e \in LeftErrnos : Start(p, v, o, e)
             \/ Work(p) \/ Unmount(p) \/ Kill(p)
      PROVE SearchInv(q)'
  BY <1>1, <1>2, OthersSearch, OwnSearch
<1>3. ASSUME NEW d \in dead, AutoUnmount(d) PROVE SearchInv(q)'
  BY <1>1, <1>3 DEF AutoUnmount, processVars, choiceVars, mountVars, SearchInv, Full
<1>4. ASSUME NEW d \in abandoned, UserRemoves(d) PROVE SearchInv(q)'
  <2>1. UNCHANGED processVars /\ (Choosing(q) => disturbed'[q])
    BY <1>4 DEF UserRemoves, DisturbedByUser, MountInv, TypeOK
  <2>2. QED
    BY <1>1, <2>1 DEF processVars, choiceVars, mountVars, SearchInv, Choosing
<1>5. ASSUME NEW d \in Directories, UserMakes(d) PROVE SearchInv(q)'
  <2>1. UNCHANGED processVars /\ (Choosing(q) => disturbed'[q])
    BY <1>5 DEF UserMakes, DisturbedByUser, MountInv, TypeOK
  <2>2. QED
    BY <1>1, <2>1 DEF processVars, choiceVars, mountVars, SearchInv, Choosing
<1>6. CASE UNCHANGED vars
  BY <1>1, <1>6 DEF vars, processVars, choiceVars, mountVars, dirVars, SearchInv, Full
<1>7. QED
  BY <1>2, <1>3, <1>4, <1>5, <1>6 DEF Next

-----------------------------------------------------------------------------
(* Theorems *)

\* Every variable of the processes and directories keeps its type.
THEOREM TypeCorrect == Spec => []TypeOK
BY Invariant, PTL DEF MountInv

\* No two processes with option -n serve in one directory: only the process whose mkdir
\* succeeded goes on to mount there (main, S_UpdateMountDirectory).
THEOREM MountsSeparate == Spec => []SeparateMounts
<1>1. ASSUME MountInv PROVE SeparateMounts
  <2>1. SUFFICES ASSUME NEW p \in Processes, NEW q \in Processes, p # q, attached[p], attached[q],
                        options[p].use_name, options[q].use_name
                 PROVE  mount_dir[p] # mount_dir[q]
    BY DEF SeparateMounts
  <2>2. StageInv(p) /\ StageInv(q) /\ OwnInv(p)
    BY <1>1 DEF MountInv
  <2>3. made[p] /\ made[q]
    BY <2>1, <2>2 DEF StageInv, Mounting
  <2>4. QED
    BY <2>1, <2>2, <2>3 DEF OwnInv
<1>2. QED
  BY Invariant, <1>1, PTL

\* No process removes a directory that it has not made, whatever the user makes while
\* it looks for a name (S_Cleanup, mkdir).
THEOREM UsersDirectoriesStay == Spec => []UsersDirectoriesKept
<1>1. MountInv => UsersDirectoriesKept
  BY DEF MountInv, TypeOK, UsersDirectoriesKept
<1>2. QED
  BY Invariant, <1>1, PTL

\* A process that is unmounted removes the directory that it has made, which by then is
\* no mount point (S_Cleanup, prodosfs_mount).
THEOREM UnmountedLeaveNothing == Spec => []NothingLeftBehind
BY Invariant, PTL DEF MountInv

\* Unless errno happens to be ENOENT when it begins, a search that no one disturbs fails
\* only when the volume's name and all suffixes are taken (S_UpdateMountDirectory).
THEOREM SearchIsExhaustive ==
  ASSUME NoEntryIsNotLeft
  PROVE  Spec => []GivesUpWhenFull
<1>1. Init => SearchesInv
  BY DEF Init, SearchesInv, SearchInv
<1>2. MountInv /\ SearchesInv /\ [Next]_vars => SearchesInv'
  BY SearchStep
<1>3. SearchesInv => GivesUpWhenFull
  BY DEF SearchesInv, SearchInv, GivesUpWhenFull, Full
<1>4. QED
  BY Invariant, <1>1, <1>2, <1>3, PTL DEF Spec
=============================================================================
