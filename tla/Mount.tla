--------------------------------- MODULE Mount ---------------------------------
(***************************************************************************)
(* The life of a prodosfs process (main.cxx): the options, the choice of a *)
(* mount directory, mkdir, the log file, fuse_main with the init and       *)
(* destroy callbacks, and the exit handler.  Several processes may mount   *)
(* under one directory; fail at any system call, or be killed at any step. *)
(*                                                                         *)
(* With option -n the mount directory is <mount dir>/<volume name>, or     *)
(* with a suffix -1 .. -9 when that exists.  Without it, it is Elsewhere,  *)
(* a directory of the user's.                                              *)
(***************************************************************************)
EXTENDS Integers

CONSTANTS
  Processes,
  Volumes,       \* names of the volumes in the images
  ValidNames,    \* those that IsValidName accepts
  MaxSuffix,     \* 9
  Existing,      \* what the user may have made: sets of names that exist
  LeftErrnos,    \* what errno may hold when S_UpdateMountDirectory is called
  NULL

Suffixes == 0 .. MaxSuffix

\* Suffix 0 stands for none.
Named(v, s) == [volume |-> v, suffix |-> s]
Elsewhere == Named(NULL, 0)
Directories == [volume: ValidNames, suffix: Suffixes] \cup {Elsewhere}

\* The errors of stat, 0 among them, that are told apart, and EINVAL, which realpath
\* leaves in errno when it asks what is no symbolic link where it leads.
\* mkdir's are EEXIST and, for all others, EACCES.
Errnos == {"0", "ENOENT", "ENOTCONN", "EINVAL", "EEXIST", "EACCES"}

\* use_name, and foreground == false && debug == false.
Options == [use_name: BOOLEAN, background: BOOLEAN]

ASSUME MountAssumption ==
  /\ MaxSuffix \in Nat \ {0}
  /\ ValidNames \subseteq Volumes
  /\ Existing \subseteq SUBSET (Directories \ {Elsewhere})
  /\ LeftErrnos \subseteq Errnos
  /\ NULL \notin Volumes

VARIABLES
  dirs,         \* the directories that exist
  dead,         \* those with the mount of a killed process, not yet unmounted
  pc,           \* where each process is
  options,      \* what S_HandleOptions has found
  mount_dir,
  errno,
  i,            \* S_UpdateMountDirectory's i
  attached,     \* is the process's file system mounted?
  atexit,       \* is S_Cleanup an exit handler of the process?
  made,         \* history: has the process's mkdir succeeded?
  users,        \* the directories that the user has made
  abandoned,    \* history: those that a process left when it failed or was killed
  disturbed     \* history: have others made or removed directories meanwhile?

choiceVars == <<options, mount_dir, errno, i>>
mountVars == <<attached, atexit, made>>
processVars == <<pc, choiceVars, mountVars>>
dirVars == <<dirs, dead, users, abandoned, disturbed>>
vars == <<processVars, dirVars>>

TypeOK ==
  /\ dirs \subseteq Directories
  /\ dead \subseteq Directories
  /\ pc \in [Processes -> {"idle", "stat", "retry", "mkdir", "log", "fuse", "init",
                           "serving", "ending", "failed"}]
  /\ options \in [Processes -> Options \cup {NULL}]
  /\ mount_dir \in [Processes -> Directories]
  /\ errno \in [Processes -> Errnos]
  /\ i \in [Processes -> 1 .. MaxSuffix + 1]
  /\ {attached, atexit, made, disturbed} \subseteq [Processes -> BOOLEAN]
  /\ users \subseteq dirs
  /\ abandoned \subseteq Directories

\* The user has made Elsewhere, and perhaps other directories.
Init ==
  /\ \E e \in Existing : dirs = e \cup {Elsewhere}
  /\ users = dirs
  /\ dead = {}
  /\ abandoned = {}
  /\ pc = [p \in Processes |-> "idle"]
  /\ options = [p \in Processes |-> NULL]
  /\ mount_dir = [p \in Processes |-> Elsewhere]
  /\ errno = [p \in Processes |-> "0"]
  /\ i = [p \in Processes |-> 1]
  /\ attached = [p \in Processes |-> FALSE]
  /\ atexit = [p \in Processes |-> FALSE]
  /\ made = [p \in Processes |-> FALSE]
  /\ disturbed = [p \in Processes |-> FALSE]

Goto(p, label) == pc' = [pc EXCEPT ![p] = label]

\* The directory is a mount point, of a process that lives or of one that is dead.
Busy(d) == d \in dead \/ \E q \in Processes : attached[q] /\ mount_dir[q] = d

\* The process has a name to choose, or has failed to.
Choosing(p) == pc[p] \in {"stat", "retry", "mkdir", "failed"}

\* A directory has come or gone, and not by process p.
DisturbedBy(p) == disturbed' = [q \in Processes |-> disturbed[q] \/ (Choosing(q) /\ q # p)]
DisturbedByUser == disturbed' = [q \in Processes |-> disturbed[q] \/ Choosing(q)]

-----------------------------------------------------------------------------
(* main, as far as the volume is opened *)

\* VolumeOpen is about the constructor of volume_t.
Start(p, v, o, e) ==
  /\ pc[p] = "idle"
  /\ options' = [options EXCEPT ![p] = o]
  /\ IF ~o.use_name
     THEN Goto(p, IF o.background THEN "log" ELSE "fuse") /\ UNCHANGED <<mount_dir, errno>>
     ELSE IF v \in ValidNames
     THEN /\ Goto(p, "stat")
          /\ mount_dir' = [mount_dir EXCEPT ![p] = Named(v, 0)]
          /\ errno' = [errno EXCEPT ![p] = e]
     ELSE Goto(p, "failed") /\ UNCHANGED <<mount_dir, errno>>
  /\ UNCHANGED <<i, mountVars, dirVars>>

-----------------------------------------------------------------------------
(* S_UpdateMountDirectory and mkdir *)

\* What stat makes of errno when it was e before.
AfterStat(d, e) ==
  IF d \notin dirs THEN "ENOENT" ELSE IF d \in dead THEN "ENOTCONN" ELSE e

\* stat(mount_dir, &st) == 0 || errno != ENOENT
Stat(p) ==
  LET d == mount_dir[p] IN
  /\ pc[p] = "stat"
  /\ errno' = [errno EXCEPT ![p] = AfterStat(d, @)]
  /\ Goto(p, IF d \in dirs THEN "retry" ELSE "mkdir")
  /\ UNCHANGED <<options, mount_dir, i, mountVars, dirVars>>

\* Mutants: the last suffix is not tried; one more is.
TryAgainEarly(p) == i[p] < MaxSuffix /\ errno[p] # "ENOENT"
TryAgainLate(p) == i[p] <= MaxSuffix + 1 /\ errno[p] # "ENOENT"

TryAgain(p) == i[p] <= MaxSuffix /\ errno[p] # "ENOENT"

Retry(p) ==
  LET d == [mount_dir[p] EXCEPT !.suffix = i[p]] IN
  /\ pc[p] = "retry"
  /\ TryAgain(p)
  /\ mount_dir' = [mount_dir EXCEPT ![p] = d]
  /\ errno' = [errno EXCEPT ![p] = AfterStat(d, "0")]
  /\ i' = [i EXCEPT ![p] = @ + 1]
  /\ UNCHANGED <<pc, options, mountVars, dirVars>>

RetryEnds(p) ==
  /\ pc[p] = "retry"
  /\ ~TryAgain(p)
  /\ Goto(p, IF errno[p] = "0" THEN "failed" ELSE "mkdir")
  /\ UNCHANGED <<choiceVars, mountVars, dirVars>>

\* Mutant: a directory that exists will do.
MkdirSucceedsAnyway(p) == TRUE

\* mkdir does not take a name that exists.
MkdirSucceeds(p) == mount_dir[p] \notin dirs

\* errno and i are not read any more, and are reset here.
Mkdir(p) ==
  /\ pc[p] = "mkdir"
  /\ MkdirSucceeds(p)
  /\ dirs' = dirs \cup {mount_dir[p]}
  /\ made' = [made EXCEPT ![p] = TRUE]
  /\ DisturbedBy(p)
  /\ errno' = [errno EXCEPT ![p] = "0"]
  /\ i' = [i EXCEPT ![p] = 1]
  /\ Goto(p, IF options[p].background THEN "log" ELSE "fuse")
  /\ UNCHANGED <<options, mount_dir, attached, atexit, dead, users, abandoned>>

MkdirFails(p) ==
  /\ pc[p] = "mkdir"
  /\ errno' = [errno EXCEPT ![p] = IF MkdirSucceeds(p) THEN "EACCES" ELSE "EEXIST"]
  /\ Goto(p, "failed")
  /\ UNCHANGED <<options, mount_dir, i, mountVars, dirVars>>

-----------------------------------------------------------------------------
(* S_RedirectToLogfile, fuse_main and the callbacks init and destroy *)

OpenLog(p) ==
  /\ pc[p] = "log"
  /\ Goto(p, "fuse")
  /\ UNCHANGED <<choiceVars, mountVars, dirVars>>

\* A step of main fails, and main returns; no exit handler is there yet.
MainFails(p) ==
  /\ pc[p] \in {"log", "fuse"}
  /\ Goto(p, "failed")
  /\ UNCHANGED <<choiceVars, mountVars, dirVars>>

\* fuse_main mounts, and a worker thread calls init.
FuseMount(p) ==
  /\ pc[p] = "fuse"
  /\ mount_dir[p] \in dirs
  /\ attached' = [attached EXCEPT ![p] = TRUE]
  /\ Goto(p, "init")
  /\ UNCHANGED <<choiceVars, atexit, made, dirVars>>

\* Mutants: the handler is not left to option -n, or is left to the thread that runs
\* main, which a fork leaves behind.
RegistersAlways(o) == TRUE
RegistersInForeground(o) == o.use_name /\ ~o.background

Registers(o) == o.use_name

\* prodosfs_mount.  In the background it forks: the parent exits without an exit
\* handler, and the child, the process p from now on, is this one thread.
InitCallback(p) ==
  /\ pc[p] = "init"
  /\ atexit' = [atexit EXCEPT ![p] = Registers(options[p])]
  /\ Goto(p, "serving")
  /\ UNCHANGED <<choiceVars, attached, made, dirVars>>

\* The user unmounts, or a signal ends the loop of a process in the foreground.
Unmount(p) ==
  /\ pc[p] = "serving"
  /\ attached' = [attached EXCEPT ![p] = FALSE]
  /\ Goto(p, "ending")
  /\ UNCHANGED <<choiceVars, atexit, made, dirVars>>

-----------------------------------------------------------------------------
(* The end of a process *)

Gone(p) ==
  /\ Goto(p, "idle")
  /\ options' = [options EXCEPT ![p] = NULL]
  /\ mount_dir' = [mount_dir EXCEPT ![p] = Elsewhere]
  /\ errno' = [errno EXCEPT ![p] = "0"]
  /\ i' = [i EXCEPT ![p] = 1]
  /\ attached' = [attached EXCEPT ![p] = FALSE]
  /\ atexit' = [atexit EXCEPT ![p] = FALSE]
  /\ made' = [made EXCEPT ![p] = FALSE]

\* rmdir leaves a mount point alone.
Removed(d) == IF Busy(d) THEN dirs ELSE dirs \ {d}

\* destroy, main's return and S_Cleanup.
End(p) ==
  /\ pc[p] = "ending"
  /\ dirs' = IF atexit[p] THEN Removed(mount_dir[p]) ELSE dirs
  /\ DisturbedBy(p)
  /\ Gone(p)
  /\ UNCHANGED <<dead, users, abandoned>>

Abandon(p) == abandoned' = IF made[p] THEN abandoned \cup {mount_dir[p]} ELSE abandoned

Fail(p) ==
  /\ pc[p] = "failed"
  /\ Abandon(p)
  /\ Gone(p)
  /\ disturbed' = [disturbed EXCEPT ![p] = FALSE]
  /\ UNCHANGED <<dirs, dead, users>>

\* The process ends at once, and its mount stays until it is unmounted from outside.
Dies(p) ==
  /\ dead' = IF attached[p] THEN dead \cup {mount_dir[p]} ELSE dead
  /\ Abandon(p)
  /\ Gone(p)
  /\ disturbed' = [disturbed EXCEPT ![p] = FALSE]
  /\ UNCHANGED <<dirs, users>>

\* SIGKILL.
Kill(p) == pc[p] \notin {"idle", "failed"} /\ Dies(p)

\* fork fails, and prodosfs_mount calls exit in the midst of the init callback.
ForkFails(p) == pc[p] = "init" /\ options[p].background /\ Dies(p)

\* The helper of option auto_unmount, or the user, unmounts what is dead.
AutoUnmount(d) ==
  /\ dead' = dead \ {d}
  /\ UNCHANGED <<processVars, dirs, users, abandoned, disturbed>>

-----------------------------------------------------------------------------
\* The user makes a directory, of a name that a process may be about to take.
UserMakes(d) ==
  /\ d \notin dirs
  /\ dirs' = dirs \cup {d}
  /\ users' = users \cup {d}
  /\ DisturbedByUser
  /\ UNCHANGED <<processVars, dead, abandoned>>

\* The user tidies up what processes have left.
UserRemoves(d) ==
  /\ d \in abandoned
  /\ ~Busy(d)
  /\ dirs' = dirs \ {d}
  /\ abandoned' = abandoned \ {d}
  /\ DisturbedByUser
  /\ UNCHANGED <<processVars, dead, users>>

-----------------------------------------------------------------------------
Work(p) ==
  \/ Stat(p)
  \/ Retry(p)
  \/ RetryEnds(p)
  \/ Mkdir(p)
  \/ MkdirFails(p)
  \/ OpenLog(p)
  \/ MainFails(p)
  \/ FuseMount(p)
  \/ InitCallback(p)
  \/ ForkFails(p)
  \/ End(p)
  \/ Fail(p)

Next ==
  \/ \E p \in Processes :
       \/ \E v \in Volumes, o \in Options, e \in LeftErrnos : Start(p, v, o, e)
       \/ Work(p)
       \/ Unmount(p)
       \/ Kill(p)
  \/ \E d \in dead : AutoUnmount(d)
  \/ \E d \in Directories : UserMakes(d)
  \/ \E d \in abandoned : UserRemoves(d)

Spec == Init /\ [][Next]_vars

-----------------------------------------------------------------------------
(* Properties *)

\* No two processes that were given -n serve their volumes in one directory, although
\* each looks for a free name some time before it makes the directory (mkdir, main).
SeparateMounts ==
  \A p, q \in Processes :
    p # q /\ attached[p] /\ attached[q] /\ options[p].use_name /\ options[q].use_name
      => mount_dir[p] # mount_dir[q]

\* prodosfs never removes a directory that the user has made, whatever processes come
\* and go: not the one it was told to mount in, and none that has the volume's name
\* (S_Cleanup, mkdir).
UsersDirectoriesKept == users \subseteq dirs

\* A process that ends because it was unmounted takes its directory with it; what stays
\* behind was left by one that failed or was killed (S_Cleanup, prodosfs_mount).
NothingLeftBehind ==
  dirs \subseteq users \cup abandoned \cup {mount_dir[p] : p \in {q \in Processes : made[q]}}

\* As long as no one else makes or removes directories, a process gives up the search
\* for a name, or chooses one that mkdir finds taken, only when the volume's name and all
\* suffixes are taken (S_UpdateMountDirectory).
GivesUpWhenFull ==
  \A p \in Processes :
    pc[p] = "failed" /\ mount_dir[p] # Elsewhere /\ ~made[p]
      /\ errno[p] # "EACCES" /\ ~disturbed[p]
      => \A s \in Suffixes : Named(mount_dir[p].volume, s) \in dirs
=============================================================================
