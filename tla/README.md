# prodosfs in TLA+

prodosfs mounts disk images of the Apple II's ProDOS operating system as a
read-only FUSE file system; `diskutil` lists, normalizes and renames images.
These modules model the parts of both that keep state, the configurations check
them with TLC on small disks, and the `*Proofs` modules prove the central
properties with TLAPS for disks of any size.

Paths below are relative to the repository's root (`main.cxx`,
`source/file.cxx`, ...).

## 1. The system

| Component | State | Operations | Module |
| --- | --- | --- | --- |
| File handle, `source/file.cxx`, `include/prodos/block.hxx` | `_entry`, `_position`, `_master`, `_index`, `_data`, shared by all reads of the open file | `Open`, `Close`, `Seek`, `Read`, as `prodosfs_open/read/close` call them | `FileHandle` |
| Directory handle, `source/directory.cxx` | block, slot and count of the cursor | `Open`, `NextEntry`, `_Next`, `Close`; `prodosfs_opendir/readdir/closedir` | `Directory`, `ReadDirectory` |
| Path lookup, `source/volume.cxx` | a cursor for the walk; the thread-local last error | `GetEntry`, `OpenFile`, `OpenDirectory`, `S_SplitPath`; `prodosfs_getattr/open/opendir/getxattr/listxattr` | `PathLookup` |
| Disk image and recognition, `source/disk.cxx`, `source/volume.cxx` | the image in memory, `_converted`, `_dirty`, `tmp_blk`; the header's name; the password file | constructors, `ReadBlock`, `WriteBlock`, `Convert`, `S_Deobfuscate`, `_GetVolumeDirectoryBlock`, `Rename` | `VolumeOpen` |
| diskutil and saving, `util/diskutil.cxx`, `source/disk.cxx` | the image file, `<image>.tmp`, the volume in memory, the files that are mapped | `rename`, `normalize`, `volume_t::Rename`, `disk_t::Save` | `Diskutil` |
| Volume statistics, `source/volume.cxx` | loop counters | `CountBlocksUsed`, `CountRootDirectoryBlocks` | `BlocksUsed` |
| `.CATALOG`, `main.cxx`, `source/volume.cxx` | a cursor, and a `std::string` for each open file | `volume_t::Catalog`; open, read, close | `CatalogFile` |
| Extended attributes, `main.cxx` | none | `getxattr`, `listxattr`, `S_GetAttributes` | `Attributes`; lookup and errors in `PathLookup` |
| Entries and timestamps, `source/entry.cxx`, `main.cxx` | none | names, storage types, dates, `S_ToUnixTime` | `Entry`, used by `Attributes` and `VolumeOpen` |
| File type table, `source/filetype.cxx` | `file_type_table` | `GetFileTypeInfo`, which may insert | `FileTypes`, used by `Attributes` |
| Mount life cycle, `main.cxx` | mount directory, `errno`, exit handler, the mount, the forked process | `main`, `S_HandleOptions`, `S_UpdateMountDirectory`, `S_RedirectToLogfile`, `prodosfs_mount/umount`, `S_Cleanup` | `Mount` |
| Utilities, `source/util.cxx` | none | `AppleWorksFileName`; the log | `Entry`; the log only as a step of `Mount` |
| `util/awp2txt`, `util/wpf2txt` | a script's variables | text conversion | not modelled |

How they interact:

- **Kernel and callbacks.** libfuse calls the callbacks from several worker
  threads. Nothing in the repository locks. libfuse locks an open *directory*
  while readdir runs; an open *file* is locked by nobody, and the kernel sends
  several reads of it at once when `FUSE_CAP_ASYNC_READ` is on, libfuse's
  default.
- **Shared objects.** One `file_handle_t` serves every read of an open file,
  one `directory_handle_t` every readdir of an open directory. Volume and disk
  are read-only once mounted.
- **The thread-local error.** `volume_t::Error()` returns what the last failing
  operation *of that thread* left, whichever callback that was. readdir takes
  `err_end_of_file` for success; every other callback reads it after a failure.
- **Exceptions.** Blocks off the disk, index entries out of range, unknown
  storage types and `std::string::copy` throw. No callback catches, so an
  exception ends the file system: `terminated` in the models.
- **Files.** The password file is read anew on each attempt to decipher a
  block. diskutil writes `<image>.tmp` and renames it over the image, which a
  running prodosfs may have mapped with `MAP_PRIVATE`: what is written to the
  file shows in every page that it has not modified.
- **Processes.** Several prodosfs may mount under one directory; what they share
  is the names in it. `stat` chooses a name, `mkdir` takes it. libfuse calls
  `prodosfs_mount` (init) from one of its threads, and in the background that
  thread forks: the child goes on with this thread alone and the exit handler
  that it installs, the parent exits.

What is hard about it: the interleaving of reads of one handle; the arithmetic
at the boundaries of blocks, index blocks and directories; errors that stay set
from one callback to the next; four guesses at an image's layout that each
change memory; names of directories that are free when they are looked up and
taken when they are made; `errno` read after a call that succeeded; system calls
that fail, and processes killed, while the only copy of a volume is replaced.
Every such place is a hazard in `PROJECT.json`, with its line and the properties
that watch it.

What makes each component correct:

- File handle: a reply holds the bytes of its own range, and nothing is copied
  from outside a block.
- Directory handle: each active entry once, in order, and none left out.
- Path lookup: what a pathname names is found, and an error means what it says,
  for the pathnames that the callbacks take apart rightly (section 3 says which).
- Recognition: what opens is the volume, every block in its place; a protected
  volume directory is in plain where the password is right, and in the bytes that
  are tested in any case.
- Saving: at every instant the image is an openable volume, and `true` means
  that the volume has been written.
- Statistics, `.CATALOG`: the right number, the whole text, no exception.
- Attributes: what a client is told to allocate is enough and is what it gets;
  a date in stat is the date that the catalogue shows, unless it is in summer; no
  lookup changes the table that the threads share.
- Mount: each process has a directory of its own, takes it away when it ends,
  never takes away one that it has not made, and gives up only when all names
  are taken.

## 2. Modules

Each definition is mapped to its lines in `PROJECT.json`. The names are the
source's where TLA+ allows. A definition under a comment `Mutant:` is used by
nothing; it is a plausible mistake in the definition below it, which the
properties tell apart from the code.

**FileHandle** models `prodosfs_open`, `prodosfs_read` and `prodosfs_close` over
`file_handle_t`. A read is cut where other threads can get between its accesses
to the handle: `seek` (the range test, `_position`), `index` (`_index`), `data`
(`_data`), `offset` (reading `_position`), `copy` (`memcpy` from `_data`),
`advance` (`Seek(_position + to_copy)`, again through `seek`, `index` and
`data`), `convert` (text mode) and `reply`. Each step touches at most one
mutable field of the handle, so all interleavings of the C++ accesses are
there. Pointers are block numbers, `NULL` is `nullptr`, and block 0 stands for
`sparse_block`. What an access that throws would return is `Thrown`, and
`Terminate` the end of the process. The compiler's freedom with data races
within one access (a torn 32-bit or pointer store) is left out: the platforms
that FUSE runs on do not have it.

**FileService** is what a read promises, without handles or blocks: a request
is asked, answered at one instant with `Answer`, and returned. `FileHandle`
implements it: `Service` maps the handle's `file` to the open files, a thread
from `seek` to `convert` to a pending request, and `reply`/`fail` to a served one.
What counts of a reply is what lies within the file (`Visible`): the kernel
knows the size from getattr and drops the rest, which `FileHandlePastEof` is
about.

**Directory** is a directory on disk and the cursor `directory_handle_t`: a
sequence of blocks of `ENTRIES_PER_BLOCK` slots, and a byte behind the last
slot that `_Next` visits too. **ReadDirectory** adds threads, the thread-local
error, callbacks of other kinds that leave any error in it (`OtherCallback`), a
filler that accepts or refuses, libfuse's lock, and handles that are read again
after the end. `given` and `lost` are history: what the filler took, and
whether it ever refused. `.` and `..` are left out.

**DirectoryService** is what listing a directory promises, without blocks,
slots, counts or error codes: an open handle has a set of entries *left*; a call
makes the first of them leave, given to the client or lost, and is answered
`"OK"` only when none is left. `ReadDirectory` implements it: `Left` is what
lies ahead of the cursor with the entry that the filler has not seen yet,
`PendingCall` a thread in `prodosfs_readdir`.

**PathLookup** is `GetEntry` with its callers, over the same `Directory`. A
pathname is a sequence of components; a component has a name and perhaps an
extension (the `:TXT` of option `-e`), and `Garbled` is a component that
`S_SplitPath` has cut wrongly. `ProdosFilename` erases as the code does, from the
last colon of the whole pathname on, so of `/D:TXT/G` it leaves `/D`; `NoName` is
the name of a component that is nothing but `:TXT`. `getxattr` and `opendir` pass
the pathname on as it is (`Filename`). `Fold` is `strcasecmp`. `Resolve`, what a
pathname names, is defined on the directories, without a walk, and lets every
component have an extension under `-e`, because a directory is found under one.
A pathname is `Whole` for a callback if an extension behind the last name is all that
is erased of it, and `Regular` if no extension is left over besides.

**VolumeOpen** is the construction of a `volume_t`. The unit of data is a
sector, half a block; a sector is the block and half it belongs to and its
`seal`, the set of the passwords that it is combined with. The cipher is an
exclusive or with the characters of the password, over and over, so combining
twice with one password undoes it (`Combined`). Which bytes are in plain is decided
byte by byte (`InPlain`): what one password has done to a byte is undone by another
that has the same character for it (`KeyChar`, which leaves out the last character
as the code does). The tests look at the bytes that the code looks at: 0, 1 and the
high bits of 4 in `IsVolumeDirectoryBlock`, and 4, 33, 35, 36, 41 and 42 in the
constructor (`FieldsInPlain`, `TotalInPlain`, `Accept`, `Refuse`), so a volume may open
with a password that is wrong elsewhere, and then under a name that nobody gave
it (`SpoiltName`). Uninitialised memory (`tmp_blk`) looks like a
volume directory or does not, by a nondeterministic choice (`Garbage`).
`Convert` uses the code's own `map2` on one track. `ChangePassword` edits,
adds or removes the password file at any step, and `changed` remembers it. Once
the volume is open, `Rename` writes `header`, the first byte and the name field
of the volume directory, 15 bytes whatever the name's length; what is behind the
name in memory is a nondeterministic choice (`RestOfName`). Characters are
glyphs with a case, as **Entry** has them.

**Diskutil** is the file system as a table from names to inodes and contents,
and processes that run `rename` or `normalize`. Every system call of `Save` is
a step that may fail; a write may be short; a process may be killed between any
two steps and another started. Recognition is one step here (`InMemory`), the
one that `VolumeOpen` takes apart. `mapped` is the inode that a diskutil or a
mounted prodosfs (`MountImage`, `UnmountImage`) has mapped; it keeps the inode
from being reused after its name is gone.

**BlocksUsed** is `CountBlocksUsed` byte by byte, with the bitmap given as the
set of free blocks, and `unsigned` arithmetic modulo `UINT`; and
`CountRootDirectoryBlocks` block by block, over a root directory given as the
sequence of its blocks.

**CatalogFile** is `.CATALOG`, from the walk of `volume_t::Catalog` over the
`Directory` (`Open`, `SkipInactive`, `AppendLine`, `AppendTotals`) to its
readers. A line of the text counts as one byte and is named by the place of its
entry. The size that getattr reports is `FILE_SIZE_MAX`, so a reader may start
anywhere below it and reads until a reply is empty.

**Entry** says what the fields of an entry mean: names and their lengths, the
case of AppleWorks names, dates taken apart and what `mktime` makes of them.
**FileTypes** is the set of keys of `file_type_table`, transcribed from its
initializer. **Attributes** is a client that asks `getxattr` and `listxattr` with
size 0 how much it needs and then with a buffer; `listxattr` writes one name
after another, in any order, since the map is unordered (`ListName`,
`ListOutOfRange`, `ListEnds`). `told` remembers what the client was told.
Nothing of a call outlives it, so one call at a time is enough, but for the file
types that other callbacks look up (`OtherLookup`). `GetAttr` is about the dates
of `prodosfs_getattr`: `MkTime` is `mktime` with `tm_isdst` 0, and `ShownTime` the
`localtime` of a zone whose daylight saving time is any predicate on times,
`SummerTime`. The texts of values have a length only.

**Mount** is the life of a prodosfs, from `main` to its end, for several of
them: `Stat`, `Retry` and `RetryEnds` are `S_UpdateMountDirectory` with `errno`
as each call leaves it, `Mkdir` may find its name taken, `InitCallback` is
`prodosfs_mount` with its fork, `End` the destroy callback, the return of
`main` and `S_Cleanup`. Any call may fail and any process be killed
(`MainFails`, `MkdirFails`, `ForkFails`, `Kill`); a process that is killed, or that
`prodosfs_mount` ends because it cannot fork, leaves a dead mount point, where
`stat` fails with `ENOTCONN` until libfuse's helper for `auto_unmount` has unmounted
it (`AutoUnmount`). The user may make directories at any time (`UserMakes`), under a
name that a process has found free too, and remove what processes have abandoned. `LeftErrnos` is what `errno` may hold when the search
begins. Assumed of libfuse: init runs in a thread of libfuse, in a process that
goes on when that thread does; `rmdir` refuses a mount point. A process without
`-n` mounts at `Elsewhere`. After the last use of `errno` and `i` they are reset,
to keep equal states equal.

**MC\*** modules give the constants of TLC's runs. The **\*Proofs** modules extend
the module that they are about; **DirectoryProofs** has the lemmas about the
directory cursor, which `ReadDirectory`, `PathLookup` and `CatalogFile` share.

## 3. What is checked

| Run | Configuration | States | Shows |
| --- | --- | --- | --- |
| `file_serial` | FileHandleSerial | 169 281 | `TypeOK`; `ReadCorrect`; `FileHandle` implements `FileService`, its liveness included, when reads of a handle do not overlap |
| `file_async` | FileHandleAsync | 226 982 | with overlapping reads: `CopyInBounds`, `NeverTerminates`, `EveryReadReturns` |
| `read_directory` | ReadDirectory | 98 386 | `TypeOK`, `NeverTerminates`, `ListedOnce`, `ListingComplete`, `EveryReadDirReturns`; `ReadDirectory` implements `DirectoryService` |
| `path_lookup` | PathLookup | 4 714 | `TypeOK`, `ShortPathsResolve`, `TerminatesOnlyOnOtherKinds`, `EveryCallReturns` |
| `volume_open` | VolumeOpen | 8 708 | `TypeOK`, `OpenedIsTheVolume`, `OpensWithPassword`, `NameIsTheLastGiven` |
| `diskutil` | Diskutil | 49 406 | `TypeOK`, `ImageOpens`, `MenuShowsImage`, `SaveWritesVolume`, `MappedUnchanged` |
| `blocks_used` | BlocksUsed | 62 370 | `FloppiesAreCounted`, `RootIsCounted`, `NeverTerminates` |
| `catalog_file` | CatalogFile | 2 500 | `CatalogComplete`, `RestIsRead`, and by the absence of deadlocks `NeverTerminates` |
| `attributes` | Attributes | 67 248 | `WithinBuffer`, `SizesAgree`, `DatesAgree`, `TableUnchanged`, `ReadmeExample` |
| `mount` | Mount | 565 310 | `TypeOK`, `SeparateMounts`, `UsersDirectoriesKept`, `NothingLeftBehind`, `GivesUpWhenFull` |

Bounds, and why the interesting cases occur within them:

- *FileHandle*: blocks of 2 bytes, index blocks of 2 pointers, so a tree of two
  index blocks has 7 bytes and a hole; a seedling that fills its block, a text
  sapling with a carriage return and the high bit set. Offsets `{0, 3, 8}` start
  in the first block, in the middle of a later one and behind every end; sizes 3
  and 5 span blocks and index blocks and run over the end. Two handles and two
  threads: a thread interferes with another through one handle only. The
  asynchronous run has one handle and a disk of zeros, since its properties do
  not look at the data, and offsets on both sides of the index block's boundary.
- *ReadDirectory*: blocks of two entries; a directory of three blocks with
  deleted entries between and an entry in the first place of a block, an empty
  one and a full one. Two threads and two handles; one error left over, which
  stands for all but the end of a file: `ToError` treats them alike.
- *PathLookup*: three nested directories, one of two blocks whose last slot is
  in use, all kinds of entries, names in either case, with and without
  extension, existing and not, of one, two and three components; extensions on
  directories, before and at the end of a pathname, and without a name. One walk
  at a time: its cursor is local and its error thread-local. `-e` is on; without
  it nothing is erased, as of the paths without a colon.
- *VolumeOpen*: one track of 8 blocks, the unit of `Convert`; the volume
  directory is within it. Five passwords of nine characters, of which eight are
  used: four differ from the first in one character, one that meets a byte of the
  first test, one that meets only the total of blocks, one that meets no tested
  byte, and the last one, which is not used. Any of them protects the image. The
  volume is given a shorter name, a longer one and one that is not valid, in
  either case.
- *Diskutil*: two volume names, before and after; one process after another, and
  one mounted file system. Five inodes: the image, the copy, a temporary file
  and the nameless ones that a process and a mount may still have mapped;
  `SaveOpen` waits for none that the bound denies it. `Inodes` and `Names` are
  symmetric, and no liveness is checked there.
- *BlocksUsed*: blocks of 7 bytes of 2 bits; volumes of fewer blocks than a
  block has bytes, of as many, and of more, with every set of free blocks and
  any content behind the bitmap; root directories of one block and of three, in
  order and not.
- *CatalogFile*: the directories of ReadDirectory; two open files, readers that
  start at the beginning, within and at the end, and ask for one byte, two or
  more than there are.
- *Attributes*: the AppleWorks file of the README's example, a text file, a
  directory and the volume, so every set of attributes; buffers of the sizes
  around each value and each list, and each name. Dates at both ends of each
  field, in the years where the century, a leap year and the two digits turn; a
  zone whose summer is seven months of every year.
- *Mount*: two processes, in the foreground and background, with and without
  `-n`; suffixes up to 2, of which the user may have taken the last, so that two
  processes fill what is left; a volume whose name is not valid; a user who makes
  any of the directories at any time. `errno` is
  `EINVAL` when the search begins, what `realpath` leaves; `MountErrno` adds what
  a missing password file leaves. Processes are symmetric.

**Fairness.** A worker thread that serves a call goes on: weak fairness on
`Work(t)`, one conjunct for each thread. The code's loops do not wait for
anything, and the operating system schedules every thread that can run. There
is none on requests: no process has to ask for anything. `FileService` asks for
the same of its threads.

**Deadlock** is checked except where the program really stops: PathLookup (an
exception may have ended the process) and BlocksUsed (the function has
returned). In the other passing runs a state without a successor would be an
error; in `catalog_file` that is what an exception would be.

`CountTypeOK`, `AttrTypeOK` and CatalogFile's `TypeOK` hold on the same instances
(add such an `INVARIANT` to the configurations), and the runs leave them out;
section 4 proves all three.

### Where the code and what is said of it disagree

Listed runs, each of which TLC answers with a counterexample:

| Run | Property | What happens |
| --- | --- | --- |
| `file_race` | `ReadCorrect` | `main.cxx:328`: two reads of one handle overlap; one moves the handle between the other's `Seek` and `Read`, whose reply has the bytes of another offset |
| `path_deep` | `EveryPathResolves` | `source/volume.cxx:214`: `substr` is given an end position for a length; in a path of three components the second runs over its slash, and the file is not found |

Eight of the modules have further configurations, each with a property that does
not hold of the code there. They are here to be run by hand (`tlc -config X.cfg
MCM.tla`); each ends with a counterexample:

| Configuration | Property | What happens |
| --- | --- | --- |
| FileHandleFullSapling | `NeverTerminates` | `source/file.cxx:99`: reading a sapling of 256 full blocks to its end looks up entry 256 of the index block, which throws |
| FileHandlePastEof | `NoReadPastEof` | `source/file.cxx:119`: at the end of the file `Read` ignores that `Seek` fails and copies the last block again until the buffer is full |
| PathLookupTyped | `TypedPathsResolve` | `main.cxx:163`: with `-e`, all behind the last colon is erased, so `/D:TXT/G`, which the kernel asks for once it has found `D:TXT`, is answered with the directory `D` |
| PathLookupNames | `NamesAccepted` | `main.cxx:375`, `main.cxx:485`: with `-e`, getxattr and opendir do not strip the extension, so no attribute of `F:TXT` is found, and `D:TXT`, a directory for getattr, cannot be opened |
| VolumeOpenWrong | `WrongPasswordRefused` | `source/volume.cxx:128`: a password that is wrong only in characters that meet none of the tested bytes opens the volume, and its directory is not in plain |
| VolumeOpenRace | `AlwaysOpenedIsTheVolume` | `source/volume.cxx:176`: the password file is removed between the two readings of it; block 2 is left with what the first one deciphered, whose second half is another block's |
| VolumeOpenPlain | `PlainImageOpens` | `source/volume.cxx:157`: without a password `tmp_blk` stays uninitialised and is tested all the same |
| VolumeOpenDirty | `DirtyWhenModified` | `source/disk.cxx:125`: `Convert` changes the image and leaves `_dirty` false, so diskutil normalize does not save it |
| DiskutilTwo | `SaveWritesVolume` | `source/disk.cxx:157`: two processes share the temporary file, and `Save` returns true for a file that the other has emptied |
| DiskutilThrow | `SaveReturnsFalse` | `source/disk.cxx:164`: a short write throws instead of returning false |
| DiskutilImageName | `ImageRenamed` | `util/diskutil.cxx:105`: `remove_filename()` changes the pathname that is then renamed |
| BlocksUsedLarge | `EveryVolumeIsCounted` | `source/volume.cxx:315`: `sizeof(uint8_t)` is 1, not the 8 blocks of a byte; volumes of more than 512 blocks are miscounted |
| AttributesSummer | `SummerDatesAgree` | `main.cxx:110`: `tm_isdst` is 0, so a date in summer is shown an hour late, and one after 23:00 on the next day |
| CatalogFileSeek | `NeverTerminates` | `main.cxx:323`: `std::string::copy` throws for an offset behind the catalog, which the reported size allows |
| MountErrno | `GivesUpWhenFull` | `main.cxx:581`: `S_UpdateMountDirectory` tests `errno` after a `stat` that succeeded; `ENOENT` is left there by the password file that `source/volume.cxx:49` did not find, no suffix is tried, and `mkdir` fails |

## 4. What is proved

Every theorem holds for every value of the constants that the named assumptions
admit; TLC evaluates those on each run. Where a theorem needs more, it says so
itself. The invariants below have been checked with TLC, as invariants of the
runs of section 3, before they were proved.

**FileHandleProofs**, for every disk, every set of files, handles and threads
(`SizeAssumption`, `DiskAssumption`, `RequestAssumption`):

- `TypeCorrect` (`TypeOK`) and `CopyStaysInBounds` (`CopyInBounds`), however
  reads interleave. `TypeOK` is not inductive: that `left - chunk` stays natural
  and a copy yields bytes follows only if `chunk` was bounded by the block and by
  `left`, and if the handle still has a data block. `Bounds` adds these.
- `ReadsCorrect` (`ReadCorrect`) and `NoException` (`NeverTerminates`), under
  `SerialReads`: reads of one handle do not overlap, and every file leaves an
  index entry for the block behind its last. The run `file_race` and the
  configuration FileHandleFullSapling show what happens without either. The
  invariant `SerialInv` says that at most one thread works with a handle, that
  the handle's pointers follow from its position except in the middle of a Seek
  (`Placed`), and that a request has copied a prefix of its range and its handle
  stands at the next byte (`Steady`); `ReadCorrect` alone says nothing of the
  time before a reply.
- `ReadsAreAtomic`, under `SerialReads`: `FileHandle` implements the safety part
  of `FileService`, `Init` and `[][Next]_vars` of `ImplementsService`. Opening,
  closing, dispatching and replying are steps of the service by the same name,
  and `Convert`, or a first Seek that fails, is the instant at which it serves
  the request; all other steps are none. `RangeInv` adds to
  `SerialInv` that a read which has passed its first Seek begins in the file,
  without which a request behind the end could be answered with bytes.

**DirectoryProofs** and **ReadDirectoryProofs**, for every volume that
`LayoutAssumption` admits (the byte behind the last slot of a block is 0 and
`file_count` is the number of active entries, as ProDOS writes them):

- `TypeCorrect`, `NoException` (`NeverTerminates`), `NoRepetition` (`ListedOnce`)
  and `CompleteListing` (`ListingComplete`). The invariant `DirInv` relates the
  cursor's count to the number of active slots behind it (`Counting`), so that at
  the last count nothing is left ahead, and says that what has been listed, with
  the entry in flight, is what lies behind the cursor (`Listing`).
- `Refinement` (`ImplementsService`): `ReadDirectory` implements
  `DirectoryService`. What the service has left to list is what lies ahead of
  the cursor and the entry in flight; a step of the filler takes the first of
  them, because the cursor only passes inactive slots in between. `RefusalInv`
  adds that only a call which is about to end has refused an entry, and that a
  call which ends without having refused one has the error `end_of_file` and its
  cursor at the end.

**EntryProofs** has two parts.

*PathLookup*, for every volume, set of pathnames and left-over error
(`VolumeAssumption`, `NamesAssumption`: no two entries of a directory have one
name; `PathsAssumption`):

- `TypeCorrect` (`TypeOK`) and `WalksAreSafe` (`TerminatesOnlyOnOtherKinds`), for
  pathnames of any length with extensions anywhere.
- `RemaindersFound` (`RemainderAnswered`), for the same pathnames: a callback
  answers for what is left after `ProdosFilename`, with what that names if it has
  at most two components, and with `ENOENT` or `ENOTDIR` otherwise. So `/D:TXT/G`
  and `/D:TXT/E/H` are answered with `D`, always.
- `ShortPathsFound` (`ShortPathsResolve`): what is left is what was asked for when the
  pathname is `Regular` and short.
- `NoEntryMixedUp` (`NoWrongEntry`): what is found is what the pathname names,
  however long it is, if it is `Whole`. `EveryPathResolves` fails in the run
  `path_deep`; this is the half of it that holds.
- `LongPathsNotFound` (`LongPathsFail`): the other half never holds. A pathname of
  three components or more that is `Whole` is answered with `ENOENT` or `ENOTDIR`
  on every volume, so the finding of that run is the rule and not a special case.

`WalkInv` says that the component in hand has been compared with every entry that
the cursor has passed, without success, so that a walk that ends has missed
nothing. `RightInv` says that a walk is in the directory to which its pathname's
first component leads or still in the root: the components that `SplitPath` takes
from a longer pathname contain a slash, which no name does, so no walk gets to a
third directory. `ShortInv` adds which error a short pathname gets.

*Attributes*, for any entries, attributes' lengths, dates and buffers
(`AttributesAssumption`, `TextAssumption`): `BufferKept` (`WithinBuffer`),
`SizesAreTold` (`SizesAgree`) and `NoInsertion` (`TableUnchanged`). The list of
names comes in any order, so the invariant cannot name what is written: `ListInv`
says that its length is that of the names dealt with, counted as a set of bytes
(`SizeIs`); a part is never longer than the whole (`FewerNames`), so a list that
does not fit was told to be longer than the buffer (`ReplyInv`).
`DatesAreShown` (`DatesAgree`) is for dates that the calendar has
(`CalendarDates`) and that are not in the zone's summer, whatever that is: `DateKept` shows that `localtime` finds the year and the month
that `mktime` was given, for every day of 1970 to 2069. mktime turns the 30th of
February into a day of March, so for other dates the two differ.
`AttributesTypeCorrect` (`AttrTypeOK`) is for whatever bits an entry holds as a
date: `TimeInRange` shows that what mktime makes of them is one of `Minutes`, which
begins 32 days before 1970, at day 0 of month 0. The run has such dates too.

**VolumeProofs** has two parts.

*VolumeOpen*, for any passwords and names and any memory that looks like
a header or not (`PasswordAssumption`, `NameAssumption`): `TypeCorrect`
(`TypeOK`), `OpenedRightly` (`OpenedIsTheVolume`), `PasswordOpens`
(`OpensWithPassword`) and `NameIsGiven` (`NameIsTheLastGiven`). What is in plain
after opening is thus known for every password, right or wrong, and every byte.
`ShortPasswordsAreNoticed` draws a conclusion from it: the tested bytes 0, 1 and 35
meet every character that is used of a password of at most four, so a wrong one
as long as the right one does not open the volume. `GuessInv` is
what each failed guess has found out about the image, and that the image is in
the file's order until it is converted, once; `ProgressInv`, that with the
password at hand the guess that is right is made; `NameInv`, that the name's
first letters and the length, which shares its byte with the storage type, are
those given last, whatever is behind them. The proof uses that the code's
interleave of sectors is its own inverse (`Interleave`), which the images of
section 3 only sample.

*BlocksUsed*, for any size of block, bitmap and volume, any blocks free and any
bytes behind the bitmap (`SizeAssumption`): `FloppyCount` (`FloppiesAreCounted`),
`RootCount` (`RootIsCounted`) and `StatisticsTypeCorrect`. `FloppyInv` says that
each byte read has counted for one block less the free ones whose bits it holds,
so that the errors of the loop cancel once the bitmap is used up; `LeftInv` ties
what is left to count to the bytes read. `NoException` (`NeverTerminates`) needs
`BitmapIsNear` as well, a bitmap that begins at a block number below the bytes
of a block: ProDOS has it at block 6 and blocks have 512 bytes. The loop reads a
block of bitmap for each 512 blocks of the volume, and with a bitmap further
behind it would run over the end of the disk.

Both modules extend the two models that they are about. No variable, action or
property of one has the name of one of the other, which is why those of BlocksUsed
and Attributes begin with `Count` and `Attr` where the others have `Init` and
`Next`.

**DiskutilProofs**, for any volumes and files and any order of failures, under
`OneProcess` (one diskutil at a time, beside any number of mounted file systems;
DiskutilTwo shows why): `TypeCorrect`, `ImageAlwaysOpens` (`ImageOpens`),
`MenuIsCurrent` (`MenuShowsImage`), `SaveIsComplete` (`SaveWritesVolume`) and
`MappedFilesKept` (`MappedUnchanged`). The invariant `DiskInv` says that no
file has two names (`Distinct`), that the temporary file is the one `fd` is open
on and holds the volume once it is written (`TempInv`), that no temporary
file is mapped (`MapInv`), and that `rename` works on the image only
(`RenameInv`): so what replaces the image is complete, and what is truncated is
neither the image nor mapped.

**CatalogFileProofs**, for every directory, any number of open files and
readers: `TypeCorrect`, `CatalogIsComplete` (`CatalogComplete`),
`ReadersGetTheRest` (`RestIsRead`), and `ReadersInRangeAreSafe`
(`NeverTerminates`) for readers that start within the shortest catalog;
CatalogFileSeek shows what the others meet. `TextInv` says that the text has the
heading and a line for every entry that the cursor has passed, in order;
`ReaderInv`, that what a reader has is the text between where it started and
where it stands.

**MountProofs**, for any number of processes, volumes and suffixes, with any call
failing and any process killed: `TypeCorrect` (`TypeOK`), `MountsSeparate`
(`SeparateMounts`), `UsersDirectoriesStay` (`UsersDirectoriesKept`),
`UnmountedLeaveNothing` (`NothingLeftBehind`), and `SearchIsExhaustive`
(`GivesUpWhenFull`) under `NoEntryIsNotLeft`: `errno` is not `ENOENT` when the
search begins. MountErrno shows that it may be, and what follows. `OwnInv`
says that what a process has made is there, is no one else's, and is neither the
user's nor abandoned; `StageInv`, what it has made, mounted and registered at each
stage; `LeftInv`, what the dead have left. For the search, `SearchInv` says that
all names before the one in hand were taken and that `errno` tells whether this
one is, as long as no other process has made or removed a directory meanwhile.

Only model-checked:

- Liveness: `EveryReadReturns`, `EveryReadDirReturns`, `EveryCallReturns` and
  the fairness of `FileService`, which is outside what the prover does.
- `ReadmeExample`, which is about one name.
- What section 3 shows to fail, and hence what the theorems exclude:
  overlapping reads, pathnames of three components or with extensions on
  directories, passwords that are wrong in a few characters, dates in summer, two
  diskutils.

## 5. What is not modelled

- Formatting: names and descriptions of file types, the texts of dates and
  attribute values, the layout of a catalogue's lines, log messages. No state
  depends on them.
- What the log holds. Its opening is a step of `Mount` that may fail.
- The end of diskutil's input, where the menu never ends; nothing in the
  repository says what should happen there.
- A mount directory that does not exist: `realpath` returns `nullptr`, which is
  used as a string (`main.cxx:648`). `Mount` begins with directories that do.
- Power failures during `Save`: `close` and `rename` without `fsync` leave what
  the host's file system makes of it. Diskutil models processes that are killed.
- A failing `mmap`, whose `MAP_FAILED` is taken for memory; images whose size is
  not a whole number of tracks.
- Time zones but for their daylight saving time: their offset cancels between
  `mktime` and `localtime`. Of daylight saving time, only the dates outside it are
  shown right (`DatesAgree`, AttributesSummer).
- Blocks other than block 2 that pass for a volume directory by chance, as they are
  or deciphered: the tests see a few bytes, of which `VolumeOpen` knows the values in
  the volume directory only, and memory that looks like one in the first three is
  taken to fail the constructor's. A password file that holds a NUL or other control
  characters. Of a protected image whose password file changes while it is opened,
  only what VolumeOpenRace shows.
- The `nullptr` that `volume_t::Catalog` returns for a directory that it does not
  find (`source/volume.cxx:344`): the kernel has found the file's parent under the
  same name before it opens the file, in an image that does not change, and a
  pathname from which `-e` erases something has lost its `.CATALOG`.
- The parent that `prodosfs_mount`'s fork leaves, which exits before it registers
  the exit handler, and an unmount that is refused because the directory is busy.
- `awp2txt` and `wpf2txt`, Perl scripts that turn one word processor file into
  text, use nothing of the library and keep nothing between runs; the build
  files.
- The order of memory accesses below the level of single loads and stores.

## 6. Plan

Written so far, in this order: FileHandle with FileService and proofs,
Directory and ReadDirectory with proofs, PathLookup, VolumeOpen, Diskutil with
proofs, BlocksUsed, CatalogFile, Mount, Entry with FileTypes and Attributes,
Rename, DirectoryService, the catalogue's walk, mapped images. Then the
proofs for Mount, CatalogFile, VolumeOpen, PathLookup, BlocksUsed and Attributes
and the two refinements, and last the pathnames of any length and the type
correctness of Attributes. Then which bytes of a volume directory are in plain
after opening, pathnames with extensions anywhere, daylight saving time, and a user
who makes directories.
