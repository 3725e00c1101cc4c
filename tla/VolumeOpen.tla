------------------------------ MODULE VolumeOpen ------------------------------
(***************************************************************************)
(* Opening a disk image: disk_t (source/disk.cxx) and the constructor of   *)
(* volume_t (source/volume.cxx), which guesses how the image is laid out.  *)
(*                                                                         *)
(* The image may hold its blocks in order or as the sectors of a DOS 3.3   *)
(* disk, and block 2, the volume directory, may be enciphered with a       *)
(* password that S_Deobfuscate reads from a file, anew on each call.       *)
(*                                                                         *)
(* The unit of data is half a block, a sector; the disk here is one track. *)
(* The cipher combines each byte of a block with a character of the        *)
(* password by exclusive or, so that a sector is what the volume holds and *)
(* the set of the passwords it is combined with: to combine it with one    *)
(* twice undoes it.  Which bytes are in plain then depends on whether two  *)
(* passwords have the same character for them.                             *)
(*                                                                         *)
(* A volume that is open can be renamed (volume_t::Rename).  The header's  *)
(* name field is kept apart from the sector that holds it.                 *)
(***************************************************************************)
EXTENDS Entry

CONSTANTS
  Passwords,       \* what the password file may hold
  VolumeName,      \* the volume's name in the image file
  Names,           \* names that the user may give it
  NULL

NumBlocks == 8
Sectors == 0 .. 2 * NumBlocks - 1

Half(b, h, seal) == [block |-> b, half |-> h, seal |-> seal]

\* What memory that nothing has written may hold: bytes that look like a volume
\* directory, or bytes that do not.
Zeros == Half(NumBlocks, 0, {})
HeaderLike == Half(NumBlocks, 1, {})
Garbage == {Zeros, HeaderLike}

\* Half h of block b, as the volume holds it (seal = {}) or combined with passwords.
Halves ==
  [block: 0 .. NumBlocks - 1, half: {0, 1}, seal: SUBSET Passwords] \cup Garbage

\* Exclusive or.
Combined(S, T) == (S \ T) \cup (T \ S)

\* An image file: its layout, the password of its block 2, whether the header
\* counts as many blocks as the file has, and whether disk_t accepts the file (a
\* regular file of whole blocks, more than two of them).
Images == [layout: {"prodos", "dos"}, seal: Passwords \cup {NULL},
           total: BOOLEAN, usable: BOOLEAN]

\* A sector of the volume, block by block.
VolumeSector(n, seal) ==
  Half(n \div 2, n % 2, IF n \div 2 = 2 THEN seal ELSE {})

\* The interleave of DOS 3.3 and ProDOS: the n-th half block is in this sector.
DosSector(n) == IF n \in {0, 15} THEN n ELSE 15 - n

Seal(q) == IF q = NULL THEN {} ELSE {q}

\* The sectors of an image file, in the order of the file.
FileOf(img) ==
  [s \in Sectors |->
    IF img.layout = "prodos"
    THEN VolumeSector(s, Seal(img.seal))
    ELSE VolumeSector(CHOOSE n \in Sectors : DosSector(n) = s, Seal(img.seal))]

\* Printable characters, of which S_Deobfuscate reads 31; one alone is too short.
ASSUME PasswordAssumption ==
  /\ NULL \notin Passwords
  /\ \A q \in Passwords : q \in Seq(32 .. 126) /\ Len(q) \in 2 .. 31

\* The name is in capitals.
ASSUME NameAssumption ==
  /\ VolumeName \in Seq(Character)
  /\ Names \subseteq Seq(Character)
  /\ IsValidName(VolumeName)
  /\ \A k \in DOMAIN VolumeName : Upper(VolumeName[k]) = VolumeName[k]

-----------------------------------------------------------------------------
VARIABLES
  pc,          \* where the constructor is
  image,       \* the image file that is opened
  password,    \* what the password file holds, NULL if it cannot be used
  base,        \* disk_t::_base: the sectors in memory, <<>> before mmap
  converted,   \* disk_t::_converted
  dirty,       \* disk_t::_dirty
  tmp,         \* _GetVolumeDirectoryBlock's tmp_blk, as two halves
  changed,     \* has the password file changed since the image was opened?
  header,      \* storage_type_and_name_length and volume_name of _root's header
  given        \* history: the name that the volume was given last, or opened with

nameVars == <<header, given>>
vars == <<pc, image, password, base, converted, dirty, tmp, changed, nameVars>>

TypeOK ==
  /\ pc \in {"start", "block", "deobfuscate", "sector", "again", "reread",
             "validate", "open", "failed"}
  /\ image \in Images \cup {NULL}
  /\ password \in Passwords \cup {NULL}
  /\ base \in {<<>>} \cup [Sectors -> Halves]
  /\ converted \in BOOLEAN
  /\ dirty \in BOOLEAN
  /\ tmp \in Halves \X Halves
  /\ changed \in BOOLEAN
  /\ header \in [byte: 0 .. 255, name: [1 .. FILENAME_LENGTH -> Character]]
  /\ given \in Seq(Character)

\* The name field: a name, and what is behind it.
NameField(name, rest) ==
  [k \in 1 .. FILENAME_LENGTH |-> IF k <= Len(name) THEN name[k] ELSE rest]

HeaderInFile ==
  [byte |-> 15 * 16 + Len(VolumeName), name |-> NameField(VolumeName, Nul)]

\* Nothing initialises tmp_blk.
Init ==
  /\ pc = "start"
  /\ image = NULL
  /\ password \in Passwords \cup {NULL}
  /\ base = <<>>
  /\ converted = FALSE
  /\ dirty = FALSE
  /\ \E g \in Garbage : tmp = <<g, g>>
  /\ changed = FALSE
  /\ header = HeaderInFile
  /\ given = VolumeName

-----------------------------------------------------------------------------
(* Operators *)

Bytes == 0 .. 511

\* The character that byte i of a block is combined with: the password over and over,
\* without its last character.
KeyChar(q, i) == q[(i % (Len(q) - 1)) + 1]

SameChar(p, q, i) == KeyChar(p, i) = KeyChar(q, i)
SameHighBits(p, q, i) == KeyChar(p, i) \div 16 = KeyChar(q, i) \div 16

\* Is byte i of its block, or are the four high bits of it, in plain in the sector x?
\* No character leaves a byte as it is, and those from 112 leave its high bits; what one
\* password changes, only another can undo.
InPlain(x, i) == \A p \in x.seal : \E q \in x.seal \ {p} : SameChar(p, q, i)
HighInPlain(x, i) ==
  \A p \in x.seal :
    KeyChar(p, i) \div 16 = 7 \/ \E q \in x.seal \ {p} : SameHighBits(p, q, i)

IsHeader(x) == x.block = 2 /\ x.half = 0

\* S_IsVolumeDirectoryBlock looks at 3 of the 512 bytes: prev, and the storage type in the
\* high bits of byte 4.  No other block of the volume is taken to pass for this one.
IsVolumeDirectoryBlock(x) ==
  \/ x = HeaderLike
  \/ IsHeader(x) /\ InPlain(x, 0) /\ InPlain(x, 1) /\ HighInPlain(x, 4)

\* S_Deobfuscate's loop, for one sector.
Deciphered(x, q) == [x EXCEPT !.seal = Combined(@, {q})]

\* S_Deobfuscate: without a usable password file it returns and leaves dst alone.
Deobfuscated(src, dst) ==
  IF password = NULL THEN dst ELSE <<Deciphered(src[1], password), Deciphered(src[2], password)>>

\* disk_t::ReadBlock and disk_t::ReadTrackSector; the latter's caller reads on.
Block(i) == <<base[2 * i], base[2 * i + 1]>>
TwoSectors(s) == <<base[s], base[s + 1]>>

\* disk_t::WriteBlock
BlockWritten(i, blk) == [base EXCEPT ![2 * i] = blk[1], ![2 * i + 1] = blk[2]]

\* Mutant: two sectors of the second half are exchanged.
Map2Swapped == <<14, 12, 10, 8, 6, 4, 15, 2>>

\* _ReadRwtsBlock: the sectors of a block's first and second half.
Map1 == <<0, 13, 11, 9, 7, 5, 3, 1>>
Map2 == <<14, 12, 10, 8, 6, 4, 2, 15>>

\* Mutant: the loop runs one block too far.
ConvertedOneMore ==
  [s \in 0 .. 2 * NumBlocks + 1 |->
    IF s \in Sectors
    THEN base[IF s % 2 = 0 THEN Map1[s \div 2 + 1] ELSE Map2[s \div 2 + 1]]
    ELSE Zeros]

\* Convert
Converted ==
  [s \in Sectors |->
    base[IF s % 2 = 0 THEN Map1[s \div 2 + 1] ELSE Map2[s \div 2 + 1]]]

-----------------------------------------------------------------------------
(* disk_t's constructor *)

Open(img) ==
  /\ pc = "start"
  /\ image' = img
  /\ IF img.usable
     THEN base' = FileOf(img) /\ pc' = "block"
     ELSE pc' = "failed" /\ UNCHANGED base
  /\ UNCHANGED <<password, converted, dirty, tmp, changed, nameVars>>

-----------------------------------------------------------------------------
(* _GetVolumeDirectoryBlock: four guesses *)

\* Block 2 is the volume directory.
TryBlock ==
  /\ pc = "block"
  /\ pc' = IF IsVolumeDirectoryBlock(base[4]) THEN "validate" ELSE "deobfuscate"
  /\ UNCHANGED <<image, password, base, converted, dirty, tmp, changed, nameVars>>

\* Block 2, deciphered.
TryDeobfuscated ==
  LET plain == Deobfuscated(Block(2), tmp) IN
  /\ pc = "deobfuscate"
  /\ tmp' = plain
  /\ IF IsVolumeDirectoryBlock(plain[1])
     THEN /\ base' = BlockWritten(2, plain)
          /\ dirty' = TRUE
          /\ pc' = "validate"
     ELSE pc' = "sector" /\ UNCHANGED <<base, dirty>>
  /\ UNCHANGED <<image, password, converted, changed, nameVars>>

\* Sector 11 of the first track, which holds the first half of block 2.
TrySector ==
  /\ pc = "sector"
  /\ IF IsVolumeDirectoryBlock(base[11])
     THEN base' = Converted /\ converted' = TRUE /\ pc' = "validate"
     ELSE pc' = "again" /\ UNCHANGED <<base, converted>>
  /\ UNCHANGED <<image, password, dirty, tmp, changed, nameVars>>

\* Mutant: only block-ordered disks may be protected.
SectorHeaderFoundNever(x) == FALSE

SectorHeaderFound(x) == IsVolumeDirectoryBlock(x)

\* The same, deciphered, with the sector behind it.
TrySectorDeobfuscated ==
  LET plain == Deobfuscated(TwoSectors(11), tmp) IN
  /\ pc = "again"
  /\ tmp' = plain
  /\ IF SectorHeaderFound(plain[1])
     THEN base' = Converted /\ converted' = TRUE /\ pc' = "reread"
     ELSE pc' = "failed" /\ UNCHANGED <<base, converted>>
  /\ UNCHANGED <<image, password, dirty, changed, nameVars>>

\* The block that the conversion has put together is deciphered in turn.
Reread ==
  LET plain == Deobfuscated(Block(2), tmp) IN
  /\ pc = "reread"
  /\ tmp' = plain
  /\ base' = BlockWritten(2, plain)
  /\ dirty' = TRUE
  /\ pc' = "validate"
  /\ UNCHANGED <<image, password, converted, changed, nameVars>>

\* What volume_t's constructor checks: storage_type, min_version, entry_length and
\* entries_per_block, which are right in the image, and total_blocks.  Memory that looks
\* like a header in 3 bytes is taken not to pass for one here.
FieldsInPlain(x) ==
  IsHeader(x) /\ HighInPlain(x, 4) /\ \A i \in {33, 35, 36} : InPlain(x, i)

TotalInPlain(x) == InPlain(x, 41) /\ InPlain(x, 42)

\* The name's length in the low bits of byte 4, and its 15 bytes.
NameInPlain(x) == \A i \in 4 .. 19 : InPlain(x, i)

\* Blanks stand for the characters of a name that is not in plain.
SpoiltName(n) == [k \in 1 .. n |-> Space]

\* A total that is not in plain may come right where it is wrong in the image.
Accept ==
  /\ pc = "validate"
  /\ FieldsInPlain(base[4])
  /\ image.total <=> TotalInPlain(base[4])
  /\ pc' = "open"
  /\ IF NameInPlain(base[4])
     THEN UNCHANGED nameVars
     ELSE \E n \in 0 .. FILENAME_LENGTH :
            /\ InPlain(base[4], 4) => n = Len(VolumeName)
            /\ header' = [byte |-> 15 * 16 + n, name |-> NameField(SpoiltName(n), Space)]
            /\ given' = SpoiltName(n)
  /\ UNCHANGED <<image, password, base, converted, dirty, tmp, changed>>

Refuse ==
  /\ pc = "validate"
  /\ ~(FieldsInPlain(base[4]) /\ TotalInPlain(base[4]) /\ image.total)
  /\ pc' = "failed"
  /\ UNCHANGED <<image, password, base, converted, dirty, tmp, changed, nameVars>>

-----------------------------------------------------------------------------
(* Rename *)

\* Mutant: the length is added to the old one.
WithLengthAdded(b, length) == (b + length) % 256

\* The length takes the place of the old one in the low four bits.
WithLength(b, length) == StorageType(b) * 16 + length

\* A zero, or a letter that another string has left.
RestOfName == {Nul, VolumeName[1]}

InCapitals(name) == [k \in 1 .. Len(name) |-> Upper(name[k])]

\* memcpy takes 15 bytes, whatever is behind a shorter name in memory.
Rename(name, rest) ==
  /\ pc = "open"
  /\ IF IsValidName(name)
     THEN /\ header' = [byte |-> WithLength(header.byte, Len(name)),
                        name |-> NameField(InCapitals(name), rest)]
          /\ given' = InCapitals(name)
          /\ dirty' = TRUE
     ELSE UNCHANGED <<dirty, nameVars>>
  /\ UNCHANGED <<pc, image, password, base, converted, tmp, changed>>

-----------------------------------------------------------------------------
\* Someone edits, adds or removes the password file.
ChangePassword(q) ==
  /\ password' = q
  /\ changed' = (changed \/ pc # "start")
  /\ UNCHANGED <<pc, image, base, converted, dirty, tmp, nameVars>>

Next ==
  \/ \E img \in Images : Open(img)
  \/ TryBlock
  \/ TryDeobfuscated
  \/ TrySector
  \/ TrySectorDeobfuscated
  \/ Reread
  \/ Accept
  \/ Refuse
  \/ \E name \in Names, rest \in RestOfName : Rename(name, rest)
  \/ \E q \in Passwords \cup {NULL} : ChangePassword(q)

Spec == Init /\ [][Next]_vars

-----------------------------------------------------------------------------
(* Properties *)

\* The bytes whose values the tests know.
Tested == {0, 1, 33, 35, 36}

\* However the image is laid out, a volume that opens has every half block in its place,
\* and in plain but for block 2; of block 2 just the bytes are in plain for which the
\* password has the right character, all of them if the image is not protected, and the
\* tested ones always.  An image that is not protected may have its password file
\* changed meanwhile (_GetVolumeDirectoryBlock, S_Deobfuscate, Convert).
OpenedIsTheVolume ==
  pc = "open" /\ (image.seal = NULL \/ ~changed) =>
    /\ \A s \in Sectors : base[s].block = s \div 2 /\ base[s].half = s % 2
    /\ \A s \in Sectors \ {4, 5} : base[s].seal = {}
    /\ \A i \in Bytes :
         InPlain(base[4 + i \div 256], i) <=>
           image.seal = NULL \/ (password # NULL /\ SameChar(password, image.seal, i))
    /\ \A i \in Tested : InPlain(base[4], i)

IsTheVolume == base = [s \in Sectors |-> VolumeSector(s, {})]

SameKey(p, q) == \A i \in Bytes : SameChar(p, q, i)

\* A volume opens with the right password only, or one that has the same characters.
WrongPasswordRefused ==
  pc = "open" /\ ~changed /\ image.seal # NULL => SameKey(password, image.seal)

\* A protected volume opens in plain whenever the password file changes, if it holds
\* the right password or none.
AlwaysOpenedIsTheVolume == pc = "open" => IsTheVolume

\* A sound image that is not protected, or whose password is at hand, opens when
\* there is a password to decipher tmp_blk with.
OpensWithPassword ==
  /\ pc = "failed" /\ ~changed /\ password # NULL
  /\ image.seal = NULL \/ SameKey(password, image.seal)
  => ~image.usable \/ ~image.total

\* A sound image that is not protected opens, password or not.
PlainImageOpens ==
  (pc = "failed" /\ image.seal = NULL) => ~image.usable \/ ~image.total

\* disk_t::IsDirty tells whether the image in memory differs from the file.
DirtyWhenModified ==
  pc = "open" => (dirty <=> base # FileOf(image) \/ header # HeaderInFile)

\* However often a volume is renamed, to longer and shorter names, valid ones and others,
\* its header reads as a volume's, of the name that was last accepted, or of the one that
\* it had when it was opened (Rename, Name).
NameIsTheLastGiven ==
  pc = "open" =>
    /\ StorageType(header.byte) = 15
    /\ FileName(header.byte, header.name) = given
=============================================================================
