----------------------------- MODULE VolumeProofs -----------------------------
(***************************************************************************)
(* Volumes (volume.cxx, disk.cxx).  First VolumeOpen: which images open as *)
(* which volume, for any passwords and names, and whenever the password    *)
(* file changes.  Then BlocksUsed: the statistics of an open volume, for   *)
(* any sizes of its parts that satisfy SizeAssumption.                     *)
(***************************************************************************)
EXTENDS VolumeOpen, BlocksUsed, FiniteSetTheorems, SequenceTheorems, TLAPS

\* The sectors of the volume in their places, block 2 enciphered or not.
Volume(seal) == [s \in Sectors |-> VolumeSector(s, seal)]

InFile == {"block", "deobfuscate", "sector", "again"}

\* What deciphering leaves of the seal of block 2.
Left == IF image.seal = NULL THEN {} ELSE Combined({image.seal}, {password})

\* Block 2 looks like the volume directory in spite of it.
Passes == IsVolumeDirectoryBlock(Half(2, 0, Left))

\* What each guess has found out about the image, whoever changes the password file.
GuessInv ==
  /\ pc # "start" => image \in Images
  /\ pc \notin {"start", "failed"} => image.usable
  /\ pc \in {"start", "block", "deobfuscate"} => tmp \in Garbage \X Garbage
  /\ pc \in {"sector", "again"} => ~IsVolumeDirectoryBlock(tmp[1])
  /\ pc \in InFile => base = FileOf(image)
  /\ pc = "reread" =>
       /\ base = Volume({image.seal}) /\ image.seal # NULL
       /\ ~changed => password # NULL /\ Passes
  /\ pc \in {"validate", "open"} =>
       /\ base \in [Sectors -> Halves]
       /\ base[4] # HeaderLike /\ (image.seal = NULL \/ ~changed) =>
            base = Volume(Left) /\ Passes /\ (image.seal # NULL => password # NULL)
  /\ pc = "open" => base[4] # HeaderLike /\ FieldsInPlain(base[4])

\* There is a password, as good as the right one if the image is protected.
PasswordAtHand ==
  /\ pc # "start" /\ ~changed /\ password # NULL
  /\ image.seal = NULL \/ SameKey(password, image.seal)

\* With it, the guess that is right for the image is made and not missed.
ProgressInv ==
  PasswordAtHand =>
    /\ pc = "deobfuscate" => image.layout = "dos" \/ image.seal # NULL
    /\ pc = "sector" => image.layout = "dos"
    /\ pc = "again" => image.layout = "dos" /\ image.seal # NULL
    /\ pc = "validate" => base[4] # HeaderLike
    /\ pc = "failed" => ~image.usable \/ ~image.total

\* The header has the name that was given last, and its length.
NameInv ==
  /\ given \in Seq(Character) /\ Len(given) \in 0 .. FILENAME_LENGTH
  /\ header.byte = 15 * 16 + Len(given)
  /\ header.name \in [1 .. FILENAME_LENGTH -> Character]
  /\ \A k \in 1 .. Len(given) : header.name[k] = given[k]

OpenInv ==
  /\ TypeOK
  /\ GuessInv
  /\ ProgressInv
  /\ NameInv

-----------------------------------------------------------------------------
(* Sectors *)

\* The interleave is its own inverse.
LEMMA Interleave ==
  ASSUME NEW n \in Sectors
  PROVE  DosSector(n) \in Sectors /\ DosSector(DosSector(n)) = n
BY DEF Sectors, NumBlocks, DosSector

LEMMA DosSectorOf ==
  ASSUME NEW s \in Sectors
  PROVE  (CHOOSE n \in Sectors : DosSector(n) = s) = DosSector(s)
<1>1. DosSector(s) \in Sectors /\ DosSector(DosSector(s)) = s
  BY Interleave
<1>2. \A n \in Sectors : DosSector(n) = s => n = DosSector(s)
  BY Interleave
<1>3. QED
  BY <1>1, <1>2

\* The tables of _ReadRwtsBlock give each half block the sector that the interleave does.
LEMMA MapsInterleave ==
  ASSUME NEW s \in Sectors
  PROVE  (IF s % 2 = 0 THEN Map1[s \div 2 + 1] ELSE Map2[s \div 2 + 1]) = DosSector(s)
<1>1. s \in 0 .. 15
  BY DEF Sectors, NumBlocks
<1>2. CASE s % 2 = 0
  <2>1. s \in {0, 2, 4, 6, 8, 10, 12, 14}
    BY <1>1, <1>2
  <2>2. Map1[s \div 2 + 1] = DosSector(s)
    BY <2>1 DEF Map1, DosSector
  <2>3. QED
    BY <1>2, <2>2
<1>3. CASE s % 2 # 0
  <2>1. s \in {1, 3, 5, 7, 9, 11, 13, 15}
    BY <1>1, <1>3
  <2>2. Map2[s \div 2 + 1] = DosSector(s)
    BY <2>1 DEF Map2, DosSector
  <2>3. QED
    BY <1>3, <2>2
<1>4. QED
  BY <1>2, <1>3

LEMMA VolumeSectorType ==
  ASSUME NEW n \in Sectors, NEW S \in SUBSET Passwords
  PROVE  VolumeSector(n, S) \in Halves \ Garbage
<1>1. n \div 2 \in 0 .. NumBlocks - 1 /\ n % 2 \in {0, 1}
  BY DEF Sectors, NumBlocks
<1>2. QED
  BY <1>1 DEF VolumeSector, Half, Halves, Garbage, Zeros, HeaderLike, NumBlocks

LEMMA VolumeType ==
  ASSUME NEW S \in SUBSET Passwords
  PROVE  /\ Volume(S) \in [Sectors -> Halves \ Garbage]
         /\ Volume(S)[4] = Half(2, 0, S) /\ Volume(S)[5] = Half(2, 1, S)
<1>1. 4 \in Sectors /\ 5 \in Sectors
  BY DEF Sectors, NumBlocks
<1>2. VolumeSector(4, S) = Half(2, 0, S) /\ VolumeSector(5, S) = Half(2, 1, S)
  BY DEF VolumeSector
<1>3. QED
  BY <1>1, <1>2, VolumeSectorType DEF Volume

LEMMA SealType ==
  ASSUME NEW img \in Images
  PROVE  Seal(img.seal) \in SUBSET Passwords
BY DEF Images, Seal

LEMMA FileFacts ==
  ASSUME NEW img \in Images
  PROVE  /\ FileOf(img) \in [Sectors -> Halves \ Garbage]
         /\ img.layout = "prodos" => FileOf(img) = Volume(Seal(img.seal))
         /\ img.layout = "dos" =>
              \A s \in Sectors : FileOf(img)[s] = VolumeSector(DosSector(s), Seal(img.seal))
<1> DEFINE S == Seal(img.seal)
<1>1. S \in SUBSET Passwords
  BY SealType
<1>2. ASSUME NEW s \in Sectors
      PROVE  FileOf(img)[s] =
               IF img.layout = "prodos" THEN VolumeSector(s, S) ELSE VolumeSector(DosSector(s), S)
  <2>1. (CHOOSE n \in Sectors : DosSector(n) = s) = DosSector(s)
    BY DosSectorOf
  <2>2. FileOf(img)[s] =
          IF img.layout = "prodos" THEN VolumeSector(s, S)
          ELSE VolumeSector(CHOOSE n \in Sectors : DosSector(n) = s, S)
    BY Zenon DEF FileOf
  <2>3. QED
    BY <2>1, <2>2, Zenon
<1> HIDE DEF S
<1>3. \A s \in Sectors : FileOf(img)[s] \in Halves \ Garbage
  BY <1>1, <1>2, Interleave, VolumeSectorType
<1>4. FileOf(img) = [s \in Sectors |-> FileOf(img)[s]]
  BY DEF FileOf
<1>5. QED
  BY <1>2, <1>3, <1>4 DEF S, Volume

\* The sectors that the guesses look at are the first half of block 2 and the second of 5.
LEMMA SectorsLookedAt ==
  ASSUME NEW img \in Images
  PROVE  /\ img.layout = "prodos" =>
              FileOf(img)[4] = Half(2, 0, Seal(img.seal)) /\ FileOf(img)[11] = Half(5, 1, {})
         /\ img.layout = "dos" =>
              FileOf(img)[11] = Half(2, 0, Seal(img.seal)) /\ FileOf(img)[4] = Half(5, 1, {})
<1>1. 4 \in Sectors /\ 11 \in Sectors /\ DosSector(4) = 11 /\ DosSector(11) = 4
  BY DEF Sectors, NumBlocks, DosSector
<1>2. \A S : VolumeSector(4, S) = Half(2, 0, S) /\ VolumeSector(11, S) = Half(5, 1, {})
  BY DEF VolumeSector
<1>3. img.layout = "prodos" =>
        /\ FileOf(img)[4] = VolumeSector(4, Seal(img.seal))
        /\ FileOf(img)[11] = VolumeSector(11, Seal(img.seal))
  BY <1>1, FileFacts DEF Volume
<1>4. img.layout = "dos" =>
        /\ FileOf(img)[4] = VolumeSector(11, Seal(img.seal))
        /\ FileOf(img)[11] = VolumeSector(4, Seal(img.seal))
  BY <1>1, FileFacts
<1>5. QED
  BY <1>2, <1>3, <1>4

\* Convert puts the sectors of a DOS-ordered file into their places.
LEMMA ConvertedIsTheVolume ==
  ASSUME NEW img \in Images, img.layout = "dos", base = FileOf(img)
  PROVE  Converted = Volume(Seal(img.seal))
<1>1. ASSUME NEW s \in Sectors PROVE Converted[s] = VolumeSector(s, Seal(img.seal))
  <2>1. Converted[s] = base[DosSector(s)]
    BY MapsInterleave DEF Converted
  <2>2. base[DosSector(s)] = VolumeSector(DosSector(DosSector(s)), Seal(img.seal))
    BY Interleave, FileFacts
  <2>3. QED
    BY <2>1, <2>2, Interleave
<1>2. QED
  BY <1>1 DEF Converted, Volume

-----------------------------------------------------------------------------
(* Ciphers *)

\* Nothing is combined with {}, one password changes every byte, and two leave those
\* for which they have the same character.
LEMMA PlainBytes ==
  ASSUME NEW b, NEW h, NEW p, NEW q, NEW pos
  PROVE  /\ InPlain(Half(b, h, {}), pos) /\ HighInPlain(Half(b, h, {}), pos)
         /\ ~InPlain(Half(b, h, {p}), pos)
         /\ InPlain(Half(b, h, Combined({p}, {q})), pos) <=> SameChar(p, q, pos)
         /\ SameChar(p, q, pos) => HighInPlain(Half(b, h, Combined({p}, {q})), pos)
<1>1. \A S : Half(b, h, S).seal = S
  BY DEF Half
<1>2. /\ InPlain(Half(b, h, {}), pos) /\ HighInPlain(Half(b, h, {}), pos)
      /\ ~InPlain(Half(b, h, {p}), pos)
  <2>1. {p} \ {p} = {} /\ p \in {p}
    OBVIOUS
  <2>2. ~InPlain(Half(b, h, {p}), pos)
    BY <1>1, <2>1 DEF InPlain
  <2>3. QED
    BY <1>1, <2>2 DEF InPlain, HighInPlain
<1>3. CASE p = q
  <2>1. Combined({p}, {q}) = {} /\ SameChar(p, q, pos)
    BY <1>3 DEF Combined, SameChar
  <2>2. QED
    BY <1>2, <2>1
<1>4. CASE p # q
  <2>1. Combined({p}, {q}) = {p, q} /\ {p, q} \ {p} = {q} /\ {p, q} \ {q} = {p}
    BY <1>4 DEF Combined
  <2>2. SameChar(p, q, pos) <=> SameChar(q, p, pos)
    BY DEF SameChar
  <2>3. SameChar(p, q, pos) => SameHighBits(p, q, pos) /\ SameHighBits(q, p, pos)
    BY DEF SameChar, SameHighBits
  <2>4. InPlain(Half(b, h, {p, q}), pos) <=> SameChar(p, q, pos)
    BY <1>1, <2>1, <2>2 DEF InPlain
  <2>5. SameChar(p, q, pos) => HighInPlain(Half(b, h, {p, q}), pos)
    BY <1>1, <2>1, <2>3 DEF HighInPlain
  <2>6. QED
    BY <1>2, <2>1, <2>4, <2>5
<1>5. QED
  BY <1>3, <1>4

LEMMA HalfFacts ==
  ASSUME NEW b, NEW h, NEW S
  PROVE  /\ Half(b, h, S).block = b /\ Half(b, h, S).half = h /\ Half(b, h, S).seal = S
         /\ b # NumBlocks => Half(b, h, S) \notin Garbage
         /\ b = 2 /\ h = 0 <=> IsHeader(Half(b, h, S))
BY DEF Half, Garbage, Zeros, HeaderLike, IsHeader

LEMMA GarbageFacts ==
  /\ HeaderLike \in Garbage /\ Garbage \subseteq Halves
  /\ \A x \in Garbage : ~IsHeader(x) /\ (IsVolumeDirectoryBlock(x) => x = HeaderLike)
BY DEF Half, Halves, Garbage, Zeros, HeaderLike, NumBlocks, IsHeader, IsVolumeDirectoryBlock

\* What looks like the volume directory is its first half, unless it is combined with one
\* password.
LEMMA DirectoryFacts ==
  /\ IsVolumeDirectoryBlock(Half(2, 0, {}))
  /\ \A p : ~IsVolumeDirectoryBlock(Half(2, 0, {p}))
  /\ \A S : ~IsVolumeDirectoryBlock(Half(5, 1, S))
  /\ \A S : Half(2, 0, S) # HeaderLike
<1>1. 2 # NumBlocks /\ 5 # NumBlocks
  BY DEF NumBlocks
<1>2. \A S : Half(2, 0, S) # HeaderLike /\ Half(5, 1, S) # HeaderLike
  BY <1>1, HalfFacts, GarbageFacts
<1>3. \A S : IsHeader(Half(2, 0, S)) /\ ~IsHeader(Half(5, 1, S))
  BY HalfFacts
<1>4. IsVolumeDirectoryBlock(Half(2, 0, {}))
  BY <1>3, PlainBytes DEF IsVolumeDirectoryBlock
<1>5. ASSUME NEW p PROVE ~IsVolumeDirectoryBlock(Half(2, 0, {p}))
  BY <1>2, PlainBytes DEF IsVolumeDirectoryBlock
<1>6. QED
  BY <1>2, <1>3, <1>4, <1>5 DEF IsVolumeDirectoryBlock

LEMMA CombinedType ==
  ASSUME NEW S \in SUBSET Passwords, NEW q \in Passwords
  PROVE  Combined(S, {q}) \in SUBSET Passwords /\ Combined({}, {q}) = {q}
BY DEF Combined

LEMMA DecipheredFacts ==
  /\ \A b, h, S, q : Deciphered(Half(b, h, S), q) = Half(b, h, Combined(S, {q}))
  /\ \A x \in Halves \ Garbage, q \in Passwords : Deciphered(x, q) \in Halves
<1>1. ASSUME NEW b, NEW h, NEW S, NEW q
      PROVE  Deciphered(Half(b, h, S), q) = Half(b, h, Combined(S, {q}))
  BY DEF Half, Deciphered
<1>2. ASSUME NEW x \in Halves \ Garbage, NEW q \in Passwords PROVE Deciphered(x, q) \in Halves
  <2>1. x \in [block: 0 .. NumBlocks - 1, half: {0, 1}, seal: SUBSET Passwords]
    BY DEF Halves
  <2>2. Combined(x.seal, {q}) \in SUBSET Passwords
    BY <2>1, CombinedType
  <2>3. Deciphered(x, q) = [x EXCEPT !.seal = Combined(x.seal, {q})]
    BY DEF Deciphered
  <2>4. QED
    BY <2>1, <2>2, <2>3 DEF Halves
<1>3. QED
  BY <1>1, <1>2

LEMMA DeobfuscatedFacts ==
  ASSUME NEW src, src[1] \in Halves \ Garbage, src[2] \in Halves \ Garbage,
         NEW dst \in Halves \X Halves, password \in Passwords \cup {NULL}
  PROVE  /\ Deobfuscated(src, dst) \in Halves \X Halves
         /\ password = NULL => Deobfuscated(src, dst) = dst
         /\ password # NULL => \A k \in {1, 2} :
              Deobfuscated(src, dst)[k] = Deciphered(src[k], password)
BY DecipheredFacts DEF Deobfuscated

\* Deciphering block 2 combines its seal with the password.
LEMMA BlockDeciphered ==
  ASSUME NEW p, NEW q, base = Volume({p})
  PROVE  BlockWritten(2, <<Deciphered(base[4], q), Deciphered(base[5], q)>>)
           = Volume(Combined({p}, {q}))
<1> DEFINE S == Combined({p}, {q})
<1>1. 4 \in Sectors /\ 5 \in Sectors /\ \A s \in Sectors : s \div 2 = 2 => s = 4 \/ s = 5
  BY DEF Sectors, NumBlocks
<1>2. base[4] = Half(2, 0, {p}) /\ base[5] = Half(2, 1, {p})
  BY <1>1 DEF Volume, VolumeSector
<1>3. Deciphered(base[4], q) = Half(2, 0, S) /\ Deciphered(base[5], q) = Half(2, 1, S)
  BY <1>2, DecipheredFacts
<1> HIDE DEF S
<1>4. ASSUME NEW s \in Sectors
      PROVE  [base EXCEPT ![4] = Half(2, 0, S), ![5] = Half(2, 1, S)][s] = VolumeSector(s, S)
  <2>1. base = [x \in Sectors |-> VolumeSector(x, {p})]
    BY DEF Volume
  <2>2. VolumeSector(4, S) = Half(2, 0, S) /\ VolumeSector(5, S) = Half(2, 1, S)
    BY DEF VolumeSector
  <2>3. s # 4 /\ s # 5 => VolumeSector(s, S) = VolumeSector(s, {p})
    BY <1>1 DEF VolumeSector
  <2>4. QED
    BY <1>1, <2>1, <2>2, <2>3
<1>5. [base EXCEPT ![4] = Half(2, 0, S), ![5] = Half(2, 1, S)] = Volume(S)
  BY <1>4 DEF Volume
<1>6. BlockWritten(2, <<Deciphered(base[4], q), Deciphered(base[5], q)>>)
        = [base EXCEPT ![4] = Deciphered(base[4], q), ![5] = Deciphered(base[5], q)]
  BY DEF BlockWritten
<1>7. QED
  BY <1>3, <1>5, <1>6 DEF S

-----------------------------------------------------------------------------
(* The guesses *)

LookInv ==
  /\ TypeOK
  /\ GuessInv
  /\ ProgressInv

\* What holds in a state in which the file is in memory.
LEMMA InMemory ==
  ASSUME LookInv, pc \in InFile
  PROVE  /\ image \in Images /\ image.usable /\ base = FileOf(image)
         /\ image.seal \in Passwords \cup {NULL} /\ image.layout \in {"prodos", "dos"}
         /\ base \in [Sectors -> Halves \ Garbage] /\ base \in [Sectors -> Halves]
         /\ image.layout = "prodos" =>
              base[4] = Half(2, 0, Seal(image.seal)) /\ base[11] = Half(5, 1, {})
         /\ image.layout = "dos" =>
              base[11] = Half(2, 0, Seal(image.seal)) /\ base[4] = Half(5, 1, {})
<1>1. pc # "start" /\ pc # "failed"
  BY DEF InFile
<1>2. /\ image \in Images /\ image.usable /\ base = FileOf(image)
      /\ image.seal \in Passwords \cup {NULL} /\ image.layout \in {"prodos", "dos"}
  BY <1>1 DEF LookInv, GuessInv, Images
<1>3. base \in [Sectors -> Halves \ Garbage] /\ base \in [Sectors -> Halves]
  BY <1>2, FileFacts
<1>4. QED
  BY <1>2, <1>3, SectorsLookedAt

\* A sector of the file looks like the volume directory only if it is, and in plain.
LEMMA HeaderInPlain ==
  ASSUME LookInv, pc \in InFile
  PROVE  /\ IsVolumeDirectoryBlock(base[4]) <=> image.layout = "prodos" /\ image.seal = NULL
         /\ IsVolumeDirectoryBlock(base[11]) <=> image.layout = "dos" /\ image.seal = NULL
<1>1. CASE image.seal = NULL
  BY <1>1, InMemory, DirectoryFacts DEF Seal
<1>2. CASE image.seal # NULL
  BY <1>2, InMemory, DirectoryFacts DEF Seal
<1>3. QED
  BY <1>1, <1>2

\* Enciphered, it looks like one with a password that has the characters for the bytes
\* that are tested.
LEMMA HeaderDeciphered ==
  ASSUME LookInv, pc \in InFile, password \in Passwords, NEW n \in {4, 11}
  PROVE  IsVolumeDirectoryBlock(Deciphered(base[n], password)) <=>
           /\ image.layout = (IF n = 4 THEN "prodos" ELSE "dos")
           /\ image.seal # NULL /\ Passes
<1> DEFINE x == Deciphered(base[n], password)
<1>1. \/ base[n] = Half(2, 0, Seal(image.seal)) /\ image.layout = (IF n = 4 THEN "prodos" ELSE "dos")
      \/ base[n] = Half(5, 1, {}) /\ image.layout # (IF n = 4 THEN "prodos" ELSE "dos")
  BY InMemory
<1>2. CASE base[n] = Half(5, 1, {}) /\ image.layout # (IF n = 4 THEN "prodos" ELSE "dos")
  <2>1. x = Half(5, 1, Combined({}, {password}))
    BY <1>2, DecipheredFacts
  <2>2. QED
    BY <1>2, <2>1, DirectoryFacts
<1>3. CASE base[n] = Half(2, 0, Seal(image.seal)) /\ image.layout = (IF n = 4 THEN "prodos" ELSE "dos")
  <2>1. x = Half(2, 0, Combined(Seal(image.seal), {password}))
    BY <1>3, DecipheredFacts
  <2>2. CASE image.seal = NULL
    <3>1. Combined(Seal(image.seal), {password}) = {password}
      BY <2>2, CombinedType DEF Seal
    <3>2. QED
      BY <2>1, <2>2, <3>1, DirectoryFacts
  <2>3. CASE image.seal # NULL
    BY <1>3, <2>1, <2>3 DEF Passes, Left, Seal
  <2>4. QED
    BY <2>2, <2>3
<1>4. QED
  BY <1>1, <1>2, <1>3

\* A password as good as the right one leaves block 2 in plain.
LEMMA SameKeyPasses ==
  ASSUME image.seal = NULL \/ SameKey(password, image.seal)
  PROVE  /\ Passes
         /\ FieldsInPlain(Half(2, 0, Left)) /\ TotalInPlain(Half(2, 0, Left))
<1>1. \A pos \in {0, 1, 4, 33, 35, 36, 41, 42} :
        InPlain(Half(2, 0, Left), pos) /\ HighInPlain(Half(2, 0, Left), pos)
  <2>1. CASE image.seal = NULL
    BY <2>1, PlainBytes DEF Left
  <2>2. CASE image.seal # NULL
    <3>1. \A pos \in {0, 1, 4, 33, 35, 36, 41, 42} : SameChar(image.seal, password, pos)
      BY <2>2 DEF SameKey, SameChar, Bytes
    <3>2. QED
      BY <2>2, <3>1, PlainBytes DEF Left
  <2>3. QED
    BY <2>1, <2>2
<1>2. IsHeader(Half(2, 0, Left))
  BY HalfFacts
<1>3. QED
  BY <1>1, <1>2 DEF Passes, IsVolumeDirectoryBlock, FieldsInPlain, TotalInPlain

LEMMA LeftType ==
  ASSUME image \in Images, image.seal = NULL \/ password \in Passwords
  PROVE  Left \in SUBSET Passwords
BY CombinedType DEF Left, Images

LEMMA OpenStep ==
  ASSUME LookInv, NEW img \in Images, Open(img)
  PROVE  LookInv'
<1>1. pc = "start" /\ image' = img /\ pc' \in {"block", "failed"}
      /\ (pc' = "block" => img.usable /\ base' = FileOf(img))
      /\ (pc' = "failed" => ~img.usable /\ base' = base)
  BY DEF Open
<1>2. UNCHANGED <<password, converted, dirty, tmp, changed, header, given>>
  BY DEF Open, nameVars
<1>3. TypeOK'
  BY <1>1, <1>2, FileFacts DEF LookInv, TypeOK
<1>4. GuessInv'
  BY <1>1, <1>2 DEF LookInv, GuessInv, InFile
<1>5. ProgressInv'
  BY <1>1, <1>2 DEF ProgressInv, PasswordAtHand
<1>6. QED
  BY <1>3, <1>4, <1>5 DEF LookInv

LEMMA TryBlockStep ==
  ASSUME LookInv, TryBlock
  PROVE  LookInv'
<1>1. /\ pc = "block" /\ pc \in InFile
      /\ pc' = IF IsVolumeDirectoryBlock(base[4]) THEN "validate" ELSE "deobfuscate"
      /\ UNCHANGED <<image, password, base, converted, dirty, tmp, changed, header, given>>
  BY DEF TryBlock, nameVars, InFile
<1>2. /\ pc' = "validate" => image.seal = NULL /\ base = Volume({})
      /\ pc' = "deobfuscate" => image.layout = "dos" \/ image.seal # NULL
  BY <1>1, HeaderInPlain, InMemory, FileFacts DEF Seal
<1>3. TypeOK'
  BY <1>1 DEF LookInv, TypeOK
<1>4. pc' = "validate" => base = Volume(Left) /\ Passes /\ base[4] # HeaderLike
  <2>1. pc' = "validate" => Left = {} /\ base[4] = Half(2, 0, {})
    BY <1>2, VolumeType DEF Left
  <2>2. QED
    BY <1>2, <2>1, DirectoryFacts DEF Passes
<1>5. Left' = Left /\ (Passes' <=> Passes)
  BY <1>1 DEF Left, Passes
<1>6. GuessInv'
  BY <1>1, <1>2, <1>4, <1>5, InMemory DEF LookInv, GuessInv, InFile
<1>7. ProgressInv'
  BY <1>1, <1>2, <1>4 DEF ProgressInv, PasswordAtHand
<1>8. QED
  BY <1>3, <1>6, <1>7 DEF LookInv

LEMMA TrySectorStep ==
  ASSUME LookInv, TrySector
  PROVE  LookInv'
<1>1. /\ pc = "sector" /\ pc \in InFile
      /\ UNCHANGED <<image, password, dirty, tmp, changed, header, given>>
      /\ \/ /\ IsVolumeDirectoryBlock(base[11])
            /\ base' = Converted /\ converted' = TRUE /\ pc' = "validate"
         \/ /\ ~IsVolumeDirectoryBlock(base[11])
            /\ base' = base /\ converted' = converted /\ pc' = "again"
  BY DEF TrySector, nameVars, InFile
<1>2. /\ pc' = "validate" => image.seal = NULL /\ base' = Volume({})
      /\ pc' = "again" => ~(image.layout = "dos" /\ image.seal = NULL)
  BY <1>1, HeaderInPlain, InMemory, ConvertedIsTheVolume DEF Seal
<1>3. Volume({}) \in [Sectors -> Halves] /\ Volume({})[4] = Half(2, 0, {})
  BY VolumeType
<1>4. TypeOK'
  <2>1. base' \in {<<>>} \cup [Sectors -> Halves] /\ converted' \in BOOLEAN
    BY <1>1, <1>2, <1>3 DEF LookInv, TypeOK
  <2>2. pc' \in {"validate", "again"}
    BY <1>1
  <2>3. QED
    BY <1>1, <2>1, <2>2 DEF LookInv, TypeOK
<1>5. pc' = "validate" => base' = Volume(Left) /\ Passes /\ base'[4] # HeaderLike
  <2>1. pc' = "validate" => Left = {}
    BY <1>2 DEF Left
  <2>2. QED
    BY <1>2, <1>3, <2>1, DirectoryFacts DEF Passes
<1>6. Left' = Left /\ (Passes' <=> Passes)
  BY <1>1 DEF Left, Passes
<1>7. GuessInv'
  <2>1. pc' \in {"validate", "again"} /\ (pc' = "again" => base' = base)
    BY <1>1
  <2>2. pc' = "again" => ~IsVolumeDirectoryBlock(tmp[1])
    BY <1>1 DEF LookInv, GuessInv
  <2>3. QED
    BY <1>1, <1>2, <1>3, <1>5, <1>6, <2>1, <2>2, InMemory DEF GuessInv, InFile
<1>8. ProgressInv'
  BY <1>1, <1>2, <1>5 DEF LookInv, ProgressInv, PasswordAtHand
<1>9. QED
  BY <1>4, <1>7, <1>8 DEF LookInv

LEMMA BlockWrittenType ==
  ASSUME base \in [Sectors -> Halves], NEW blk \in Halves \X Halves
  PROVE  BlockWritten(2, blk) \in [Sectors -> Halves] /\ BlockWritten(2, blk)[4] = blk[1]
<1>1. 4 \in Sectors /\ 5 \in Sectors
  BY DEF Sectors, NumBlocks
<1>2. blk[1] \in Halves /\ blk[2] \in Halves
  OBVIOUS
<1>3. BlockWritten(2, blk) = [base EXCEPT ![4] = blk[1], ![5] = blk[2]]
  BY DEF BlockWritten
<1>4. QED
  BY <1>1, <1>2, <1>3

\* The pair that a guess deciphers, and what comes of it.
LEMMA PlainFacts ==
  ASSUME TypeOK, base \in [Sectors -> Halves \ Garbage], NEW n \in {4, 11}
  PROVE  LET plain == Deobfuscated(<<base[n], base[n + 1]>>, tmp) IN
         /\ plain \in Halves \X Halves
         /\ password = NULL => plain = tmp
         /\ password # NULL => /\ plain[1] = Deciphered(base[n], password)
                               /\ plain[2] = Deciphered(base[n + 1], password)
<1>1. n \in Sectors /\ n + 1 \in Sectors
  BY DEF Sectors, NumBlocks
<1>2. base[n] \in Halves \ Garbage /\ base[n + 1] \in Halves \ Garbage
  BY <1>1
<1>3. tmp \in Halves \X Halves /\ password \in Passwords \cup {NULL}
  BY DEF TypeOK
<1> DEFINE src == <<base[n], base[n + 1]>>
<1>4. src[1] = base[n] /\ src[2] = base[n + 1]
  OBVIOUS
<1> HIDE DEF src
<1>5. /\ Deobfuscated(src, tmp) \in Halves \X Halves
      /\ password = NULL => Deobfuscated(src, tmp) = tmp
      /\ password # NULL => \A k \in {1, 2} :
           Deobfuscated(src, tmp)[k] = Deciphered(src[k], password)
  BY <1>2, <1>3, <1>4, DeobfuscatedFacts
<1>6. QED
  BY <1>4, <1>5 DEF src

LEMMA TryDeobfuscatedStep ==
  ASSUME LookInv, TryDeobfuscated
  PROVE  LookInv'
<1> DEFINE plain == Deobfuscated(<<base[4], base[5]>>, tmp)
<1>1. /\ pc = "deobfuscate" /\ pc \in InFile /\ tmp' = plain
      /\ UNCHANGED <<image, password, converted, changed, header, given>>
      /\ \/ /\ IsVolumeDirectoryBlock(plain[1])
            /\ base' = BlockWritten(2, plain) /\ dirty' = TRUE /\ pc' = "validate"
         \/ /\ ~IsVolumeDirectoryBlock(plain[1])
            /\ base' = base /\ dirty' = dirty /\ pc' = "sector"
  <2>1. Block(2) = <<base[4], base[5]>>
    BY DEF Block
  <2>2. QED
    BY <2>1 DEF TryDeobfuscated, nameVars, InFile
<1>2. /\ plain \in Halves \X Halves
      /\ password = NULL => plain = tmp
      /\ password # NULL => plain = <<Deciphered(base[4], password), Deciphered(base[5], password)>>
  BY InMemory, PlainFacts, <1>1 DEF LookInv
<1> HIDE DEF plain
<1>3. /\ BlockWritten(2, plain) \in [Sectors -> Halves]
      /\ BlockWritten(2, plain)[4] = plain[1]
  BY <1>1, <1>2, InMemory, BlockWrittenType
<1>4. tmp \in Garbage \X Garbage /\ password \in Passwords \cup {NULL}
  BY <1>1 DEF LookInv, GuessInv, TypeOK
<1>5. base' \in [Sectors -> Halves] /\ dirty' \in BOOLEAN /\ pc' \in {"validate", "sector"}
  <2>1. base' \in [Sectors -> Halves]
    BY <1>1, <1>3, InMemory
  <2>2. dirty' \in BOOLEAN
    BY <1>1 DEF LookInv, TypeOK
  <2>3. pc' \in {"validate", "sector"}
    BY <1>1
  <2>4. QED
    BY <2>1, <2>2, <2>3
<1>6. TypeOK'
  BY <1>1, <1>2, <1>5 DEF LookInv, TypeOK
<1>7. CASE password = NULL
  <2>1. plain[1] \in Garbage
    BY <1>2, <1>4, <1>7
  <2>2. pc' = "validate" => base'[4] = HeaderLike
    BY <1>1, <1>3, <2>1, GarbageFacts
  <2>3. GuessInv'
    BY <1>1, <1>5, <2>2, InMemory DEF LookInv, GuessInv, InFile
  <2>4. ProgressInv'
    BY <1>1, <1>7 DEF ProgressInv, PasswordAtHand
  <2>5. QED
    BY <1>6, <2>3, <2>4 DEF LookInv
<1>8. CASE password # NULL
  <2>1. password \in Passwords
    BY <1>4, <1>8
  <2>2. IsVolumeDirectoryBlock(plain[1]) <=>
          image.layout = "prodos" /\ image.seal # NULL /\ Passes
    <3>1. plain[1] = Deciphered(base[4], password)
      BY <1>2, <1>8
    <3>2. QED
      BY <1>1, <2>1, <3>1, HeaderDeciphered
  <2>3. pc' = "validate" =>
          /\ base' = Volume(Left) /\ Passes /\ base'[4] # HeaderLike
          /\ image.seal # NULL
    <3>1. SUFFICES ASSUME pc' = "validate"
                   PROVE  /\ base' = Volume(Left) /\ Passes /\ base'[4] # HeaderLike
                          /\ image.seal # NULL
      OBVIOUS
    <3>2. /\ image.layout = "prodos" /\ image.seal # NULL /\ Passes
          /\ base' = BlockWritten(2, plain)
      BY <1>1, <2>2, <3>1
    <3>3. base = Volume({image.seal})
      BY <1>1, <3>2, InMemory, FileFacts DEF Seal
    <3>4. base' = Volume(Left)
      BY <1>2, <1>8, <3>2, <3>3, BlockDeciphered DEF Left
    <3>5. Volume(Left)[4] = Half(2, 0, Left)
      BY <2>1, <1>1, InMemory, LeftType, VolumeType
    <3>6. QED
      BY <3>2, <3>4, <3>5, DirectoryFacts
  <2>4. Left' = Left /\ (Passes' <=> Passes)
    BY <1>1 DEF Left, Passes
  <2>5. GuessInv'
    <3>1. pc' = "sector" => base' = base /\ ~IsVolumeDirectoryBlock(tmp'[1])
      BY <1>1
    <3>2. QED
      BY <1>1, <1>5, <1>8, <2>3, <2>4, <3>1, InMemory DEF GuessInv, InFile
  <2>6. ProgressInv'
    <3>1. PasswordAtHand' => PasswordAtHand
      BY <1>1 DEF PasswordAtHand
    <3>2. PasswordAtHand => Passes
      BY SameKeyPasses DEF PasswordAtHand
    <3>3. PasswordAtHand /\ ~IsVolumeDirectoryBlock(plain[1]) => image.layout = "dos"
      BY <1>1, <2>2, <3>2, InMemory DEF LookInv, ProgressInv
    <3>4. QED
      BY <1>1, <2>3, <3>1, <3>3 DEF ProgressInv
  <2>7. QED
    BY <1>6, <2>5, <2>6 DEF LookInv
<1>9. QED
  BY <1>7, <1>8

LEMMA TrySectorDeobfuscatedStep ==
  ASSUME LookInv, TrySectorDeobfuscated
  PROVE  LookInv'
<1> DEFINE plain == Deobfuscated(<<base[11], base[12]>>, tmp)
<1>1. /\ pc = "again" /\ pc \in InFile /\ tmp' = plain
      /\ UNCHANGED <<image, password, dirty, changed, header, given>>
      /\ \/ /\ IsVolumeDirectoryBlock(plain[1])
            /\ base' = Converted /\ converted' = TRUE /\ pc' = "reread"
         \/ /\ ~IsVolumeDirectoryBlock(plain[1])
            /\ base' = base /\ converted' = converted /\ pc' = "failed"
  <2>1. TwoSectors(11) = <<base[11], base[12]>>
    BY DEF TwoSectors
  <2>2. QED
    BY <2>1 DEF TrySectorDeobfuscated, SectorHeaderFound, nameVars, InFile
<1>2. /\ plain \in Halves \X Halves
      /\ password = NULL => plain = tmp
      /\ password # NULL => plain[1] = Deciphered(base[11], password)
  BY InMemory, PlainFacts, <1>1 DEF LookInv
<1> HIDE DEF plain
<1>3. ~IsVolumeDirectoryBlock(tmp[1]) /\ password \in Passwords \cup {NULL}
  BY <1>1 DEF LookInv, GuessInv, TypeOK
<1>4. IsVolumeDirectoryBlock(plain[1]) <=>
        password # NULL /\ image.layout = "dos" /\ image.seal # NULL /\ Passes
  BY <1>1, <1>2, <1>3, HeaderDeciphered
<1>5. pc' = "reread" =>
        /\ base' = Volume({image.seal}) /\ image.seal # NULL
        /\ password # NULL /\ Passes
  BY <1>1, <1>4, InMemory, ConvertedIsTheVolume DEF Seal
<1>6. base' \in [Sectors -> Halves]
  <2>1. pc' = "reread" => {image.seal} \in SUBSET Passwords
    BY <1>1, <1>5, InMemory
  <2>2. QED
    BY <1>1, <1>5, <2>1, InMemory, VolumeType
<1>7. pc' \in {"reread", "failed"} /\ converted' \in BOOLEAN
  BY <1>1 DEF LookInv, TypeOK
<1>8. TypeOK'
  BY <1>1, <1>2, <1>6, <1>7 DEF LookInv, TypeOK
<1>9. Passes' <=> Passes
  BY <1>1 DEF Left, Passes
<1>10. GuessInv'
  BY <1>1, <1>5, <1>7, <1>9, InMemory DEF GuessInv, InFile
<1>11. ProgressInv'
  <2>1. PasswordAtHand' => PasswordAtHand
    BY <1>1 DEF PasswordAtHand
  <2>2. PasswordAtHand => Passes
    BY SameKeyPasses DEF PasswordAtHand
  <2>3. PasswordAtHand => IsVolumeDirectoryBlock(plain[1])
    BY <1>1, <1>4, <2>2 DEF LookInv, ProgressInv, PasswordAtHand
  <2>4. QED
    BY <1>1, <2>1, <2>3 DEF ProgressInv
<1>12. QED
  BY <1>8, <1>10, <1>11 DEF LookInv

LEMMA RereadStep ==
  ASSUME LookInv, Reread
  PROVE  LookInv'
<1> DEFINE plain == Deobfuscated(<<base[4], base[5]>>, tmp)
<1>1. /\ pc = "reread" /\ tmp' = plain /\ base' = BlockWritten(2, plain)
      /\ dirty' = TRUE /\ pc' = "validate"
      /\ UNCHANGED <<image, password, converted, changed, header, given>>
  BY DEF Reread, Block, nameVars
<1>2. /\ image \in Images /\ image.usable /\ image.seal \in Passwords /\ image.seal # NULL
      /\ base = Volume({image.seal})
      /\ ~changed => password # NULL /\ Passes
  BY <1>1 DEF LookInv, GuessInv, Images
<1>3. base \in [Sectors -> Halves \ Garbage] /\ base \in [Sectors -> Halves]
  BY <1>2, VolumeType
<1>4. /\ plain \in Halves \X Halves
      /\ password # NULL => plain = <<Deciphered(base[4], password), Deciphered(base[5], password)>>
  BY <1>3, PlainFacts DEF LookInv
<1> HIDE DEF plain
<1>5. base' \in [Sectors -> Halves]
  BY <1>1, <1>3, <1>4, BlockWrittenType
<1>6. ~changed => base' = Volume(Left) /\ base'[4] # HeaderLike
  <2>1. SUFFICES ASSUME ~changed PROVE base' = Volume(Left) /\ base'[4] # HeaderLike
    OBVIOUS
  <2>2. password \in Passwords /\ password # NULL
    BY <1>2, <2>1 DEF LookInv, TypeOK
  <2>3. base' = Volume(Left)
    BY <1>1, <1>2, <1>4, <2>2, BlockDeciphered DEF Left
  <2>4. Volume(Left)[4] = Half(2, 0, Left)
    BY <1>2, <2>2, LeftType, VolumeType
  <2>5. QED
    BY <2>3, <2>4, DirectoryFacts
<1>7. TypeOK'
  BY <1>1, <1>4, <1>5 DEF LookInv, TypeOK
<1>8. Left' = Left /\ (Passes' <=> Passes)
  BY <1>1 DEF Left, Passes
<1>9. GuessInv'
  BY <1>1, <1>2, <1>5, <1>6, <1>8 DEF GuessInv, InFile
<1>10. ProgressInv'
  BY <1>1, <1>6 DEF ProgressInv, PasswordAtHand
<1>11. QED
  BY <1>7, <1>9, <1>10 DEF LookInv

\* In the state that is validated, but for the header's name.
LEMMA AcceptLook ==
  ASSUME LookInv, Accept, header' \in [byte: 0 .. 255, name: [1 .. FILENAME_LENGTH -> Character]],
         given' \in Seq(Character)
  PROVE  LookInv'
<1>1. /\ pc = "validate" /\ pc' = "open" /\ FieldsInPlain(base[4])
      /\ UNCHANGED <<image, password, base, converted, dirty, tmp, changed>>
  BY DEF Accept
<1>2. base[4] # HeaderLike
  BY <1>1, GarbageFacts DEF FieldsInPlain
<1>3. TypeOK'
  BY <1>1 DEF LookInv, TypeOK
<1>4. Left' = Left /\ (Passes' <=> Passes) /\ (FieldsInPlain(base[4])' <=> FieldsInPlain(base[4]))
  BY <1>1 DEF Left, Passes
<1>5. GuessInv'
  BY <1>1, <1>2, <1>4 DEF LookInv, GuessInv, InFile
<1>6. ProgressInv'
  BY <1>1 DEF ProgressInv, PasswordAtHand
<1>7. QED
  BY <1>3, <1>5, <1>6 DEF LookInv

LEMMA RefuseStep ==
  ASSUME LookInv, Refuse
  PROVE  LookInv'
<1>1. /\ pc = "validate" /\ pc' = "failed"
      /\ ~(FieldsInPlain(base[4]) /\ TotalInPlain(base[4]) /\ image.total)
      /\ UNCHANGED <<image, password, base, converted, dirty, tmp, changed, header, given>>
  BY DEF Refuse, nameVars
<1>2. TypeOK'
  BY <1>1 DEF LookInv, TypeOK
<1>3. GuessInv'
  BY <1>1 DEF LookInv, GuessInv, InFile
<1>4. PasswordAtHand => ~image.total
  <2>1. SUFFICES ASSUME PasswordAtHand PROVE ~image.total
    OBVIOUS
  <2>2. base[4] # HeaderLike /\ ~changed
    BY <1>1, <2>1 DEF LookInv, ProgressInv, PasswordAtHand
  <2>3. base = Volume(Left) /\ image \in Images /\ password \in Passwords
    BY <1>1, <2>1, <2>2 DEF LookInv, GuessInv, TypeOK, PasswordAtHand
  <2>4. base[4] = Half(2, 0, Left)
    BY <2>3, LeftType, VolumeType
  <2>5. QED
    BY <1>1, <2>1, <2>4, SameKeyPasses DEF PasswordAtHand
<1>5. ProgressInv'
  BY <1>1, <1>4 DEF ProgressInv, PasswordAtHand
<1>6. QED
  BY <1>2, <1>3, <1>5 DEF LookInv

LEMMA ChangePasswordStep ==
  ASSUME LookInv, NEW q \in Passwords \cup {NULL}, ChangePassword(q)
  PROVE  LookInv'
<1>1. /\ password' = q /\ (pc # "start" => changed') /\ changed' \in BOOLEAN
      /\ UNCHANGED <<pc, image, base, converted, dirty, tmp, header, given>>
  BY DEF ChangePassword, nameVars, LookInv, TypeOK
<1>2. TypeOK'
  BY <1>1 DEF LookInv, TypeOK
<1>3. image.seal = NULL => Left' = Left /\ (Passes' <=> Passes)
  BY <1>1 DEF Left, Passes
<1>4. FieldsInPlain(base[4])' <=> FieldsInPlain(base[4])
  BY <1>1
<1>5. GuessInv'
  BY <1>1, <1>3, <1>4 DEF LookInv, GuessInv, InFile
<1>6. ProgressInv'
  BY <1>1 DEF ProgressInv, PasswordAtHand
<1>7. QED
  BY <1>2, <1>5, <1>6 DEF LookInv

-----------------------------------------------------------------------------
(* Names *)

LEMMA CapitalsType ==
  ASSUME NEW name \in Seq(Character)
  PROVE  /\ InCapitals(name) \in Seq(Character)
         /\ Len(InCapitals(name)) = Len(name)
<1>1. Len(name) \in Nat /\ \A k \in 1 .. Len(name) : name[k] \in Character
  BY LenProperties, ElementOfSeq
<1>2. \A c \in Character : Upper(c) \in Character
  BY DEF Upper, Character
<1>3. InCapitals(name) \in [1 .. Len(name) -> Character]
  BY <1>1, <1>2 DEF InCapitals
<1>4. QED
  BY <1>1, <1>3

LEMMA FieldFacts ==
  ASSUME NEW name \in Seq(Character), NEW rest \in Character
  PROVE  /\ NameField(name, rest) \in [1 .. FILENAME_LENGTH -> Character]
         /\ \A k \in 1 .. FILENAME_LENGTH :
              k <= Len(name) => NameField(name, rest)[k] = name[k]
<1>1. Len(name) \in Nat /\ \A k \in 1 .. Len(name) : name[k] \in Character
  BY LenProperties, ElementOfSeq
<1>2. QED
  BY <1>1 DEF NameField, FILENAME_LENGTH

LEMMA LengthByte ==
  ASSUME NEW n, n \in 0 .. FILENAME_LENGTH
  PROVE  /\ 15 * 16 + n \in 0 .. 255
         /\ StorageType(15 * 16 + n) = 15 /\ NameLength(15 * 16 + n) = n
<1>1. 15 * 16 = 240 /\ n \in 0 .. 15
  BY DEF FILENAME_LENGTH
<1>2. 240 + n \in 0 .. 255 /\ (240 + n) \div 16 = 15 /\ (240 + n) % 16 = n
  BY <1>1
<1>3. QED
  BY <1>1, <1>2 DEF StorageType, NameLength

LEMMA NulType == Nul \in Character
BY DEF Nul, Character

\* A name of at most 15 characters, put into the header, is there.
LEMMA NameWritten ==
  ASSUME NEW name \in Seq(Character), Len(name) \in 0 .. FILENAME_LENGTH,
         NEW rest \in Character, given' = name,
         header' = [byte |-> 15 * 16 + Len(name), name |-> NameField(name, rest)]
  PROVE  NameInv' /\ header' \in [byte: 0 .. 255, name: [1 .. FILENAME_LENGTH -> Character]]
<1>1. NameField(name, rest) \in [1 .. FILENAME_LENGTH -> Character]
  BY FieldFacts
<1>2. \A k \in 1 .. Len(name) : NameField(name, rest)[k] = name[k]
  BY FieldFacts DEF FILENAME_LENGTH
<1>3. 15 * 16 + Len(name) \in 0 .. 255
  BY LengthByte
<1>4. QED
  BY <1>1, <1>2, <1>3 DEF NameInv

\* So are the blanks for a name that is not in plain.
LEMMA SpoiltWritten ==
  ASSUME NEW n \in 0 .. FILENAME_LENGTH, given' = SpoiltName(n),
         header' = [byte |-> 15 * 16 + n, name |-> NameField(SpoiltName(n), Space)]
  PROVE  NameInv' /\ header' \in [byte: 0 .. 255, name: [1 .. FILENAME_LENGTH -> Character]]
<1>1. Space \in Character /\ n \in Nat
  <2>1. Space \in Character
    BY DEF Space, Character
  <2>2. QED
    BY <2>1 DEF FILENAME_LENGTH
<1>2. SpoiltName(n) \in [1 .. n -> Character]
  BY <1>1 DEF SpoiltName
<1>3. SpoiltName(n) \in Seq(Character) /\ Len(SpoiltName(n)) = n
  BY <1>1, <1>2
<1>4. QED
  BY <1>1, <1>3, NameWritten

LEMMA NameAtFirst ==
  ASSUME header = HeaderInFile, given = VolumeName
  PROVE  NameInv /\ header \in [byte: 0 .. 255, name: [1 .. FILENAME_LENGTH -> Character]]
<1>1. VolumeName \in Seq(Character) /\ Len(VolumeName) \in 1 .. FILENAME_LENGTH
  BY NameAssumption DEF NameAssumption, IsValidName
<1>2. /\ NameField(VolumeName, Nul) \in [1 .. FILENAME_LENGTH -> Character]
      /\ \A k \in 1 .. Len(VolumeName) : NameField(VolumeName, Nul)[k] = VolumeName[k]
  BY <1>1, FieldFacts, NulType DEF FILENAME_LENGTH
<1>3. 15 * 16 + Len(VolumeName) \in 0 .. 255
  <2>1. Len(VolumeName) \in 0 .. FILENAME_LENGTH
    BY <1>1 DEF FILENAME_LENGTH
  <2>2. QED
    BY <2>1, LengthByte
<1>4. QED
  BY <1>1, <1>2, <1>3 DEF NameInv, HeaderInFile, FILENAME_LENGTH

LEMMA RenameStep ==
  ASSUME OpenInv, NEW name \in Names, NEW rest \in RestOfName, Rename(name, rest)
  PROVE  OpenInv'
<1>1. UNCHANGED <<pc, image, password, base, converted, tmp, changed>> /\ dirty' \in BOOLEAN
  BY DEF Rename, OpenInv, TypeOK, nameVars
<1>2. GuessInv' /\ ProgressInv'
  BY <1>1 DEF OpenInv, GuessInv, ProgressInv, PasswordAtHand, InFile, Left, Passes
<1>3. NameInv' /\ header' \in [byte: 0 .. 255, name: [1 .. FILENAME_LENGTH -> Character]]
  <2>1. CASE IsValidName(name)
    <3>1. name \in Seq(Character) /\ Len(name) \in 1 .. FILENAME_LENGTH
      BY <2>1, NameAssumption DEF NameAssumption, IsValidName
    <3>2. rest \in Character
      <4>1. 1 \in 1 .. Len(VolumeName) /\ VolumeName \in Seq(Character)
        BY NameAssumption DEF NameAssumption, IsValidName, FILENAME_LENGTH
      <4>2. QED
        BY <4>1, NulType, ElementOfSeq DEF RestOfName
    <3>3. WithLength(header.byte, Len(name)) = 15 * 16 + Len(name)
      BY LengthByte DEF OpenInv, NameInv, WithLength
    <3>4. /\ given' = InCapitals(name)
          /\ header' = [byte |-> 15 * 16 + Len(name), name |-> NameField(InCapitals(name), rest)]
      BY <2>1, <3>3 DEF Rename
    <3>5. QED
      BY <3>1, <3>2, <3>4, CapitalsType, NameWritten DEF FILENAME_LENGTH
  <2>2. CASE ~IsValidName(name)
    BY <2>2 DEF Rename, OpenInv, NameInv, TypeOK, nameVars
  <2>3. QED
    BY <2>1, <2>2
<1>4. TypeOK'
  BY <1>1, <1>3 DEF OpenInv, TypeOK, NameInv
<1>5. QED
  BY <1>2, <1>3, <1>4 DEF OpenInv

LEMMA AcceptStep ==
  ASSUME OpenInv, Accept
  PROVE  OpenInv'
<1>1. NameInv' /\ header' \in [byte: 0 .. 255, name: [1 .. FILENAME_LENGTH -> Character]]
  <2>1. CASE NameInPlain(base[4])
    BY <2>1 DEF Accept, OpenInv, NameInv, TypeOK, nameVars
  <2>2. CASE ~NameInPlain(base[4])
    BY <2>2, SpoiltWritten DEF Accept
  <2>3. QED
    BY <2>1, <2>2
<1>2. LookInv'
  BY <1>1, AcceptLook DEF OpenInv, LookInv, NameInv
<1>3. QED
  BY <1>1, <1>2 DEF OpenInv, LookInv

LEMMA NameIsRead ==
  ASSUME NameInv
  PROVE  /\ StorageType(header.byte) = 15
         /\ FileName(header.byte, header.name) = given
<1> DEFINE n == Len(given)
<1>1. n \in 0 .. 15 /\ header.byte = 15 * 16 + n
  BY DEF NameInv, FILENAME_LENGTH
<1>2. StorageType(header.byte) = 15 /\ NameLength(header.byte) = n
  BY <1>1, LengthByte DEF FILENAME_LENGTH
<1>3. \A k \in 1 .. n : header.name[k] \in Character /\ header.name[k] = given[k]
  BY <1>1 DEF NameInv, FILENAME_LENGTH
<1>4. given \in Seq(Character)
  BY DEF NameInv
<1> DEFINE f == SubSeq(header.name, 1, n)
<1>5. FileName(header.byte, header.name) = f
  BY <1>2 DEF FileName
<1>6. /\ f \in Seq(Character)
      /\ Len(f) = IF 1 <= n THEN n - 1 + 1 ELSE 0
      /\ \A k \in 1 .. n - 1 + 1 : f[k] = header.name[1 + k - 1]
  <2>1. 1 \in Int /\ n \in Int
    BY <1>1
  <2>2. QED
    BY <1>3, <2>1, SubSeqProperties
<1> HIDE DEF f
<1>7. Len(f) = n /\ \A k \in 1 .. n : f[k] = header.name[k]
  BY <1>1, <1>6
<1>8. f = given
  BY <1>3, <1>4, <1>6, <1>7, SeqEqual
<1>9. QED
  BY <1>2, <1>5, <1>8

-----------------------------------------------------------------------------
(* The invariant *)

LEMMA InitOpenInv == Init => OpenInv
<1> SUFFICES ASSUME Init PROVE OpenInv
  OBVIOUS
<1>1. NameInv /\ header \in [byte: 0 .. 255, name: [1 .. FILENAME_LENGTH -> Character]]
  BY NameAtFirst DEF Init
<1>2. tmp \in Garbage \X Garbage /\ tmp \in Halves \X Halves
  BY GarbageFacts DEF Init
<1>3. TypeOK
  BY <1>1, <1>2 DEF Init, TypeOK, NameInv
<1>4. GuessInv
  BY <1>2 DEF Init, GuessInv, InFile
<1>5. ProgressInv
  BY DEF Init, ProgressInv, PasswordAtHand
<1>6. QED
  BY <1>1, <1>3, <1>4, <1>5 DEF OpenInv

LEMMA OpenInvStep ==
  ASSUME OpenInv, [Next]_vars
  PROVE  OpenInv'
<1>1. LookInv
  BY DEF OpenInv, LookInv
<1>2. ASSUME LookInv', header' = header, given' = given PROVE OpenInv'
  BY <1>2 DEF OpenInv, LookInv, NameInv
<1>3. ASSUME NEW img \in Images, Open(img) PROVE OpenInv'
  BY <1>1, <1>2, <1>3, OpenStep DEF Open, nameVars
<1>4. CASE TryBlock
  BY <1>1, <1>2, <1>4, TryBlockStep DEF TryBlock, nameVars
<1>5. CASE TryDeobfuscated
  BY <1>1, <1>2, <1>5, TryDeobfuscatedStep DEF TryDeobfuscated, nameVars
<1>6. CASE TrySector
  BY <1>1, <1>2, <1>6, TrySectorStep DEF TrySector, nameVars
<1>7. CASE TrySectorDeobfuscated
  BY <1>1, <1>2, <1>7, TrySectorDeobfuscatedStep DEF TrySectorDeobfuscated, nameVars
<1>8. CASE Reread
  BY <1>1, <1>2, <1>8, RereadStep DEF Reread, nameVars
<1>9. CASE Accept
  BY <1>9, AcceptStep
<1>10. CASE Refuse
  BY <1>1, <1>2, <1>10, RefuseStep DEF Refuse, nameVars
<1>11. ASSUME NEW name \in Names, NEW rest \in RestOfName, Rename(name, rest) PROVE OpenInv'
  BY <1>11, RenameStep
<1>12. ASSUME NEW q \in Passwords \cup {NULL}, ChangePassword(q) PROVE OpenInv'
  BY <1>1, <1>2, <1>12, ChangePasswordStep DEF ChangePassword, nameVars
<1>13. CASE UNCHANGED vars
  BY <1>13 DEF OpenInv, TypeOK, GuessInv, ProgressInv, PasswordAtHand, NameInv, InFile,
               Left, Passes, vars, nameVars
<1>14. QED
  BY <1>3, <1>4, <1>5, <1>6, <1>7, <1>8, <1>9, <1>10, <1>11, <1>12, <1>13 DEF Next

LEMMA Invariant == Spec => []OpenInv
<1>1. Init => OpenInv
  BY InitOpenInv
<1>2. OpenInv /\ [Next]_vars => OpenInv'
  BY OpenInvStep
<1>3. QED
  BY <1>1, <1>2, PTL DEF Spec

-----------------------------------------------------------------------------
(* Theorems *)

\* Image, buffers and header keep their types, whatever is opened and renamed.
THEOREM TypeCorrect == Spec => []TypeOK
<1>1. OpenInv => TypeOK
  BY DEF OpenInv
<1>2. QED
  BY <1>1, Invariant, PTL

\* A volume that opens has its half blocks in their places, whether the image is in
\* blocks or in sectors and whatever the memory that nothing initialises holds; they are
\* in plain but for the bytes of block 2 that are not tested and for which the password
\* has another character (_GetVolumeDirectoryBlock, Convert, S_Deobfuscate).
THEOREM OpenedRightly == Spec => []OpenedIsTheVolume
<1>1. ASSUME OpenInv, pc = "open", image.seal = NULL \/ ~changed
      PROVE  /\ base = Volume(Left) /\ Passes /\ FieldsInPlain(Half(2, 0, Left))
             /\ image.seal # NULL => password # NULL
  <2>1. base[4] # HeaderLike /\ FieldsInPlain(base[4])
    BY <1>1 DEF OpenInv, GuessInv
  <2>2. /\ base = Volume(Left) /\ Passes /\ image \in Images
        /\ image.seal # NULL => password # NULL /\ password \in Passwords
    BY <1>1, <2>1 DEF OpenInv, GuessInv, TypeOK
  <2>3. base[4] = Half(2, 0, Left)
    BY <2>2, LeftType, VolumeType
  <2>4. QED
    BY <2>1, <2>2, <2>3
<1>2. ASSUME base = Volume(Left)
      PROVE  /\ \A s \in Sectors : base[s].block = s \div 2 /\ base[s].half = s % 2
             /\ \A s \in Sectors \ {4, 5} : base[s].seal = {}
             /\ base[4] = Half(2, 0, Left) /\ base[5] = Half(2, 1, Left)
  <2>1. \A s \in Sectors : base[s] = VolumeSector(s, Left)
    BY <1>2 DEF Volume
  <2>2. /\ \A s \in Sectors : s \div 2 = 2 => s \in {4, 5}
        /\ 4 \in Sectors /\ 5 \in Sectors
    BY DEF Sectors, NumBlocks
  <2>3. \A s \in Sectors \ {4, 5} : VolumeSector(s, Left).seal = {}
    BY <2>2, HalfFacts DEF VolumeSector
  <2>4. VolumeSector(4, Left) = Half(2, 0, Left) /\ VolumeSector(5, Left) = Half(2, 1, Left)
    BY DEF VolumeSector
  <2>5. \A s \in Sectors : VolumeSector(s, Left).block = s \div 2 /\ VolumeSector(s, Left).half = s % 2
    BY HalfFacts DEF VolumeSector
  <2>6. QED
    BY <2>1, <2>2, <2>3, <2>4, <2>5
<1>3. ASSUME image.seal # NULL => password # NULL, base[4] = Half(2, 0, Left),
             base[5] = Half(2, 1, Left), NEW pos \in Bytes
      PROVE  InPlain(base[4 + pos \div 256], pos) <=>
               image.seal = NULL \/ (password # NULL /\ SameChar(password, image.seal, pos))
  <2>1. pos \div 256 = 0 \/ pos \div 256 = 1
    BY DEF Bytes
  <2>2. PICK h : base[4 + pos \div 256] = Half(2, h, Left)
    BY <1>3, <2>1
  <2>3. CASE image.seal = NULL
    <3>1. Left = {}
      BY <2>3 DEF Left
    <3>2. InPlain(Half(2, h, {}), pos)
      BY PlainBytes
    <3>3. QED
      BY <2>2, <2>3, <3>1, <3>2
  <2>4. CASE image.seal # NULL
    <3>1. SameChar(password, image.seal, pos) <=> SameChar(image.seal, password, pos)
      BY DEF SameChar
    <3>2. Left = Combined({image.seal}, {password})
      BY <2>4 DEF Left
    <3>3. InPlain(Half(2, h, Combined({image.seal}, {password})), pos)
            <=> SameChar(image.seal, password, pos)
      BY PlainBytes
    <3>4. QED
      BY <1>3, <2>2, <2>4, <3>1, <3>2, <3>3
  <2>5. QED
    BY <2>3, <2>4
<1>4. ASSUME Passes, FieldsInPlain(Half(2, 0, Left))
      PROVE  \A pos \in Tested : InPlain(Half(2, 0, Left), pos)
  BY <1>4, DirectoryFacts DEF Passes, IsVolumeDirectoryBlock, FieldsInPlain, Tested
<1>5. ASSUME OpenInv PROVE OpenedIsTheVolume
  <2>1. SUFFICES ASSUME pc = "open", image.seal = NULL \/ ~changed
                 PROVE  /\ \A s \in Sectors : base[s].block = s \div 2 /\ base[s].half = s % 2
                        /\ \A s \in Sectors \ {4, 5} : base[s].seal = {}
                        /\ \A pos \in Bytes :
                             InPlain(base[4 + pos \div 256], pos) <=>
                               image.seal = NULL \/ (password # NULL /\ SameChar(password, image.seal, pos))
                        /\ \A pos \in Tested : InPlain(base[4], pos)
    BY DEF OpenedIsTheVolume
  <2>2. QED
    BY <1>1, <1>2, <1>3, <1>4, <1>5, <2>1
<1>6. QED
  BY <1>5, Invariant, PTL

\* Two passwords of the same length, of at most four characters.
Short(p, q) == Len(p) = Len(q) /\ Len(p) <= 4

\* A protected volume that opens with a password as short and long as its own.
ShortPasswordsNoticed ==
  /\ pc = "open" /\ ~changed /\ image.seal # NULL /\ password # NULL
  /\ Short(password, image.seal)
  => SameKey(password, image.seal)

\* The bytes that are tested meet every character of a short password: a wrong one does
\* not open the volume, as a longer one may (S_IsVolumeDirectoryBlock, volume_t).
THEOREM ShortPasswordsAreNoticed == Spec => []ShortPasswordsNoticed
<1>1. ASSUME OpenedIsTheVolume, TypeOK, OpenInv PROVE ShortPasswordsNoticed
  <2>1. SUFFICES ASSUME pc = "open", ~changed, image.seal # NULL, password # NULL,
                        Short(password, image.seal), NEW pos \in Bytes
                 PROVE  SameChar(password, image.seal, pos)
    BY DEF ShortPasswordsNoticed, SameKey
  <2>2. \A j \in {0, 1, 35} : SameChar(password, image.seal, j)
    <3>1. \A j \in {0, 1, 35} : j \in Tested /\ j \in Bytes /\ 4 + j \div 256 = 4
      BY DEF Tested, Bytes
    <3>2. /\ \A j \in Bytes : InPlain(base[4 + j \div 256], j) <=>
               image.seal = NULL \/ (password # NULL /\ SameChar(password, image.seal, j))
          /\ \A j \in Tested : InPlain(base[4], j)
      BY <1>1, <2>1 DEF OpenedIsTheVolume
    <3>3. QED
      BY <2>1, <3>1, <3>2
  <2>3. password \in Passwords /\ image.seal \in Passwords
    BY <1>1, <2>1 DEF TypeOK, OpenInv, GuessInv, Images
  <2> DEFINE n == Len(password) - 1
  <2>4. n \in {1, 2, 3} /\ n = Len(image.seal) - 1
    <3>1. Len(password) \in 2 .. 31
      BY <2>3, PasswordAssumption DEF PasswordAssumption
    <3>2. Len(password) = Len(image.seal) /\ Len(password) <= 4
      BY <2>1 DEF Short
    <3>3. Len(password) \in {2, 3, 4}
      <4>1. \A m \in 2 .. 31 : m <= 4 => m \in {2, 3, 4}
        OBVIOUS
      <4>2. QED
        BY <3>1, <3>2, <4>1, Zenon
    <3>4. QED
      BY <3>2, <3>3
  <2> HIDE DEF n
  <2>5. PICK j \in {0, 1, 35} : pos % n = j % n
    <3>1. CASE n = 1
      BY <3>1 DEF Bytes
    <3>2. CASE n = 2
      BY <3>2 DEF Bytes
    <3>3. CASE n = 3
      BY <3>3 DEF Bytes
    <3>4. QED
      BY <2>4, <3>1, <3>2, <3>3
  <2>6. \A k : /\ KeyChar(password, k) = password[(k % n) + 1]
              /\ KeyChar(image.seal, k) = image.seal[(k % n) + 1]
    BY <2>4 DEF KeyChar, n
  <2>7. SameChar(password, image.seal, j)
    BY <2>2, <2>5
  <2>8. QED
    BY <2>5, <2>6, <2>7 DEF SameChar
<1>2. QED
  BY <1>1, Invariant, OpenedRightly, TypeCorrect, PTL

\* With its password at hand, a sound image is never given up.
THEOREM PasswordOpens == Spec => []OpensWithPassword
<1>1. OpenInv => OpensWithPassword
  BY DEF OpenInv, ProgressInv, PasswordAtHand, OpensWithPassword
<1>2. QED
  BY <1>1, Invariant, PTL

\* After any renames the header's length and name are those given last (Rename).
THEOREM NameIsGiven == Spec => []NameIsTheLastGiven
<1>1. OpenInv => NameIsTheLastGiven
  BY NameIsRead DEF OpenInv, NameIsTheLastGiven
<1>2. QED
  BY <1>1, Invariant, PTL
-----------------------------------------------------------------------------
(* The statistics of a volume: BlocksUsed *)

\* The loop over the root directory has counted the blocks up to the one that it has
\* come from.
RootInv ==
  /\ loop = "root" =>
       /\ num_blocks \in 1 .. Len(root)
       /\ pointer = IF num_blocks < Len(root) THEN root[num_blocks + 1] ELSE 0
  /\ loop = "counted" => RootIsCounted

\* What is left to count goes with the bytes that have been read.
LeftInv ==
  /\ loop = "outer" => blocks = 0 \/ blocks = total - (pointer - BITMAP) * BLOCK_SIZE
  /\ loop = "inner" => blocks = total - (pointer - 1 - BITMAP) * BLOCK_SIZE - i

\* The blocks whose bits are in the first n bytes of the bitmap.
Within(n) == 0 .. n * BITS - 1

\* On a floppy disk each byte read has counted for one block, less the free ones that
\* it stands for; the first block of the bitmap is enough.
FloppyInv ==
  total <= BLOCK_SIZE =>
    /\ loop = "outer" => \/ pointer = BITMAP /\ blocks = total /\ used = 0
                         \/ blocks = 0 /\ used = total - Cardinality(free)
    /\ loop = "inner" => /\ bitmap = BITMAP /\ blocks = total - i
                         /\ used = i - Cardinality(free \cap Within(i))
    /\ CountIsRight

CountInv == CountTypeOK /\ RootInv /\ LeftInv /\ FloppyInv

-----------------------------------------------------------------------------
(* Lemmas *)

LEMMA SizesOfVolume ==
  /\ BLOCK_SIZE \in Nat \ {0} /\ BITS \in Nat \ {0} /\ UINT \in Nat \ {0}
  /\ BITMAP \in Nat \ {0}
  /\ \A n \in Totals : n \in Nat /\ BITMAP < n /\ n < UINT
BY SizeAssumption DEF SizeAssumption

\* The next block of the k-th is the one after it.
LEMMA NextOfBlock ==
  ASSUME root \in RootChains, NEW k \in DOMAIN root
  PROVE  NextOf(root[k]) = IF k < Len(root) THEN root[k + 1] ELSE 0
<1> DEFINE place == CHOOSE l \in DOMAIN root : root[l] = root[k]
<1>1. /\ root \in Seq(2 .. BITMAP - 1) /\ root # <<>>
      /\ \A j, l \in DOMAIN root : root[j] = root[l] => j = l
  BY SizeAssumption DEF SizeAssumption
<1>2. /\ Len(root) \in Nat /\ DOMAIN root = 1 .. Len(root) /\ Len(root) # 0
      /\ Len(root) \in DOMAIN root
  BY <1>1, LenProperties, EmptySeq
<1>3. root[k] = root[Len(root)] <=> k = Len(root)
  BY <1>1, <1>2
<1>4. place = k
  BY <1>1, Zenon
<1>5. NextOf(root[k]) = IF root[k] = root[Len(root)] THEN 0 ELSE root[1 + place]
  BY Zenon DEF NextOf
<1> HIDE DEF place
<1>6. QED
  BY <1>2, <1>3, <1>4, <1>5

LEMMA RootFacts ==
  ASSUME root \in RootChains
  PROVE  /\ root \in Seq(2 .. BITMAP - 1) /\ Len(root) \in Nat \ {0} /\ root[1] = 2
         /\ DOMAIN root = 1 .. Len(root) /\ BITMAP > 2
         /\ \A k \in 1 .. Len(root) : root[k] \in 2 .. BITMAP - 1
<1>1. root \in Seq(2 .. BITMAP - 1) /\ root # <<>> /\ root[1] = 2
  BY SizeAssumption DEF SizeAssumption
<1>2. Len(root) \in Nat \ {0} /\ DOMAIN root = 1 .. Len(root)
  BY <1>1
<1>3. \A k \in 1 .. Len(root) : root[k] \in 2 .. BITMAP - 1
  BY <1>1, ElementOfSeq
<1>4. BITMAP > 2
  BY <1>1, <1>2, <1>3, SizesOfVolume
<1>5. QED
  BY <1>1, <1>2, <1>3, <1>4

LEMMA FreeFinite ==
  ASSUME CountTypeOK, NEW S
  PROVE  IsFiniteSet(free \cap S) /\ Cardinality(free \cap S) \in Nat
<1>1. IsFiniteSet(0 .. total - 1)
  <2>1. total \in Nat
    BY SizesOfVolume DEF CountTypeOK
  <2>2. QED
    BY <2>1, FS_Interval
<1>2. free \cap S \in SUBSET (0 .. total - 1)
  BY DEF CountTypeOK
<1>3. QED
  BY <1>1, <1>2, FS_Subset, FS_CardinalityType

LEMMA PopcountType ==
  ASSUME CountTypeOK, NEW b, NEW j
  PROVE  Popcount(b, j) \in Nat
<1>1. filler \in Nat
  BY SizesOfVolume DEF CountTypeOK
<1>2. \A S : Cardinality(free \cap S) \in Nat
  BY FreeFinite
<1>3. Popcount(b, j) = filler \/ \E S : Popcount(b, j) = Cardinality(free \cap S)
  BY Zenon DEF Popcount
<1>4. QED
  BY <1>1, <1>2, <1>3

LEMMA DivAtLeastOne ==
  ASSUME NEW a \in Nat, NEW b \in Nat \ {0}, b <= a
  PROVE  a \div b \in Nat /\ a \div b >= 1
OBVIOUS

LEMMA TimesAtLeast ==
  ASSUME NEW a \in Nat, NEW b \in Nat \ {0}
  PROVE  a * b \in Nat /\ a * b >= a
OBVIOUS

LEMMA NothingWithin ==
  Within(0) = {} /\ \A S : Cardinality(S \cap Within(0)) = 0
<1>1. 0 * BITS = 0
  BY SizesOfVolume
<1>2. Within(0) = {}
  BY <1>1 DEF Within
<1>3. QED
  BY <1>2, FS_EmptySet

\* There is a bitmap.
LEMMA BitmapNotEmpty ==
  ASSUME CountTypeOK
  PROVE  BitmapBlocks(total) \in Nat \ {0}
<1>1. total \in Nat \ {0}
  BY SizesOfVolume DEF CountTypeOK
<1>2. BitmapBytes(total) \in Nat \ {0}
  BY <1>1, SizesOfVolume, DivAtLeastOne DEF BitmapBytes
<1>3. QED
  BY <1>2, SizesOfVolume, DivAtLeastOne DEF BitmapBlocks

\* One more byte of the bitmap stands for BITS more blocks.
LEMMA OneMoreByte ==
  ASSUME CountTypeOK, NEW n \in Nat
  PROVE  Cardinality(free \cap Within(n + 1))
           = Cardinality(free \cap Within(n)) + Popcount(BITMAP, n)
<1> DEFINE A == free \cap Within(n)
           B == free \cap (n * BITS .. n * BITS + BITS - 1)
<1>1. Popcount(BITMAP, n) = Cardinality(B)
  <2>1. BITMAP \in Nat /\ BitmapBlocks(total) \in Nat \ {0} /\ BLOCK_SIZE \in Nat
    BY BitmapNotEmpty, SizesOfVolume
  <2>2. (BITMAP - BITMAP) * BLOCK_SIZE + n = n /\ ~(BITMAP >= BITMAP + BitmapBlocks(total))
    BY <2>1
  <2>3. QED
    <3> DEFINE byte == (BITMAP - BITMAP) * BLOCK_SIZE + n
    <3>1. Popcount(BITMAP, n) = Cardinality(free \cap (byte * BITS .. byte * BITS + BITS - 1))
      BY <2>2, Zenon DEF Popcount
    <3>2. byte = n
      BY <2>2
    <3> HIDE DEF byte
    <3>3. QED
      BY <3>1, <3>2
<1>2. free \subseteq Nat /\ n * BITS \in Nat /\ (n + 1) * BITS = n * BITS + BITS
  <2>1. BITS \in Nat /\ total \in Nat
    BY SizesOfVolume DEF CountTypeOK
  <2>2. free \subseteq 0 .. total - 1
    BY DEF CountTypeOK
  <2>3. n * BITS \in Nat /\ (n + 1) * BITS = n * BITS + BITS
    BY <2>1
  <2>4. QED
    BY <2>2, <2>3
<1>3. A \cap B = {} /\ A \cup B = free \cap Within(n + 1)
  BY <1>2, SizesOfVolume DEF Within
<1>4. IsFiniteSet(A) /\ IsFiniteSet(B) /\ Cardinality(A) \in Nat /\ Cardinality(B) \in Nat
  BY FreeFinite
<1> HIDE DEF A, B
<1>5. Cardinality(A \cup B) = Cardinality(A) + Cardinality(B)
  BY <1>3, <1>4, FS_Union, FS_EmptySet
<1>6. QED
  BY <1>1, <1>3, <1>5 DEF A

\* The bits of as many bytes as there are blocks are all.
LEMMA WithinTotal ==
  ASSUME CountTypeOK
  PROVE  free \cap Within(total) = free
<1> DEFINE m == total * BITS
<1>1. total \in Nat /\ m >= total /\ m \in Nat /\ free \subseteq 0 .. total - 1
  BY SizesOfVolume, TimesAtLeast DEF CountTypeOK
<1>2. Within(total) = 0 .. m - 1
  BY DEF Within
<1> HIDE DEF m
<1>3. free \subseteq 0 .. m - 1
  BY <1>1
<1>4. QED
  BY <1>2, <1>3

-----------------------------------------------------------------------------
(* The steps *)

LEMMA InitCounts ==
  CountInit => CountInv
<1> SUFFICES ASSUME CountInit PROVE CountInv
  OBVIOUS
<1>1. /\ total \in Nat /\ BITMAP < total /\ total < UINT /\ UINT \in Nat
      /\ BITMAP \in Nat /\ BLOCK_SIZE \in Nat \ {0}
  BY SizesOfVolume DEF CountInit
<1>2. /\ Len(root) \in Nat \ {0} /\ root[1] = 2 /\ DOMAIN root = 1 .. Len(root) /\ BITMAP > 2
      /\ \A k \in 1 .. Len(root) : root[k] \in 2 .. BITMAP - 1
  BY RootFacts DEF CountInit
<1>3. free \subseteq 0 .. total - 1
  <2>1. /\ (total + BITS - 1) \in Nat
        /\ BitmapBytes(total) \in Nat /\ BitmapBlocks(total) \in Nat
    BY <1>1, SizesOfVolume, DivAtLeastOne DEF BitmapBytes, BitmapBlocks
  <2>2. QED
    BY <1>1, <2>1 DEF CountInit
<1>4. NextOf(2) = IF 1 < Len(root) THEN root[2] ELSE 0
  <2>1. NextOf(root[1]) = IF 1 < Len(root) THEN root[1 + 1] ELSE 0
    BY <1>2, NextOfBlock DEF CountInit
  <2>2. QED
    BY <1>2, <2>1
<1>5. CountTypeOK
  <2>1. pointer \in IF loop \in {"root", "counted"} THEN 0 .. BITMAP - 1 ELSE BITMAP .. total
    BY <1>1, <1>2, <1>4 DEF CountInit
  <2>2. 0 \in 0 .. BLOCK_SIZE /\ 2 \in 2 .. total - 1 /\ 1 \in 1 .. Len(root)
        /\ total \in 0 .. UINT - 1
    BY <1>1, <1>2
  <2>3. QED
    BY <1>3, <2>1, <2>2 DEF CountInit, CountTypeOK
<1>6. RootInv
  BY <1>2, <1>4 DEF CountInit, RootInv
<1>7. LeftInv /\ FloppyInv
  BY <1>1 DEF CountInit, LeftInv, FloppyInv, CountIsRight
<1>8. QED
  BY <1>5, <1>6, <1>7 DEF CountInv

LEMMA OuterCounts ==
  ASSUME CountInv, Outer
  PROVE  CountInv'
<1>1. /\ CountTypeOK /\ LeftInv /\ FloppyInv /\ loop = "outer" /\ blocks > 0
      /\ UNCHANGED <<input, blocks, used, num_blocks>>
  BY DEF CountInv, Outer
<1>2. /\ total \in Nat /\ BITMAP < total /\ total < UINT /\ BITMAP \in Nat /\ BITMAP > 2
      /\ BLOCK_SIZE \in Nat \ {0} /\ pointer \in BITMAP .. total
  BY <1>1, SizesOfVolume, RootFacts DEF CountTypeOK
<1>3. CASE pointer < total
  <2>1. loop' = "inner" /\ bitmap' = pointer /\ pointer' = pointer + 1 /\ i' = 0
    BY <1>3 DEF Outer
  <2>2. CountTypeOK'
    <3>1. 0 \in 0 .. BLOCK_SIZE
      BY <1>2
    <3>2. QED
      BY <1>1, <1>2, <1>3, <2>1, <3>1 DEF CountTypeOK, input
  <2>3. RootInv'
    BY <2>1 DEF RootInv
  <2>4. LeftInv'
    <3>1. blocks = total - (pointer - BITMAP) * BLOCK_SIZE
      BY <1>1 DEF LeftInv, CountTypeOK
    <3>2. (pointer - BITMAP) * BLOCK_SIZE \in Int /\ pointer + 1 - 1 - BITMAP = pointer - BITMAP
      BY <1>2
    <3>3. QED
      BY <1>1, <1>2, <2>1, <3>1, <3>2 DEF LeftInv, input
  <2>5. FloppyInv'
    <3>1. Within(0)' = Within(0)
      BY DEF Within
    <3>2. total <= BLOCK_SIZE => pointer = BITMAP /\ blocks = total /\ used = 0
      BY <1>1, <1>2 DEF FloppyInv
    <3>3. QED
      BY <1>1, <1>2, <2>1, <3>1, <3>2, NothingWithin DEF FloppyInv, input,
         CountIsRight
  <2>6. QED
    BY <2>2, <2>3, <2>4, <2>5 DEF CountInv
<1>4. CASE ~(pointer < total)
  <2>1. loop' = "terminated" /\ UNCHANGED <<bitmap, pointer, i>>
    BY <1>4 DEF Outer
  <2>2. QED
    BY <1>1, <2>1 DEF CountInv, CountTypeOK, RootInv, LeftInv, FloppyInv,
       CountIsRight, input
<1>5. QED
  BY <1>3, <1>4

LEMMA InnerCounts ==
  ASSUME CountInv, Inner
  PROVE  CountInv'
<1>1. /\ CountTypeOK /\ LeftInv /\ FloppyInv /\ loop = "inner" /\ i < BLOCK_SIZE /\ blocks > 0
      /\ used' = used + (1 - Popcount(bitmap, i)) /\ blocks' = (blocks - 1) % UINT
      /\ i' = i + 1 /\ UNCHANGED <<input, loop, pointer, bitmap, num_blocks>>
  BY DEF CountInv, Inner, MoreBytes, UsedOfByte, BlocksOfByte
<1>2. /\ total \in Nat /\ UINT \in Nat \ {0} /\ BLOCK_SIZE \in Nat \ {0} /\ BITMAP \in Nat
      /\ pointer \in Int /\ i \in Nat /\ used \in Int /\ blocks \in 0 .. UINT - 1
  BY <1>1, SizesOfVolume DEF CountTypeOK
<1>3. blocks' = blocks - 1
  BY <1>1, <1>2
<1>4. Popcount(bitmap, i) \in Nat
  BY <1>1, PopcountType
<1>5. CountTypeOK'
  BY <1>1, <1>2, <1>3, <1>4 DEF CountTypeOK, input
<1>6. RootInv' /\ LeftInv'
  <2> DEFINE b == (pointer - 1 - BITMAP) * BLOCK_SIZE
  <2>1. b \in Int /\ b' = b /\ total' = total
    BY <1>1, <1>2 DEF input
  <2>2. blocks = total - b - i
    BY <1>1 DEF LeftInv
  <2> HIDE DEF b
  <2>3. blocks' = total' - b' - i'
    BY <1>1, <1>2, <1>3, <2>1, <2>2
  <2>4. QED
    BY <1>1, <2>3 DEF RootInv, LeftInv, b
<1>7. FloppyInv'
  <2> SUFFICES ASSUME total <= BLOCK_SIZE
               PROVE  /\ bitmap = BITMAP /\ blocks' = total - i'
                      /\ used' = i' - Cardinality(free \cap Within(i'))
    BY <1>1 DEF FloppyInv, input, Within, CountIsRight
  <2>1. bitmap = BITMAP /\ blocks = total - i /\ used = i - Cardinality(free \cap Within(i))
    BY <1>1 DEF FloppyInv
  <2>2. Cardinality(free \cap Within(i + 1)) = Cardinality(free \cap Within(i)) + Popcount(BITMAP, i)
    BY <1>1, <1>2, OneMoreByte
  <2>3. Cardinality(free \cap Within(i)) \in Nat
    BY <1>1, FreeFinite
  <2>4. QED
    BY <1>1, <1>2, <1>3, <1>4, <2>1, <2>2, <2>3
<1>8. QED
  BY <1>5, <1>6, <1>7 DEF CountInv

LEMMA InnerEndsCounts ==
  ASSUME CountInv, InnerEnds
  PROVE  CountInv'
<1>1. /\ CountTypeOK /\ LeftInv /\ FloppyInv /\ loop = "inner" /\ loop' = "outer"
      /\ i >= BLOCK_SIZE \/ blocks = 0
      /\ UNCHANGED <<input, pointer, bitmap, i, blocks, used, num_blocks>>
  BY SizesOfVolume DEF CountInv, InnerEnds, MoreBytes, CountTypeOK
<1>2. /\ total \in Nat /\ BLOCK_SIZE \in Nat \ {0} /\ BITMAP \in Nat
      /\ pointer \in Int /\ i \in 0 .. BLOCK_SIZE /\ blocks \in Nat
  BY <1>1, SizesOfVolume DEF CountTypeOK
<1>3. CountTypeOK' /\ RootInv'
  BY <1>1 DEF CountTypeOK, RootInv, input
<1>4. LeftInv'
  <2>1. (pointer - 1 - BITMAP) * BLOCK_SIZE + BLOCK_SIZE = (pointer - BITMAP) * BLOCK_SIZE
    BY <1>2
  <2>2. (pointer - 1 - BITMAP) * BLOCK_SIZE \in Int
    BY <1>2
  <2>3. QED
    BY <1>1, <1>2, <2>1, <2>2 DEF LeftInv, input
<1>5. FloppyInv'
  <2>1. ASSUME total <= BLOCK_SIZE PROVE blocks = 0 /\ used = total - Cardinality(free)
    <3>1. blocks = total - i /\ used = i - Cardinality(free \cap Within(i))
      BY <1>1, <2>1 DEF FloppyInv
    <3>2. i = total /\ blocks = 0
      BY <1>1, <1>2, <2>1, <3>1
    <3>3. QED
      BY <1>1, <3>1, <3>2, WithinTotal
  <2>2. QED
    BY <1>1, <2>1 DEF FloppyInv, input, CountIsRight
<1>6. QED
  BY <1>3, <1>4, <1>5 DEF CountInv

LEMMA RootBlockCounts ==
  ASSUME CountInv, RootBlock
  PROVE  CountInv'
<1>1. /\ CountTypeOK /\ loop = "root" /\ pointer # 0 /\ num_blocks \in 1 .. Len(root)
      /\ pointer = IF num_blocks < Len(root) THEN root[num_blocks + 1] ELSE 0
      /\ num_blocks' = num_blocks + 1 /\ bitmap' = pointer /\ pointer' = NextOf(pointer)
      /\ UNCHANGED <<input, loop, i, blocks, used>>
  BY DEF CountInv, RootBlock, MoreRootBlocks, RootInv
<1>2. /\ Len(root) \in Nat /\ DOMAIN root = 1 .. Len(root) /\ BITMAP \in Nat
      /\ \A k \in 1 .. Len(root) : root[k] \in 2 .. BITMAP - 1
      /\ total \in Nat /\ BITMAP < total
  BY <1>1, RootFacts, SizesOfVolume DEF CountTypeOK
<1>3. num_blocks < Len(root) /\ num_blocks + 1 \in 1 .. Len(root) /\ pointer = root[num_blocks + 1]
  BY <1>1, <1>2
<1>4. pointer' = IF num_blocks' < Len(root) THEN root[num_blocks' + 1] ELSE 0
  <2>1. NextOf(root[num_blocks + 1])
          = IF num_blocks + 1 < Len(root) THEN root[num_blocks + 1 + 1] ELSE 0
    BY <1>1, <1>2, <1>3, NextOfBlock DEF CountTypeOK
  <2>2. QED
    BY <1>1, <1>3, <2>1
<1>5. pointer' \in 0 .. BITMAP - 1
  BY <1>1, <1>2, <1>3, <1>4
<1>6. bitmap' \in 2 .. total - 1
  BY <1>1, <1>2, <1>3
<1>7. CountTypeOK'
  BY <1>1, <1>3, <1>5, <1>6 DEF CountTypeOK, input
<1>8. RootInv' /\ LeftInv' /\ FloppyInv'
  BY <1>1, <1>3, <1>4 DEF RootInv, LeftInv, FloppyInv, CountIsRight, input
<1>9. QED
  BY <1>7, <1>8 DEF CountInv

LEMMA StepCounts ==
  ASSUME CountInv, [CountNext]_countVars
  PROVE  CountInv'
<1>1. CASE Return
  <2>1. /\ CountTypeOK /\ FloppyInv /\ loop = "outer" /\ blocks = 0 /\ loop' = "done"
        /\ UNCHANGED <<input, pointer, bitmap, i, blocks, used, num_blocks>>
    BY <1>1 DEF Return, CountInv
  <2>2. total <= BLOCK_SIZE => used = total - Cardinality(free)
    <3>1. total \in Nat \ {0}
      BY <2>1, SizesOfVolume DEF CountTypeOK
    <3>2. QED
      BY <2>1, <3>1 DEF FloppyInv
  <2>3. CountTypeOK'
    BY <2>1 DEF CountTypeOK, input
  <2>4. RootInv' /\ LeftInv'
    BY <2>1 DEF RootInv, LeftInv
  <2>5. FloppyInv'
    BY <2>1, <2>2 DEF FloppyInv, CountIsRight, input
  <2>6. QED
    BY <2>3, <2>4, <2>5 DEF CountInv
<1>2. CASE RootEnds
  <2>1. /\ CountTypeOK /\ loop = "root" /\ pointer = 0 /\ loop' = "counted"
        /\ UNCHANGED <<input, pointer, bitmap, i, blocks, used, num_blocks>>
        /\ num_blocks \in 1 .. Len(root)
        /\ pointer = IF num_blocks < Len(root) THEN root[num_blocks + 1] ELSE 0
    BY <1>2 DEF RootEnds, MoreRootBlocks, CountInv, RootInv
  <2>2. num_blocks = Len(root)
    <3>1. Len(root) \in Nat /\ \A k \in 1 .. Len(root) : root[k] \in 2 .. BITMAP - 1
      BY <2>1, RootFacts DEF CountTypeOK
    <3>2. num_blocks < Len(root) => root[num_blocks + 1] # 0
      BY <2>1, <3>1, SizesOfVolume
    <3>3. QED
      BY <2>1, <3>1, <3>2
  <2>3. QED
    BY <2>1, <2>2 DEF CountInv, CountTypeOK, RootInv, RootIsCounted,
       LeftInv, FloppyInv, CountIsRight, input
<1>3. CASE UNCHANGED countVars
  BY <1>3 DEF CountInv, CountTypeOK, RootInv, RootIsCounted, LeftInv,
     FloppyInv, CountIsRight, Within,
     countVars, input
<1>4. QED
  BY <1>1, <1>2, <1>3, OuterCounts, InnerCounts, InnerEndsCounts, RootBlockCounts
     DEF CountNext

LEMMA CountInvariant ==
  CountSpec => []CountInv
BY InitCounts, StepCounts, PTL DEF CountSpec

-----------------------------------------------------------------------------
(* Theorems *)

\* The loops keep to their types.
THEOREM StatisticsTypeCorrect == CountSpec => []CountTypeOK
<1>1. CountInv => CountTypeOK
  BY DEF CountInv, CountTypeOK
<1>2. QED
  BY <1>1, CountInvariant, PTL

\* On every volume of no more blocks than a block has bytes the count is right, whatever
\* is free and whatever lies behind the bitmap (CountBlocksUsed).
THEOREM FloppyCount == CountSpec => []FloppiesAreCounted
<1>1. CountInv => FloppiesAreCounted
  BY DEF CountInv, FloppyInv, FloppiesAreCounted
<1>2. QED
  BY <1>1, CountInvariant, PTL

\* Every block of the root directory is counted, once (CountRootDirectoryBlocks).
THEOREM RootCount == CountSpec => []RootIsCounted
<1>1. CountInv => RootIsCounted
  BY DEF CountInv, RootInv, RootIsCounted
<1>2. QED
  BY <1>1, CountInvariant, PTL

\* The volume bitmap begins within the first blocks, as many as a block has bytes.
BitmapIsNear == BITMAP < BLOCK_SIZE

\* The loop takes too many bytes, but with such a bitmap none of a block behind the last.
THEOREM NoException ==
  ASSUME BitmapIsNear
  PROVE  CountSpec => []NeverTerminates
<1>1. CountInv /\ Outer => loop' # "terminated"
  <2> SUFFICES ASSUME CountInv, Outer PROVE pointer < total /\ loop' # "terminated"
    OBVIOUS
  <2> DEFINE k == pointer - BITMAP
             b == k * BLOCK_SIZE
  <2>1. /\ blocks > 0 /\ blocks = total - b /\ k \in Nat /\ pointer = BITMAP + k
        /\ total \in Nat /\ BITMAP \in Nat /\ BITMAP < total /\ BLOCK_SIZE \in Nat /\ BITMAP < BLOCK_SIZE
    BY SizesOfVolume DEF Outer, CountInv, LeftInv, CountTypeOK, BitmapIsNear
  <2>2. k = 0 \/ b >= BLOCK_SIZE + (k - 1)
    <3>1. CASE k # 0
      <4> DEFINE j == k - 1
      <4>1. j \in Nat /\ b = j * BLOCK_SIZE + BLOCK_SIZE
        BY <2>1, <3>1
      <4>2. j * BLOCK_SIZE \in Nat /\ j * BLOCK_SIZE >= j
        BY <4>1, SizesOfVolume, TimesAtLeast
      <4> HIDE DEF b
      <4>3. QED
        BY <2>1, <4>1, <4>2
    <3>2. QED
      BY <3>1
  <2>3. b \in Int
    BY <2>1
  <2> HIDE DEF b, k
  <2>4. pointer < total
    BY <2>1, <2>2, <2>3
  <2>5. QED
    BY <2>4 DEF Outer
<1>2. CountInv /\ NeverTerminates /\ [CountNext]_countVars => NeverTerminates'
  BY <1>1 DEF NeverTerminates, CountNext, Return, Inner, InnerEnds,
     RootBlock, RootEnds, countVars
<1>3. CountInit => NeverTerminates
  BY DEF CountInit, NeverTerminates
<1>4. QED
  BY <1>2, <1>3, CountInvariant, PTL DEF CountSpec
=============================================================================
