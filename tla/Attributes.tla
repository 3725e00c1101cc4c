------------------------------- MODULE Attributes -------------------------------
(***************************************************************************)
(* What a client learns about an entry: prodosfs_getxattr and              *)
(* prodosfs_listxattr, and the dates of prodosfs_getattr (main.cxx).       *)
(*                                                                         *)
(* A client asks with size 0 how large a buffer it needs, and then with a  *)
(* buffer.  prodosfs_listxattr puts one name after another into it, in the *)
(* order of an unordered_map: any.                                         *)
(*                                                                         *)
(* Nothing of a call outlives it, so one call at a time is enough, but for *)
(* the table of file types, which other callbacks use too.                 *)
(*                                                                         *)
(* No name is one of PathLookup's, so that proofs can extend both.         *)
(***************************************************************************)
EXTENDS Entry, FileTypes

CONSTANTS
  Shown,               \* the entries that the client asks about
  Stamps,              \* dates and times as an entry holds them
  Sizes,               \* sizes of buffers
  ValueLength(_, _),   \* the length of an attribute's value, as text
  SummerTime(_),       \* is daylight saving time in force, at so many minutes?
  NONE

\* storage: storage_type_t; what else of an entry the attributes depend on.
ASSUME AttributesAssumption ==
  /\ \A e \in Shown :
       /\ e.storage \in {1, 2, 3, 13, 15}
       /\ e.type \in TypeCodes
       /\ e.aux_type \in Word
       /\ Len(e.name) \in 1 .. FILENAME_LENGTH
  /\ Stamps \subseteq Word \X Word
  /\ Sizes \subseteq Nat
  /\ NONE \notin Shown \cup Nat

IsFile(e) == e.storage \in {1, 2, 3}
IsDirectory(e) == e.storage = 13
IsRoot(e) == e.storage = 15

\* S_GetAttributes.  Other storage types do not get here, see PathLookup.
GetAttributes(e) ==
  {"prodos.creation_timestamp", "prodos.access", "prodos.version", "prodos.min_version"}
    \cup IF IsFile(e) \/ IsDirectory(e)
         THEN {"prodos.file_type", "prodos.file_type_name",
               "prodos.file_type_description", "prodos.aux_type"}
                \cup IF IsAppleWorksFile(e.type) THEN {"prodos.appleworks_filename"} ELSE {}
         ELSE {"prodos.volume_name", "prodos.file_count", "prodos.total_blocks",
               "prodos.used_blocks", "prodos.image_file"}

AnyAttribute == UNION {GetAttributes(e) : e \in Shown}

\* Names and values are texts, of which only the length is used.
ASSUME TextAssumption ==
  /\ \A a \in AnyAttribute : a # NONE /\ Len(a) \in Nat
  /\ \A e \in Shown : \A a \in GetAttributes(e) : ValueLength(e, a) \in Nat

\* What a call returns when it fails: the errors are negative.
ERANGE == -34
ENODATA == -61

\* The bytes of a name and of a value, with the NUL that ends them.
NameSize(a) == Len(a) + 1
ValueSize(e, a) == ValueLength(e, a) + 1

VARIABLES
  shown,       \* the entry that the client asks about
  inserted,    \* the keys that operator[] has put into file_type_table
  call,        \* where the call is
  name,        \* the attribute of getxattr, NULL for listxattr
  size,        \* the size of the buffer
  attributes,  \* listxattr: the names that are not in the list yet
  position,    \* the bytes written to the buffer
  length,      \* listxattr's length
  result,      \* what the call returns
  told,        \* what the client was told to ask for, NULL if nothing
  stamp,       \* getattr: the entry's date of creation, or of its last change
  unixTime     \* getattr: st_ctim or st_mtim, in minutes

callVars == <<name, size, attributes, position, length, result>>
timeVars == <<stamp, unixTime>>
attrVars == <<shown, inserted, call, callVars, told, timeVars>>

AttrTypeOK ==
  /\ shown \in Shown
  /\ inserted \subseteq TypeCodes
  /\ call \in {"idle", "list", "reply", "stat"}
  /\ name \in AnyAttribute \cup {NONE}
  /\ size \in Nat
  /\ attributes \subseteq GetAttributes(shown)
  /\ {position, length} \subseteq Nat
  /\ result \in Nat \cup {ERANGE, ENODATA}
  /\ told \in Nat \cup {NONE}
  /\ stamp \in Stamps \cup {<<0, 0>>}
  /\ unixTime \in Minutes

AttrInit ==
  /\ shown \in Shown
  /\ inserted = {}
  /\ call = "idle"
  /\ name = NONE
  /\ size = 0
  /\ attributes = {}
  /\ position = 0
  /\ length = 0
  /\ result = 0
  /\ told = NONE
  /\ stamp = <<0, 0>>
  /\ unixTime = 0

\* S_GetAttributes looks up the type of a file or directory.
TypeLookedUp ==
  inserted' = IF IsRoot(shown) THEN inserted ELSE GetFileTypeInfo(inserted, shown.type)

\* The client asks about attribute a (all names if NULL): how large it is, or with a
\* buffer of the size that it was told for this question, or of any other.
Ask(a, n) ==
  /\ call = "idle"
  /\ name' = a
  /\ size' = n
  /\ length' = 0
  /\ told' = IF a = name THEN told ELSE NONE
  /\ TypeLookedUp
  /\ UNCHANGED <<shown, timeVars>>

-----------------------------------------------------------------------------
(* prodosfs_listxattr *)

ListXattr(n) ==
  /\ Ask(NONE, n)
  /\ position' = 0
  /\ attributes' = GetAttributes(shown)
  /\ call' = "list"
  /\ UNCHANGED result

\* Mutant: no room is asked for the NUL.
FitsWithoutNul(a) == Len(a) <= size - position

\* attr.first.length() < remaining
Fits(a) == Len(a) < size - position

ListName(a) ==
  /\ call = "list"
  /\ a \in attributes
  /\ size > 0 => Fits(a)
  /\ attributes' = attributes \ {a}
  /\ position' = IF size > 0 THEN position + NameSize(a) ELSE position
  /\ length' = length + NameSize(a)
  /\ UNCHANGED <<shown, inserted, call, name, size, result, told, timeVars>>

ListOutOfRange(a) ==
  /\ call = "list"
  /\ a \in attributes
  /\ size > 0 /\ ~Fits(a)
  /\ result' = ERANGE
  /\ call' = "reply"
  /\ UNCHANGED <<shown, inserted, name, size, attributes, position, length, told, timeVars>>

ListEnds ==
  /\ call = "list"
  /\ attributes = {}
  /\ result' = length
  /\ call' = "reply"
  /\ UNCHANGED <<shown, inserted, name, size, attributes, position, length, told, timeVars>>

-----------------------------------------------------------------------------
(* prodosfs_getxattr *)

\* Mutant: the size is told without the NUL.
ToldWithoutNul(e, a) == ValueLength(e, a)

Told(e, a) == ValueSize(e, a)

GetXattr(a, n) ==
  LET value_size == Told(shown, a) IN
  /\ Ask(a, n)
  /\ IF a \notin GetAttributes(shown)
     THEN result' = ENODATA /\ position' = 0
     ELSE IF n > 0 /\ n < value_size
     THEN result' = ERANGE /\ position' = 0
     ELSE /\ result' = value_size
          /\ position' = IF n > 0 THEN ValueSize(shown, a) ELSE 0
  /\ call' = "reply"
  /\ attributes' = {}

\* The call returns; the client keeps the size that it is told.
AttrReply ==
  /\ call = "reply"
  /\ told' = IF size = 0 /\ result >= 0 THEN result ELSE told
  /\ call' = "idle"
  /\ size' = 0
  /\ attributes' = {}
  /\ position' = 0
  /\ length' = 0
  /\ result' = 0
  /\ UNCHANGED <<shown, inserted, name, timeVars>>

-----------------------------------------------------------------------------
(* prodosfs_getattr's dates, and other callbacks *)

GetAttr(s) ==
  /\ call = "idle"
  /\ stamp' = s
  /\ unixTime' = ToUnixTime(DecodeTimestamp(s[1], s[2]))
  /\ call' = "stat"
  /\ UNCHANGED <<shown, inserted, callVars, told>>

GetAttrReply ==
  /\ call = "stat"
  /\ stamp' = <<0, 0>>
  /\ unixTime' = 0
  /\ call' = "idle"
  /\ UNCHANGED <<shown, inserted, callVars, told>>

\* A line of .CATALOG, or with option -e the name of a file for readdir.
OtherLookup(type) ==
  /\ inserted' = GetFileTypeInfo(inserted, type)
  /\ UNCHANGED <<shown, call, callVars, told, timeVars>>

AttrNext ==
  \/ \E n \in Sizes : ListXattr(n)
  \/ \E a \in AnyAttribute, n \in Sizes : GetXattr(a, n)
  \/ \E a \in attributes : ListName(a) \/ ListOutOfRange(a)
  \/ ListEnds
  \/ AttrReply
  \/ \E s \in Stamps : GetAttr(s)
  \/ GetAttrReply
  \/ \E type \in TypeCodes : OtherLookup(type)

AttrSpec == AttrInit /\ [][AttrNext]_attrVars

-----------------------------------------------------------------------------
(* Properties *)

\* Neither listxattr nor getxattr writes behind the client's buffer, in whatever order
\* the attributes come (remaining, value_size).
WithinBuffer == size > 0 => position <= size

\* A client that asks with the size that it was told gets the whole list or value, and
\* one with too small a buffer is told so, never given a part.
SizesAgree ==
  call = "reply" /\ told # NONE /\ size > 0 =>
    /\ size >= told => result = told /\ position = told
    /\ size < told => result = ERANGE

\* localtime, by which stat shows what getattr returns: in summer an hour more.
ShownTime(t) == LocalTime(IF SummerTime(t) THEN t + 60 ELSE t)

\* stat shows the date that the attribute and the catalogue show.
StampShown ==
  LET ts == DecodeTimestamp(stamp[1], stamp[2])
      date == ShownTime(unixTime)
  IN  HasDate(ts) /\ ts.year \in 0 .. 99 =>
        [date EXCEPT !.year = @ % 100] = ts /\ date.year \in 70 .. 169

\* What stat shows is, in the calendar, the date that the attribute and the catalogue
\* show, for the dates of the years 1970 to 2069 in two digits that are not in summer,
\* whatever the zone takes for summer (S_ToUnixTime, S_DecodeTimestamp).
DatesAgree == call = "stat" /\ ~SummerTime(unixTime) => StampShown

\* The same for the dates in summer, which mktime takes as standard time because
\* tm_isdst is 0.
SummerDatesAgree == call = "stat" => StampShown

\* No lookup ever inserts into the table, which all threads read without a lock
\* (GetFileTypeInfo's operator[]).
TableUnchanged == inserted = {}
=============================================================================
