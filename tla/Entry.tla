--------------------------------- MODULE Entry ---------------------------------
(***************************************************************************)
(* What the fields of a directory entry mean: entry_t, directory_entry_t   *)
(* and timestamp_t (source/entry.cxx), with the AppleWorks name            *)
(* (source/util.cxx) and the two forms in which main.cxx passes dates on.  *)
(*                                                                         *)
(* An entry keeps numbers of 8 and 16 bits, which are taken apart by       *)
(* division as the code does by masks and shifts.                          *)
(***************************************************************************)
EXTENDS Integers, Sequences

CONSTANTS
  Letters,       \* the letters and the digits that names are made of
  Digits

ASSUME CharacterAssumption ==
  /\ Letters \cap Digits = {}
  /\ (Letters \cup Digits) \cap {".", " ", "NUL"} = {}

Word == 0 .. 65535

\* The low and the high byte of a word, and bit n of a number.
Low(w) == w % 256
High(w) == w \div 256
Bit(w, n) == (w \div 2 ^ n) % 2 = 1

-----------------------------------------------------------------------------
(* Names *)

\* A letter may be in lower case.
Character == [glyph: Letters, lower: BOOLEAN]
               \cup [glyph: Digits \cup {".", " ", "NUL"}, lower: {FALSE}]

Upper(c) == [c EXCEPT !.lower = FALSE]
Lower(c) == IF c.glyph \in Letters THEN [c EXCEPT !.lower = TRUE] ELSE c
Space == [glyph |-> " ", lower |-> FALSE]
Nul == [glyph |-> "NUL", lower |-> FALSE]

FILENAME_LENGTH == 15

IsValidName(name) ==
  /\ Len(name) \in 1 .. FILENAME_LENGTH
  /\ name[1].glyph \in Letters
  /\ \A k \in 2 .. Len(name) : name[k].glyph \in Letters \cup Digits \cup {"."}

\* The two halves of storage_type_and_name_length.
StorageType(b) == b \div 16
NameLength(b) == b % 16

\* FileName: as many of the 15 bytes as the length says.
FileName(b, file_name) == SubSeq(file_name, 1, NameLength(b))

\* Mutant: the bytes of aux_type are not exchanged.
CaseMaskUnswapped(aux_type) == aux_type

\* AppleWorks keeps the lower case of its file names in aux_type, low byte first.
CaseMask(aux_type) == Low(aux_type) * 256 + High(aux_type)

AppleWorksFileName(name, aux_type) ==
  [k \in 1 .. Len(name) |->
    IF ~Bit(CaseMask(aux_type), 16 - k) THEN name[k]
    ELSE IF name[k].glyph = "." THEN Space
    ELSE Lower(name[k])]

-----------------------------------------------------------------------------
(* Dates *)

Month(date) == (date \div 32) % 16

\* S_DecodeTimestamp: 5 bits of day, 4 of month, 7 of year; minute and hour.
DecodeTimestamp(date, time) ==
  [day |-> date % 32, month |-> Month(date), year |-> date \div 512,
   minute |-> Low(time) % 64, hour |-> High(time) % 32]

\* timestamp_t::AsString prints each field, so the fields stand for the text,
\* but prints "<NO DATE>" for a month that is none.
HasDate(ts) == ts.month \in 1 .. 12

\* Mutant: tm_mon counts from 1.
TmMonOne(month) == month

\* tm_mon counts from 0, tm_year from 1900.
TmMon(month) == month - 1

TmYear(year) == IF year < 70 THEN year + 100 ELSE year

\* The days of 1970 to 2069 (years 70 to 169) before a year and before a month.
DaysBeforeYear(y) == 365 * (y - 70) + (y - 69) \div 4
DaysBeforeMonth(y, m) ==
  <<0, 31, 59, 90, 120, 151, 181, 212, 243, 273, 304, 334>>[m + 1]
    + IF m > 1 /\ y % 4 = 0 THEN 1 ELSE 0

\* mktime, in minutes since 1970.  tm_isdst is 0, so every date is taken as standard
\* time, in summer too.  Months and days may be out of their range.
MkTime(tm_year, tm_mon, tm_mday, tm_hour, tm_min) ==
  LET y == tm_year + tm_mon \div 12
      days == DaysBeforeYear(y) + DaysBeforeMonth(y, tm_mon % 12) + tm_mday - 1
  IN  (days * 24 + tm_hour) * 60 + tm_min

\* All that mktime returns for fields in their bits, day 0 of month 0 of 1970 the first.
Minutes == -32 * 1440 .. DaysBeforeYear(171) * 1440

\* S_ToUnixTime
ToUnixTime(ts) ==
  MkTime(TmYear(ts.year), TmMon(ts.month), ts.day, ts.hour, ts.minute)

\* The date and the standard time of so many minutes since 1970.
LocalTime(t) ==
  LET days == t \div 1440
      y == CHOOSE y \in 69 .. 170 : DaysBeforeYear(y) <= days /\ days < DaysBeforeYear(y + 1)
      inYear == days - DaysBeforeYear(y)
      m == CHOOSE m \in 0 .. 11 :
             /\ DaysBeforeMonth(y, m) <= inYear
             /\ m < 11 => inYear < DaysBeforeMonth(y, m + 1)
  IN  [day |-> inYear - DaysBeforeMonth(y, m) + 1, month |-> m + 1, year |-> y,
       minute |-> t % 60, hour |-> (t \div 60) % 24]

=============================================================================
