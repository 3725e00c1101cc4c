------------------------------- MODULE FileTypes -------------------------------
(***************************************************************************)
(* The table of file types (source/filetype.cxx): an unordered_map that    *)
(* every thread reads with operator[], which inserts what it does not      *)
(* find.  Only the keys are modelled, not the names and descriptions.      *)
(***************************************************************************)
EXTENDS Integers

\* Mutant: one code is left out.
UnnamedTypesWithout == {2, 3, 5, 8, 9, 10, 12, 13, 14, 249} \cup (16 .. 24) \cup (28 .. 238)

\* The codes that the table gives a name, and those that it lists without one.
NamedTypes == {0, 1, 4, 6, 11, 15, 25, 26, 27} \cup (239 .. 248) \cup (250 .. 255)
UnnamedTypes == {2, 3, 5, 7, 8, 9, 10, 12, 13, 14, 249} \cup (16 .. 24) \cup (28 .. 238)

FileTypeTable == NamedTypes \cup UnnamedTypes

\* What a uint8_t may be.
TypeCodes == 0 .. 255

\* The keys that lookups have inserted, after file_type_table[type].
GetFileTypeInfo(inserted, type) == inserted \cup ({type} \ FileTypeTable)

\* AppleWorks: database, word processor, spreadsheet.
IsAppleWorksFile(type) == type \in {25, 26, 27}
=============================================================================
