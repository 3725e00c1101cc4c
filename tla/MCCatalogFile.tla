----------------------------- MODULE MCCatalogFile -----------------------------
(* Three directories in blocks of two entries; CatalogFile for TLC. *)
EXTENDS CatalogFile

Slot(s) == [i \in 0 .. 2 |-> s[i + 1]]

\* Directory 2 has three blocks, deleted entries and an entry in the last place of a
\* block; 5 is empty; 9 has one entry.
MC_Slots ==
  [k \in {2, 5, 9} |->
    CASE k = 2 -> << Slot(<<Inactive, "a", Inactive>>),
                     Slot(<<Inactive, "b", Inactive>>),
                     Slot(<<"c", Inactive, Inactive>>) >>
      [] k = 5 -> << Slot(<<Inactive, Inactive, Inactive>>) >>
      [] k = 9 -> << Slot(<<Inactive, "d", Inactive>>) >>]

MC_FileCount == [k \in {2, 5, 9} |-> CASE k = 2 -> 3 [] k = 5 -> 0 [] k = 9 -> 1]
=============================================================================
