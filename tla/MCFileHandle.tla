----------------------------- MODULE MCFileHandle -----------------------------
(* A disk of 11 blocks of 2 bytes whose index blocks hold 2 pointers, with one *)
(* file of each storage type; FileHandle for TLC.                              *)
EXTENDS FileHandle

\* Index blocks: 2 (sapling), 5 (tree: master), 6 and 8 (tree).  The tree leaves a
\* hole, and a pointer after the last block of a file is 0.
MC_Pointers ==
  [b \in 0 .. 10 |->
    CASE b = 2 -> <<3, 4>>
      [] b = 5 -> <<6, 8>>
      [] b = 6 -> <<7, 0>>
      [] b = 8 -> <<9, 10>>
      [] OTHER -> <<0, 0>>]

ZeroBased(s) == [i \in 0 .. 1 |-> s[i + 1]]

MC_PointerTable == [b \in 0 .. 10 |-> ZeroBased(MC_Pointers[b])]

\* Distinct data, with the high bit set and one carriage return (141).
MC_Bytes ==
  [b \in 0 .. 10 |->
    [i \in 0 .. 1 |-> CASE b = 0 -> 0
                        [] b = 3 /\ i = 1 -> 141
                        [] OTHER -> 128 + 2 * b + i]]

\* All zeros, for the runs whose properties do not look at the data.
MC_Blank == [b \in 0 .. 10 |-> [i \in 0 .. 1 |-> 0]]

Seedling == [storage |-> "seedling", key |-> 1, eof |-> 2, text |-> FALSE]
Sapling  == [storage |-> "sapling",  key |-> 2, eof |-> 3, text |-> TRUE]
Tree     == [storage |-> "tree",     key |-> 5, eof |-> 7, text |-> FALSE]

\* Every index entry of the sapling is in use: its eof is a whole number of blocks.
FullSapling == [storage |-> "sapling", key |-> 2, eof |-> 4, text |-> FALSE]

MC_Files == {Seedling, Sapling, Tree}
MC_SaplingOnly == {Sapling}
MC_TreeOnly == {Tree}
MC_FullSapling == {FullSapling}
=============================================================================
