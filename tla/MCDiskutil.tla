------------------------------- MODULE MCDiskutil -------------------------------
(* Diskutil for TLC; the model values are in the configurations. *)
EXTENDS Diskutil, TLC

\* Neither a file nor a volume name is distinguished from the others.
MC_Symmetry == Permutations(Inodes) \cup Permutations(Names)
=============================================================================
