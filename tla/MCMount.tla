-------------------------------- MODULE MCMount --------------------------------
(* Two processes and one volume; Mount for TLC. *)
EXTENDS Mount, TLC

\* Nothing of the volume's name exists; the name and its last suffix do.
MC_Existing == {{}, {Named("disk", 0), Named("disk", MaxSuffix)}}

MC_Symmetry == Permutations(Processes)
=============================================================================
