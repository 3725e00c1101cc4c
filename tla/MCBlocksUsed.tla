------------------------------ MODULE MCBlocksUsed ------------------------------
(* BlocksUsed for TLC; the numbers are in the configurations. *)
EXTENDS BlocksUsed

\* A directory of one block, and larger ones in order and not.
MC_RootChains == {<<2>>, <<2, 3, 4>>, <<2, 4, 3>>}
=============================================================================
