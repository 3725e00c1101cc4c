------------------------------ MODULE MCVolumeOpen ------------------------------
(* VolumeOpen for TLC; the model values are in the configurations. *)
EXTENDS VolumeOpen

Capital(l) == [glyph |-> l, lower |-> FALSE]
Small(l) == [glyph |-> l, lower |-> TRUE]

\* "ABCDEFGHI", and what differs from it in character k.
Right == [k \in 1 .. 9 |-> 64 + k]
Wrong(k) == [Right EXCEPT ![k] = 95]

\* Of the eight characters that are used, the tests see the first five, the third only
\* in the total of blocks: a password that is wrong in the first is noticed, and one
\* that is wrong in the seventh is not.  The ninth is not used.
MC_Passwords == {Right, Wrong(1), Wrong(3), Wrong(7), Wrong(9)}

MC_One == {Right}

MC_VolumeName == <<Capital("A"), Capital("1"), Capital(".")>>

\* The shortest, the longest and one in small letters; empty, too long, and one that
\* starts with a digit.
MC_Names ==
  { <<Capital("A")>>,
    [k \in 1 .. FILENAME_LENGTH |-> Capital("A")],
    <<Small("A"), Capital("1")>>,
    <<>>,
    [k \in 1 .. FILENAME_LENGTH + 1 |-> Capital("A")],
    <<Capital("1")>> }
=============================================================================
