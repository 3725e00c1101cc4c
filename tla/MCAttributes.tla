------------------------------ MODULE MCAttributes ------------------------------
(* Files, a directory and a volume; Attributes for TLC. *)
EXTENDS Attributes

Plain(s) == [k \in 1 .. Len(s) |-> [glyph |-> s[k], lower |-> FALSE]]

\* The file of README.md's example, a text file, a directory and the volume.
Adrs == [storage |-> 2, type |-> 26, aux_type |-> 220 * 256 + 127,
         name |-> Plain(<<"I", "M", "P", "O", "R", "T", "A", "N", "T", ".", "A", "D", "R", "S">>)]

MC_Shown ==
  { Adrs,
    [storage |-> 1, type |-> 4, aux_type |-> 0, name |-> Plain(<<"A", "1">>)],
    [storage |-> 13, type |-> 15, aux_type |-> 0, name |-> Plain(<<"D">>)],
    [storage |-> 15, type |-> 0, aux_type |-> 0, name |-> Plain(<<"V">>)] }

\* The ends of months, leap days and years, no date, and the ends of each field.
MC_Stamps ==
  {<<year * 512 + month * 32 + day, time>> :
     year \in {0, 1, 4, 69, 70, 71, 72, 92, 99, 100, 127},
     month \in {0, 1, 2, 3, 7, 12, 13},
     day \in {1, 28},
     time \in {0, 23 * 256 + 59}}
  \cup {<<year * 512 + 2 * 32 + 29, 0>> : year \in {0, 72, 96}}
  \cup {<<year * 512 + 12 * 32 + 31, 23 * 256 + 59>> : year \in {0, 69, 70, 99}}
  \cup {<<year * 512, 0>> : year \in {0, 70}} \cup {<<65535, 65535>>}

\* A zone of the northern hemisphere, its summer cut to whole months.
MC_SummerTime(t) == LocalTime(t).month \in 4 .. 10

\* Lengths of the texts: an access without flags is empty.
MC_ValueLength(e, a) ==
  CASE a = "prodos.access" -> 0
    [] a = "prodos.appleworks_filename" -> Len(e.name)
    [] OTHER -> 4

\* None, too small, and around what the lists and values need.
MC_Sizes ==
  {0, 1, 4, 5, 6, 14, 15, 100}
    \cup {n + d : n \in {158, 168, 185}, d \in -1 .. 1}

\* src/README.md:58 shows what becomes of IMPORTANT.ADRS with aux_type $DC7F:
\* prodos.appleworks_filename="Important Adrs" (AppleWorksFileName).
ReadmeExample ==
  shown = Adrs =>
    AppleWorksFileName(shown.name, shown.aux_type)
      = [k \in 1 .. 14 |->
          CASE k \in {1, 11} -> shown.name[k]
            [] k = 10 -> Space
            [] OTHER -> Lower(shown.name[k])]
=============================================================================
