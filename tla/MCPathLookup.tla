------------------------------ MODULE MCPathLookup ------------------------------
(* A volume of three nested directories in blocks of two entries; PathLookup for TLC. *)
EXTENDS PathLookup

File(n)   == [name |-> n, kind |-> "file", key |-> NULL, type |-> "TXT"]
Dir(n, k) == [name |-> n, kind |-> "directory", key |-> k, type |-> "DIR"]

Pascal(n) == [name |-> n, kind |-> "other", key |-> NULL, type |-> "PAS"]

MC_Entries == {File("F"), File("G"), File("H"), Dir("D", 5), Dir("E", 7), Pascal("P")}

Slot(s) == [i \in 0 .. 2 |-> s[i + 1]]

\* The volume directory holds the file F and, in its second block, the directory D
\* and a Pascal area P; D holds the directory E and a file G; E holds F and H.
MC_Slots ==
  [k \in {2, 5, 7} |->
    CASE k = 2 -> << Slot(<<Inactive, File("F"), Inactive>>),
                     Slot(<<Dir("D", 5), Pascal("P"), Inactive>>) >>
      [] k = 5 -> << Slot(<<Inactive, Dir("E", 7), Inactive>>),
                     Slot(<<File("G"), Inactive, Inactive>>) >>
      [] k = 7 -> << Slot(<<Inactive, File("F"), Inactive>>),
                     Slot(<<File("H"), Inactive, Inactive>>) >>]

MC_FileCount == [k \in {2, 5, 7} |-> IF k = 2 THEN 3 ELSE 2]

\* "d" is D in lower case; nothing is called "Z".
MC_Fold ==
  [n \in {"D", "d", "E", "F", "G", "H", "P", "Z", NoName} |-> IF n = "d" THEN "D" ELSE n]

Plain(n) == [name |-> n, type |-> NULL]
Text(n) == [name |-> n, type |-> "TXT"]

ShortPaths ==
  {<<>>} \cup {<<Plain(n)>> : n \in {"d", "E", "F", "P", "Z"}}
  \cup {<<Plain(m), Plain(n)>> : m \in {"D", "d", "F", "Z"}, n \in {"E", "F", "G", "Z"}}

TypedPaths == {<<Text("F")>>, <<Plain("D"), Text("G")>>, <<Plain("D"), Text("Z")>>}

\* Extensions on directories, and extensions without a name.
OddPaths ==
  { <<Text("D")>>, <<Text("D"), Plain("G")>>, <<Text("D"), Plain("E"), Plain("H")>>,
    <<Text("D"), Text("G")>>, <<Plain("D"), Text("E"), Plain("H")>>,
    <<Text(NoName)>>, <<Plain("D"), Text(NoName)>>, <<Text(NoName), Plain("F")>> }

LongPaths == {<<Plain("D"), Plain("E"), Plain("H")>>}

MC_Paths == ShortPaths \cup TypedPaths \cup OddPaths \cup LongPaths
=============================================================================
