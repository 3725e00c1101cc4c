SPECIFICATION Spec
CONSTANTS
  Names = {A, B}
  Processes = {p1}
  Mounts = {}
  Inodes = {i1, i2, i3, i4}
  Empty = Empty
  Torn = Torn
  NULL = NULL
PROPERTY ImageRenamed
SYMMETRY MC_Symmetry
