SPECIFICATION Spec
CONSTANTS
  Names = {A, B}
  Processes = {p1}
  Mounts = {m1}
  Inodes = {i1, i2, i3, i4, i5}
  Empty = Empty
  Torn = Torn
  NULL = NULL
INVARIANT TypeOK
INVARIANT ImageOpens
INVARIANT MenuShowsImage
PROPERTY SaveWritesVolume
PROPERTY MappedUnchanged
SYMMETRY MC_Symmetry
