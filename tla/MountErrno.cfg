SPECIFICATION Spec
CONSTANTS
  Processes = {p1, p2}
  Volumes = {"disk", "bad name"}
  ValidNames = {"disk"}
  MaxSuffix = 2
  Existing <- MC_Existing
  LeftErrnos = {"EINVAL", "ENOENT"}
  NULL = NULL
SYMMETRY MC_Symmetry
INVARIANT GivesUpWhenFull
