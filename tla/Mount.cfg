SPECIFICATION Spec
CONSTANTS
  Processes = {p1, p2}
  Volumes = {"disk", "bad name"}
  ValidNames = {"disk"}
  MaxSuffix = 2
  Existing <- MC_Existing
  LeftErrnos = {"EINVAL"}
  NULL = NULL
INVARIANT TypeOK
INVARIANT SeparateMounts
INVARIANT UsersDirectoriesKept
INVARIANT NothingLeftBehind
INVARIANT GivesUpWhenFull
SYMMETRY MC_Symmetry
