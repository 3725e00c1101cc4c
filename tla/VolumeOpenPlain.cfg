SPECIFICATION Spec
CONSTANTS
  Passwords <- MC_One
  NULL = NULL
  Letters = {"A"}
  Digits = {"1"}
  VolumeName <- MC_VolumeName
  Names <- MC_Names
INVARIANT PlainImageOpens
