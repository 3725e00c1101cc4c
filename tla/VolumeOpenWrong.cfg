SPECIFICATION Spec
CONSTANTS
  Passwords <- MC_Passwords
  NULL = NULL
  Letters = {"A"}
  Digits = {"1"}
  VolumeName <- MC_VolumeName
  Names <- MC_Names
INVARIANT WrongPasswordRefused
