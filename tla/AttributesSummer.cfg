SPECIFICATION AttrSpec
CONSTANTS
  Letters = {"I", "M", "P", "O", "R", "T", "A", "N", "D", "S", "V"}
  Digits = {"1"}
  Shown <- MC_Shown
  Stamps <- MC_Stamps
  Sizes <- MC_Sizes
  ValueLength <- MC_ValueLength
  SummerTime <- MC_SummerTime
  NONE = NONE
INVARIANT SummerDatesAgree
