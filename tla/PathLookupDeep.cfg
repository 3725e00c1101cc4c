SPECIFICATION Spec
CONSTANTS
  ENTRIES_PER_BLOCK = 2
  Slots <- MC_Slots
  FileCount <- MC_FileCount
  Entries <- MC_Entries
  Inactive = Inactive
  Root = 2
  Fold <- MC_Fold
  Types = {"TXT", "DIR", "PAS"}
  Paths <- MC_Paths
  ExtensionMode = TRUE
  NoName = ""
  Garbled = Garbled
  NULL = NULL
INVARIANT EveryPathResolves
CHECK_DEADLOCK FALSE
