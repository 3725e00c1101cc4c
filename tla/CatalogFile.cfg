SPECIFICATION Spec
CONSTANTS
  ENTRIES_PER_BLOCK = 2
  Slots <- MC_Slots
  FileCount <- MC_FileCount
  Entries = {"a", "b", "c", "d"}
  Inactive = Inactive
  FILE_SIZE_MAX = 7
  Handles = {h1, h2}
  Sizes = {1, 2, 9}
  Offsets = {0, 1, 2}
  NULL = NULL
INVARIANT CatalogComplete
INVARIANT RestIsRead
