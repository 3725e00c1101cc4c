SPECIFICATION Spec
CONSTANTS
  ENTRIES_PER_BLOCK = 2
  Slots <- MC_Slots
  FileCount <- MC_FileCount
  Entries = {"a", "b", "c", "d"}
  Inactive = Inactive
  Handles = {h1, h2}
  Threads = {t1, t2}
  Failures = {"file_not_found"}
  NULL = NULL
INVARIANT TypeOK
INVARIANT NeverTerminates
INVARIANT ListedOnce
INVARIANT ListingComplete
PROPERTY EveryReadDirReturns
PROPERTY ImplementsService
