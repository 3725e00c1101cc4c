SPECIFICATION Spec
CONSTANTS
  BLOCK_SIZE = 2
  POINTERS = 2
  NumBlocks = 11
  Bytes <- MC_Blank
  Pointers <- MC_PointerTable
  Files <- MC_TreeOnly
  Handles = {h1}
  Threads = {t1, t2}
  Offsets = {0, 5}
  Sizes = {3}
  AsyncRead = TRUE
  NULL = NULL
INVARIANT CopyInBounds
INVARIANT NeverTerminates
PROPERTY EveryReadReturns
