SPECIFICATION Spec
CONSTANTS
  BLOCK_SIZE = 2
  POINTERS = 2
  NumBlocks = 11
  Bytes <- MC_Bytes
  Pointers <- MC_PointerTable
  Files <- MC_Files
  Handles = {h1}
  Threads = {t1, t2}
  Offsets = {0, 2}
  Sizes = {2}
  AsyncRead = TRUE
  NULL = NULL
INVARIANT ReadCorrect
