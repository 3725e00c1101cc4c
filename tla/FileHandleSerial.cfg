SPECIFICATION Spec
CONSTANTS
  BLOCK_SIZE = 2
  POINTERS = 2
  NumBlocks = 11
  Bytes <- MC_Bytes
  Pointers <- MC_PointerTable
  Files <- MC_Files
  Handles = {h1, h2}
  Threads = {t1, t2}
  Offsets = {0, 3, 8}
  Sizes = {3, 5}
  AsyncRead = FALSE
  NULL = NULL
INVARIANT TypeOK
INVARIANT ReadCorrect
PROPERTY ImplementsService
