SPECIFICATION CountSpec
CONSTANTS
  BLOCK_SIZE = 7
  BITS = 2
  UINT = 32
  BITMAP = 5
  Totals = {6, 7, 9, 15}
  RootChains <- MC_RootChains
CHECK_DEADLOCK FALSE
INVARIANT FloppiesAreCounted
INVARIANT RootIsCounted
INVARIANT NeverTerminates
