\* Three clients, aligned requests, frees that never need the lazy merge.
SPECIFICATION FairSpec
CONSTANTS
  MemStart = 8
  Total = 13
  PageSize = 8
  MEMBLOCKS_PER_PAGE = 7
  Word = 22
  Sizes = {1, 4}
  Aligns = {0, 4}
  IsrSizes = {}
  FreeDiscipline = "above_used"
  Reserved = {}
  MaxHeld = 3
INVARIANTS
  TypeOK
  Exclusive
  BlockTiling
  Aligned
  FreeChain
  HonestFailure
  AccountedAllocations
PROPERTIES
  MemorySpec
  Terminates
\* The system stops when nobody calls the allocator any more.
CHECK_DEADLOCK FALSE
