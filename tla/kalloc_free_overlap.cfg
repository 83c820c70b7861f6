\* After a lazy merge of unequal blocks.
SPECIFICATION Spec
CONSTANTS
  MemStart = 8
  Total = 12
  PageSize = 8
  MEMBLOCKS_PER_PAGE = 7
  Word = 21
  Sizes = {1, 2}
  Aligns = {0}
  IsrSizes = {}
  FreeDiscipline = "any"
  Reserved = {}
  MaxHeld = 3
INVARIANTS
  Exclusive
\* The system stops when nobody calls the allocator any more.
CHECK_DEADLOCK FALSE
