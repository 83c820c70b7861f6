\* kmarkunusable compares an address with an offset.
SPECIFICATION Spec
CONSTANTS
  MemStart = 8
  Total = 16
  PageSize = 8
  MEMBLOCKS_PER_PAGE = 7
  Word = 25
  Sizes = {2}
  Aligns = {0}
  IsrSizes = {}
  FreeDiscipline = "never"
  Reserved <- ReservedNearEnd
  MaxHeld = 3
INVARIANTS
  ReservedKept
\* The system stops when nobody calls the allocator any more.
CHECK_DEADLOCK FALSE
