\* Two reserved extents are marked at boot; then an interrupt handler
\* allocates in the middle of clients' calls and the table of structs grows.
SPECIFICATION Spec
CONSTANTS
  MemStart = 7
  Total = 38
  PageSize = 7
  MEMBLOCKS_PER_PAGE = 4
  Word = 46
  Sizes = {1, 2}
  Aligns = {0, 2}
  IsrSizes = {1}
  FreeDiscipline = "never"
  Reserved <- ReservedInside
  MaxHeld = 3
INVARIANTS
  BumpInPage
  GrowthNestsOnce
  ReservedKept
\* The system stops when nobody calls the allocator any more.
CHECK_DEADLOCK FALSE
