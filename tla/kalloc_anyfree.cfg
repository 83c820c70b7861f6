\* Frees in any order, with alignment: the lazy merge of ksmalloc runs, and
\* the region is large enough for a wrong address to reach a struct.
SPECIFICATION LazySpec
CONSTANTS
  MemStart = 13
  Total = 25
  PageSize = 13
  MEMBLOCKS_PER_PAGE = 12
  Word = 39
  Sizes = {1, 2, 9}
  Aligns = {0, 2}
  IsrSizes = {}
  FreeDiscipline = "any"
  Reserved = {}
  MaxHeld = 4
  MaxCalls = 8
INVARIANTS
  SoundWhileIntact
\* A behaviour ends at the first misplaced block, and when nobody calls.
CHECK_DEADLOCK FALSE
